-------------------------- MODULE PaintProofs --------------------------
(* Theorems about PaintTimers, for any controls, any size of the ring of ids *)
(* and any number of timers; and about PaintManager, for any dialogs, any    *)
(* controls and any number of calls of the application.                      *)
EXTENDS PaintManager, PaintTimers, SequenceTheorems, TLAPS

\* How far back an id was given: d entries before the last one.
GivenBack(id, d) == id = m_uTimerID - d \/ id = (m_uTimerID - d) + IdModulus

\* m_uTimerID runs around the ring; an entry of the last round has the id of
\* its place.
OnRing ==
    /\ created > 0 => m_uTimerID \in ID
    /\ \A t \in m_aTimers :
          /\ t.nth <= created
          /\ created - t.nth < IdModulus => GivenBack(t.uWinTimer, created - t.nth)

\* An entry has its place in the table for itself.
OneAPlace == \A t, u \in m_aTimers : t.nth = u.nth => t = u

Unshared == ~shared => \A t, u \in m_aTimers : t.uWinTimer = u.uWinTimer => t = u

\* In the first round an id belongs to whom it was given, in the window and in
\* its queue of messages.
Belongs(id, n) ==
    n # Nobody => /\ \E d \in 0 .. created - 1 : GivenBack(id, d)
                  /\ \A t \in m_aTimers : t.uWinTimer = id => t.name = n

FirstRound ==
    created <= IdModulus =>
       /\ \A id \in ID : Belongs(id, armed[id]) /\ Belongs(id, inQueue[id])
       /\ event.to = event.by

\* All of these together are inductive.
TimerInv ==
    TypeOK /\ SendersAlive /\ OnRing /\ OneAPlace /\ IdsFarApart /\ Unshared /\
    WindowAgrees /\ FirstRound

\* The next id is the next place of the ring.
LEMMA NextOnRing ==
    ASSUME TypeOK
    PROVE  /\ NextID \in ID
           /\ m_uTimerID \in ID => NextID = m_uTimerID + 1 \/ NextID = (m_uTimerID + 1) - IdModulus
<1>1. NextID \in ID BY TimerAssumption DEF TypeOK, NextID, ID
<1>2. ASSUME m_uTimerID \in ID, m_uTimerID + 1 < IdModulus PROVE NextID = m_uTimerID + 1
      BY <1>2, TimerAssumption DEF NextID, ID
<1>3. ASSUME m_uTimerID \in ID, ~(m_uTimerID + 1 < IdModulus) PROVE NextID = (m_uTimerID + 1) - IdModulus
  <2>1. m_uTimerID + 1 = IdModulus BY <1>3, TimerAssumption DEF ID
  <2>2. IdModulus % IdModulus = 0 BY TimerAssumption
  <2> QED BY <2>1, <2>2, TimerAssumption DEF NextID
<1> QED BY <1>1, <1>2, <1>3

\* In the first round no two entries have the same id.
LEMMA OneRound ==
    ASSUME TimerInv, created <= IdModulus, NEW t \in m_aTimers, NEW u \in m_aTimers,
           t.uWinTimer = u.uWinTimer
    PROVE  t = u
<1>1. /\ t.nth \in Nat /\ 1 <= t.nth /\ t.nth <= created
      /\ u.nth \in Nat /\ 1 <= u.nth /\ u.nth <= created /\ created \in Nat
      BY TimerAssumption DEF TimerInv, TypeOK, OnRing, Timer
<1>2. ~(t.nth < u.nth) /\ ~(u.nth < t.nth) BY <1>1, TimerAssumption DEF TimerInv, IdsFarApart
<1>3. t.nth = u.nth BY <1>1, <1>2
<1> QED BY <1>3 DEF TimerInv, OneAPlace

\* The table is empty in the beginning.
LEMMA InitTimers == ASSUME TimersInit PROVE TimerInv
<1>1. TypeOK
  <2>1. inQueue \in [ID -> Name \cup {Nobody}] /\ armed \in [ID -> Name \cup {Nobody}] BY DEF TimersInit
  <2>2. event \in [to : Name \cup {Nobody}, by : Name \cup {Nobody}] BY DEF TimersInit
  <2>3. living \subseteq Control /\ m_aTimers \subseteq Timer /\ shared \in BOOLEAN BY DEF TimersInit
  <2>4. \A t, u \in m_aTimers : t.name = u.name => t = u BY DEF TimersInit
  <2>5. m_uTimerID \in Nat /\ created \in 0 .. MaxCreated BY TimerAssumption DEF TimersInit
  <2> QED BY <2>1, <2>2, <2>3, <2>4, <2>5 DEF TypeOK
<1>2. SendersAlive /\ OnRing /\ OneAPlace /\ IdsFarApart /\ Unshared
      BY DEF TimersInit, SendersAlive, OnRing, OneAPlace, IdsFarApart, Unshared
<1>3. WindowAgrees BY DEF TimersInit, WindowAgrees, Live
<1>4. FirstRound BY DEF TimersInit, FirstRound, Belongs
<1> QED BY <1>1, <1>2, <1>3, <1>4 DEF TimerInv

\* Entries that go, and windows' timers that go with the live ones of them,
\* keep the invariant: for KillTimer(pControl) and RemoveAllTimers.
LEMMA RemovalKeeps ==
    ASSUME TimerInv, NEW gone \in SUBSET m_aTimers,
           m_aTimers' = m_aTimers \ gone, armed' = Without(Live(gone)),
           living' \subseteq living, \A t \in m_aTimers \ gone : t.name[1] \in living',
           UNCHANGED <<m_uTimerID, created, inQueue, shared, event>>
    PROVE  TimerInv'
<1> USE DEF TimerInv
<1>1. \A id \in ID : /\ armed'[id] \in {armed[id], Nobody}
                     /\ armed'[id] # Nobody => id \notin Ids(Live(gone))
      BY DEF Without
<1>2. TypeOK'
  <2>1. armed' \in [ID -> Name \cup {Nobody}] BY DEF Without, TypeOK
  <2> QED BY <2>1 DEF TypeOK
<1>3. SendersAlive' BY DEF SendersAlive
<1>4. OnRing' /\ OneAPlace' BY DEF OnRing, OneAPlace, GivenBack
<1>5. IdsFarApart' /\ Unshared' BY DEF IdsFarApart, Unshared
<1>6. WindowAgrees'
  <2>1. ASSUME NEW id \in ID, armed'[id] # Nobody PROVE id \in Ids(Live(m_aTimers'))
    <3>1. armed[id] # Nobody /\ id \notin Ids(Live(gone)) BY <1>1, <2>1
    <3>2. PICK t \in Live(m_aTimers) : t.uWinTimer = id BY <3>1 DEF WindowAgrees, Ids
    <3>3. t \notin gone BY <3>1, <3>2 DEF Ids, Live
    <3> QED BY <3>2, <3>3 DEF Ids, Live
  <2>2. ASSUME ~shared, NEW t \in Live(m_aTimers') PROVE armed'[t.uWinTimer] = t.name
    <3>1. t \in Live(m_aTimers) /\ t \in m_aTimers /\ t \notin gone /\ t.uWinTimer \in ID
          BY <2>2 DEF Live, TypeOK, Timer
    <3>2. t.uWinTimer \notin Ids(Live(gone)) BY <2>2, <3>1 DEF Unshared, Ids, Live
    <3> QED BY <2>2, <3>1, <3>2 DEF WindowAgrees, Without
  <2> QED BY <2>1, <2>2 DEF WindowAgrees
<1>7. FirstRound'
  <2> SUFFICES ASSUME created <= IdModulus PROVE FirstRound' BY DEF FirstRound
  <2>1. ASSUME NEW id \in ID PROVE Belongs(id, armed[id])' /\ Belongs(id, inQueue[id])'
        BY <1>1, <2>1 DEF FirstRound, Belongs, GivenBack
  <2> QED BY <2>1 DEF FirstRound
<1> QED BY <1>2, <1>3, <1>4, <1>5, <1>6, <1>7

\* An entry that changes between killed and live keeps name, id and place.
LEMMA ToggleKeeps ==
    ASSUME TimerInv, NEW t \in m_aTimers, NEW killed \in BOOLEAN,
           m_aTimers' = (m_aTimers \ {t}) \cup {[t EXCEPT !.bKilled = killed]},
           t.bKilled # killed,
           armed' = IF killed THEN Without({t}) ELSE [armed EXCEPT ![t.uWinTimer] = t.name],
           UNCHANGED <<living, m_uTimerID, created, inQueue, shared, event>>
    PROVE  TimerInv'
<1> USE DEF TimerInv
<1> DEFINE v == [t EXCEPT !.bKilled = killed]
<1>1. /\ t \in Timer /\ v \in Timer /\ v.name = t.name /\ v.uWinTimer = t.uWinTimer
      /\ v.nth = t.nth /\ v.bKilled = killed
      BY DEF TypeOK, Timer
<1> HIDE DEF v
<1>2. m_aTimers' = (m_aTimers \ {t}) \cup {v} BY DEF v
<1>3. TypeOK'
  <2>1. armed' \in [ID -> Name \cup {Nobody}] BY <1>1 DEF Without, TypeOK, Timer
  <2>2. m_aTimers' \subseteq Timer BY <1>1, <1>2 DEF TypeOK
  <2>3. \A a, b \in m_aTimers' : a.name = b.name => a = b BY <1>1, <1>2 DEF TypeOK
  <2> QED BY <2>1, <2>2, <2>3 DEF TypeOK
<1>4. SendersAlive' BY <1>1, <1>2 DEF SendersAlive
<1>5. OnRing' /\ OneAPlace' BY <1>1, <1>2 DEF OnRing, OneAPlace, GivenBack
<1>6. IdsFarApart' BY <1>1, <1>2 DEF IdsFarApart
<1>7. Unshared' BY <1>1, <1>2 DEF Unshared
<1>8. \A id \in ID : armed'[id] = IF id = t.uWinTimer THEN (IF killed THEN Nobody ELSE t.name)
                                  ELSE armed[id]
      BY <1>1 DEF Without, Ids, TypeOK
<1>9. WindowAgrees'
  <2>1. ASSUME NEW id \in ID, armed'[id] # Nobody PROVE id \in Ids(Live(m_aTimers'))
    <3>1. CASE id = t.uWinTimer
      <4>1. ~killed BY <1>8, <2>1, <3>1
      <4> QED BY <1>1, <1>2, <3>1, <4>1 DEF Ids, Live
    <3>2. CASE id # t.uWinTimer
      <4>1. armed[id] # Nobody BY <1>8, <2>1, <3>2
      <4>2. PICK u \in Live(m_aTimers) : u.uWinTimer = id BY <4>1 DEF WindowAgrees, Ids
      <4> QED BY <1>2, <3>2, <4>2 DEF Ids, Live
    <3> QED BY <3>1, <3>2
  <2>2. ASSUME ~shared, NEW u \in Live(m_aTimers') PROVE armed'[u.uWinTimer] = u.name
    <3>1. CASE u = v
      <4>1. ~killed BY <1>1, <3>1 DEF Live
      <4> QED BY <1>1, <1>8, <3>1, <4>1 DEF Timer
    <3>2. CASE u # v
      <4>1. u \in m_aTimers /\ u \in Live(m_aTimers) /\ u # t /\ u \in Timer
            BY <1>2, <3>2 DEF Live, TypeOK
      <4>2. u.uWinTimer # t.uWinTimer BY <2>2, <4>1 DEF Unshared
      <4> QED BY <1>8, <2>2, <4>1, <4>2 DEF WindowAgrees, Timer
    <3> QED BY <3>1, <3>2
  <2> QED BY <2>1, <2>2 DEF WindowAgrees
<1>10. FirstRound'
  <2> SUFFICES ASSUME created <= IdModulus PROVE FirstRound' BY DEF FirstRound
  <2>1. created \in Nat /\ t.nth \in 1 .. created /\ created - t.nth < IdModulus
        BY <1>1, TimerAssumption DEF TypeOK, OnRing, Timer
  <2>2. GivenBack(t.uWinTimer, created - t.nth) BY <2>1 DEF OnRing
  <2>3. created - t.nth \in 0 .. created - 1 BY <2>1
  <2>4. \A u \in m_aTimers : u.uWinTimer = t.uWinTimer => u = t BY OneRound
  <2>5. ASSUME NEW id \in ID PROVE Belongs(id, armed[id])' /\ Belongs(id, inQueue[id])'
    <3>1. CASE id = t.uWinTimer
          BY <1>1, <1>2, <1>8, <2>2, <2>3, <2>4, <3>1 DEF FirstRound, Belongs, GivenBack
    <3>2. CASE id # t.uWinTimer
      <4>1. armed'[id] = armed[id] /\ inQueue' = inQueue BY <1>8, <3>2
      <4>2. \A u \in m_aTimers' : u.uWinTimer = id => u \in m_aTimers BY <1>1, <1>2, <3>2
      <4>3. created' = created /\ m_uTimerID' = m_uTimerID OBVIOUS
      <4>4. Belongs(id, armed[id]) /\ Belongs(id, inQueue[id]) BY DEF FirstRound
      <4>5. Belongs(id, armed[id])' BY <4>1, <4>2, <4>3, <4>4 DEF Belongs, GivenBack
      <4>6. Belongs(id, inQueue[id])' BY <4>1, <4>2, <4>3, <4>4 DEF Belongs, GivenBack
      <4> QED BY <4>5, <4>6
    <3> QED BY <3>1, <3>2
  <2> QED BY <2>5 DEF FirstRound
<1> QED BY <1>3, <1>4, <1>5, <1>6, <1>7, <1>9, <1>10

\* SetTimer for a new name.
LEMMA SetTimerKeeps ==
    ASSUME TimerInv, NEW n \in Name, NEW accepted \in BOOLEAN, SetTimer(n, accepted)
    PROVE  TimerInv'
<1> USE TimerAssumption DEF TimerInv
<1> DEFINE v == [name |-> n, uWinTimer |-> NextID, bKilled |-> FALSE, nth |-> created']
<1>1. created \in Nat /\ created' = created + 1 /\ created' \in 1 .. MaxCreated /\ m_uTimerID' = NextID
      BY DEF SetTimer, TypeOK
<1>2. NextID \in ID /\ (m_uTimerID \in ID => \/ NextID = m_uTimerID + 1
                                              \/ NextID = (m_uTimerID + 1) - IdModulus)
      BY NextOnRing
<1>3. /\ v \in Timer /\ v.name = n /\ v.uWinTimer = NextID /\ v.nth = created'
      /\ v.bKilled = FALSE
      BY <1>1, <1>2 DEF Timer
<1> HIDE DEF v
<1>4. m_aTimers' = m_aTimers \cup {v} \/ m_aTimers' = m_aTimers BY DEF SetTimer, v
<1>5. UNCHANGED <<living, inQueue, event>> /\ n[1] \in living BY DEF SetTimer
<1>6. accepted => /\ m_aTimers' = m_aTimers \cup {v} /\ armed' = [armed EXCEPT ![NextID] = n]
                  /\ shared' = (shared \/ NextID \in Ids(m_aTimers))
      BY DEF SetTimer, v
<1>7. ~accepted => UNCHANGED <<m_aTimers, armed, shared>> BY DEF SetTimer
<1>8. \A t \in m_aTimers : t \in Timer /\ t.nth \in Nat /\ t.nth <= created /\ t.uWinTimer \in ID
      BY <1>1 DEF TypeOK, OnRing, Timer
<1>9. TypeOK'
  <2>1. m_aTimers' \subseteq Timer BY <1>3, <1>4 DEF TypeOK
  <2>2. \A t, u \in m_aTimers' : t.name = u.name => t = u
        BY <1>3, <1>4 DEF SetTimer, Known, TypeOK
  <2>3. m_uTimerID' \in Nat BY <1>1, <1>2 DEF ID
  <2>4. armed' \in [ID -> Name \cup {Nobody}]
        BY <1>2, <1>6, <1>7 DEF TypeOK
  <2>5. shared' \in BOOLEAN BY <1>6, <1>7 DEF TypeOK
  <2> QED BY <1>1, <1>5, <2>1, <2>2, <2>3, <2>4, <2>5 DEF TypeOK
<1>10. SendersAlive' BY <1>3, <1>4, <1>5 DEF SendersAlive
\* What was given is one further back now.
<1>11. ASSUME NEW id \in ID, NEW d \in Nat, d < created, d + 1 < IdModulus, GivenBack(id, d)
       PROVE  GivenBack(id, d + 1)' /\ id # NextID
  <2>1. m_uTimerID \in ID BY <1>1, <1>11 DEF OnRing
  <2> QED BY <1>1, <1>2, <1>11, <2>1 DEF GivenBack, ID
<1>12. ASSUME NEW t \in m_aTimers, created' - t.nth < IdModulus
       PROVE  GivenBack(t.uWinTimer, created - t.nth)' /\ t.uWinTimer # NextID
  <2> DEFINE d == created - t.nth
  <2>1. d \in Nat /\ d + 1 = created' - t.nth /\ d + 1 < IdModulus BY <1>1, <1>8, <1>12
  <2>2. d < created BY <1>1, <1>8 DEF TypeOK, Timer
  <2>3. GivenBack(t.uWinTimer, d) BY <1>1, <1>8, <2>1 DEF OnRing
  <2>4. /\ t.uWinTimer = m_uTimerID' - (d + 1) \/ t.uWinTimer = (m_uTimerID' - (d + 1)) + IdModulus
        /\ t.uWinTimer # NextID
    <3>1. PICK e \in Nat : e = d BY <2>1
    <3>2. GivenBack(t.uWinTimer, e + 1)' /\ t.uWinTimer # NextID BY <1>8, <1>11, <2>1, <2>2, <2>3, <3>1
    <3> QED BY <3>1, <3>2 DEF GivenBack
  <2>5. created' - t.nth = d + 1 BY <2>1
  <2> HIDE DEF d
  <2> QED BY <2>4, <2>5 DEF GivenBack
<1>13. OnRing'
  <2>1. m_uTimerID' \in ID BY <1>1, <1>2
  <2>2. NextID = m_uTimerID' - (created' - created') BY <1>1, <1>2 DEF ID
  <2>3. ASSUME NEW t \in m_aTimers'
        PROVE  /\ t.nth <= created'
               /\ created' - t.nth < IdModulus => GivenBack(t.uWinTimer, created - t.nth)'
    <3>1. CASE t = v BY <1>1, <1>3, <2>2, <3>1 DEF GivenBack
    <3>2. CASE t \in m_aTimers
      <4>1. t.nth <= created' BY <1>1, <1>8, <3>2
      <4> QED BY <1>12, <3>2, <4>1
    <3> QED BY <1>4, <3>1, <3>2
  <2> QED BY <2>1, <2>3 DEF OnRing, GivenBack
<1>14. OneAPlace' BY <1>1, <1>3, <1>4, <1>8 DEF OneAPlace
<1>15. IdsFarApart'
  <2> SUFFICES ASSUME NEW t \in m_aTimers', NEW u \in m_aTimers',
                      t.uWinTimer = u.uWinTimer, t.nth < u.nth
               PROVE  u.nth - t.nth >= IdModulus
      BY DEF IdsFarApart
  <2>1. CASE t \in m_aTimers /\ u \in m_aTimers BY <2>1 DEF IdsFarApart
  <2>2. CASE t \in m_aTimers /\ u = v
    <3>1. ~(created' - t.nth < IdModulus) BY <1>3, <1>12, <2>2
    <3> QED BY <1>1, <1>3, <1>8, <2>2, <3>1
  <2>3. CASE t = v
    <3>1. u.nth <= created' /\ u.nth \in Nat BY <1>1, <1>3, <1>4, <1>8
    <3> QED BY <1>1, <1>3, <2>3, <3>1
  <2> QED BY <1>4, <2>1, <2>2, <2>3
<1>16. Unshared'
  <2> SUFFICES ASSUME ~shared', accepted PROVE Unshared' BY <1>7 DEF Unshared
  <2>1. ~shared /\ NextID \notin Ids(m_aTimers) BY <1>6
  <2>2. \A t \in m_aTimers : t.uWinTimer # NextID BY <2>1 DEF Ids
  <2> QED BY <1>3, <1>6, <2>1, <2>2 DEF Unshared
<1>17. WindowAgrees'
  <2> SUFFICES ASSUME accepted PROVE WindowAgrees' BY <1>7 DEF WindowAgrees
  <2>0. \A id \in ID : armed'[id] = IF id = NextID THEN n ELSE armed[id] BY <1>2, <1>6 DEF TypeOK
  <2>1. ASSUME NEW id \in ID, armed'[id] # Nobody PROVE id \in Ids(Live(m_aTimers'))
    <3>1. CASE id = NextID BY <1>3, <1>6, <3>1 DEF Ids, Live
    <3>2. CASE id # NextID
      <4>1. PICK t \in Live(m_aTimers) : t.uWinTimer = id BY <2>0, <2>1, <3>2 DEF WindowAgrees, Ids
      <4> QED BY <1>6, <4>1 DEF Ids, Live
    <3> QED BY <3>1, <3>2
  <2>2. ASSUME ~shared', NEW t \in Live(m_aTimers') PROVE armed'[t.uWinTimer] = t.name
    <3>1. CASE t = v BY <1>2, <1>3, <2>0, <3>1
    <3>2. CASE t # v
      <4>1. t \in m_aTimers /\ t \in Live(m_aTimers) BY <1>6, <3>2 DEF Live
      <4>2. ~shared /\ t.uWinTimer # NextID BY <1>6, <2>2, <4>1 DEF Ids
      <4> QED BY <1>8, <2>0, <4>1, <4>2 DEF WindowAgrees
    <3> QED BY <3>1, <3>2
  <2> QED BY <2>1, <2>2 DEF WindowAgrees
<1>18. FirstRound'
  <2> SUFFICES ASSUME created' <= IdModulus PROVE FirstRound' BY DEF FirstRound
  <2>1. created < IdModulus /\ created <= IdModulus BY <1>1
  <2>2. ASSUME NEW id \in ID, NEW w \in Name, Belongs(id, w), w # Nobody PROVE Belongs(id, w)'
    <3>1. PICK d \in 0 .. created - 1 : GivenBack(id, d) BY <2>2 DEF Belongs
    <3>2. d \in Nat /\ d < created /\ d + 1 < IdModulus BY <1>1, <2>1
    <3>3. GivenBack(id, d + 1)' /\ id # NextID BY <1>11, <3>1, <3>2
    <3>4. d + 1 \in 0 .. created' - 1 BY <1>1, <3>2
    <3>5. \A t \in m_aTimers' : t.uWinTimer = id => t.name = w
          BY <1>3, <1>4, <2>2, <3>3 DEF Belongs
    <3>6. \E e \in 0 .. created' - 1 : GivenBack(id, e)' BY <3>3, <3>4 DEF GivenBack
    <3> QED BY <3>5, <3>6 DEF Belongs, GivenBack
  <2>3. \A id \in ID : Belongs(id, Nobody)' BY DEF Belongs
  <2>4. ASSUME NEW id \in ID PROVE Belongs(id, inQueue[id])'
    <3>1. Belongs(id, inQueue[id]) /\ inQueue[id] \in Name \cup {Nobody} BY <2>1 DEF FirstRound, TypeOK
    <3>2. inQueue'[id] = inQueue[id] BY <1>5
    <3>3. CASE inQueue[id] = Nobody BY <2>3, <3>2, <3>3 DEF Belongs
    <3>4. CASE inQueue[id] # Nobody
      <4>1. Belongs(id, inQueue[id]) /\ inQueue[id] \in Name BY <3>1, <3>4
      <4> QED BY <2>2, <3>2, <3>4, <4>1 DEF Belongs
    <3> QED BY <3>3, <3>4
  <2>5. ASSUME NEW id \in ID PROVE Belongs(id, armed[id])'
    <3>1. CASE accepted /\ id = NextID
      <4>1. armed'[id] = n BY <1>2, <1>6, <3>1 DEF TypeOK
      <4>2. \A t \in m_aTimers : t.uWinTimer # NextID
        <5> SUFFICES ASSUME NEW t \in m_aTimers PROVE t.uWinTimer # NextID OBVIOUS
        <5>1. t.nth >= 1 BY <1>8 DEF Timer
        <5>2. created' - t.nth < IdModulus BY <1>1, <1>8, <2>1, <5>1
        <5> QED BY <1>12, <5>2
      <4>3. \A t \in m_aTimers' : t.uWinTimer = id => t.name = n BY <1>3, <1>6, <3>1, <4>2
      <4>4. 0 \in 0 .. created' - 1 /\ GivenBack(id, 0)' BY <1>1, <1>2, <3>1 DEF GivenBack, ID
      <4> QED BY <4>1, <4>3, <4>4 DEF Belongs, GivenBack
    <3>2. CASE ~(accepted /\ id = NextID)
      <4>1. armed'[id] = armed[id] BY <1>2, <1>6, <1>7, <3>2 DEF TypeOK
      <4>2. Belongs(id, armed[id]) /\ armed[id] \in Name \cup {Nobody} BY <2>1 DEF FirstRound, TypeOK
      <4>3. CASE armed[id] = Nobody BY <2>3, <4>1, <4>3 DEF Belongs
      <4>4. CASE armed[id] # Nobody
        <5>1. Belongs(id, armed[id]) /\ armed[id] \in Name BY <4>2, <4>4
        <5> QED BY <2>2, <4>1, <4>4, <5>1 DEF Belongs
      <4> QED BY <4>3, <4>4
    <3> QED BY <3>1, <3>2
  <2>6. (event.to = event.by)' BY <1>5, <2>1 DEF FirstRound
  <2> QED BY <2>4, <2>5, <2>6 DEF FirstRound
<1> QED BY <1>9, <1>10, <1>13, <1>14, <1>15, <1>16, <1>17, <1>18

\* A timer of the window that elapses, and its message.
LEMMA MessageKeeps ==
    ASSUME TimerInv, NEW id \in ID, Elapse(id) \/ WM_TIMER(id)
    PROVE  TimerInv'
<1> USE TimerAssumption DEF TimerInv
<1>1. UNCHANGED <<living, m_aTimers, m_uTimerID, created, armed, shared>> BY DEF Elapse, WM_TIMER
<1>2. SendersAlive' /\ OnRing' /\ OneAPlace' /\ IdsFarApart' /\ Unshared' /\ WindowAgrees'
      BY <1>1 DEF SendersAlive, OnRing, OneAPlace, IdsFarApart, Unshared, WindowAgrees, GivenBack, Live, Ids
<1>3. inQueue' \in [ID -> Name \cup {Nobody}]
  <2>1. CASE Elapse(id) BY <2>1 DEF Elapse, TypeOK
  <2>2. CASE WM_TIMER(id) BY <2>2 DEF WM_TIMER, TypeOK
  <2> QED BY <2>1, <2>2
<1>4. \A i \in ID : inQueue'[i] \in {inQueue[i], armed[i], Nobody}
  <2>1. CASE Elapse(id) BY <2>1 DEF Elapse, TypeOK
  <2>2. CASE WM_TIMER(id) BY <2>2 DEF WM_TIMER, TypeOK
  <2> QED BY <2>1, <2>2
<1>5. \/ event' = event
      \/ \E t \in m_aTimers : /\ t.uWinTimer = id /\ inQueue[id] # Nobody
                             /\ event' = [to |-> t.name, by |-> inQueue[id]]
      BY DEF Elapse, WM_TIMER, Finds, Due
<1>6. event' \in [to : Name \cup {Nobody}, by : Name \cup {Nobody}]
      BY <1>5 DEF TypeOK, Timer
<1>7. TypeOK' BY <1>1, <1>3, <1>6 DEF TypeOK
<1>8. FirstRound'
  <2> SUFFICES ASSUME created <= IdModulus PROVE FirstRound' BY <1>1 DEF FirstRound
  <2>1. (event.to = event.by)' BY <1>5 DEF FirstRound, Belongs
  <2>2. ASSUME NEW i \in ID PROVE Belongs(i, armed[i])' /\ Belongs(i, inQueue[i])'
        BY <1>1, <1>4 DEF FirstRound, Belongs, GivenBack
  <2> QED BY <2>1, <2>2 DEF FirstRound
<1> QED BY <1>2, <1>7, <1>8

\* The invariant of the table of timers.
LEMMA TimerInvariant == TimersSpec => []TimerInv
<1>1. TimersInit => TimerInv BY InitTimers
<1>2. ASSUME TimerInv, [TimersNext]_timerVars PROVE TimerInv'
  <2>1. ASSUME NEW n \in Name, NEW accepted \in BOOLEAN, SetTimer(n, accepted) PROVE TimerInv'
        BY <1>2, <2>1, SetTimerKeeps
  <2>2. ASSUME NEW t \in m_aTimers, SetAgain(t) PROVE TimerInv'
    <3>1. t.bKilled # FALSE BY <2>2 DEF SetAgain
    <3> QED BY <1>2, <2>2, <3>1, ToggleKeeps DEF SetAgain
  <2>3. ASSUME NEW t \in m_aTimers, KillTimer(t) PROVE TimerInv'
    <3>1. t.bKilled # TRUE BY <2>3 DEF KillTimer
    <3> QED BY <1>2, <2>3, <3>1, ToggleKeeps DEF KillTimer
  <2>4. ASSUME NEW c \in Control, ReapObjects(c) PROVE TimerInv'
    <3>1. KilledWith(c) \in SUBSET m_aTimers BY DEF KilledWith
    <3>2. \A t \in m_aTimers \ KilledWith(c) : t.name[1] \in living'
          BY <1>2, <2>4 DEF ReapObjects, KilledWith, TimerInv, SendersAlive
    <3>3. /\ m_aTimers' = m_aTimers \ KilledWith(c) /\ armed' = Without(Live(KilledWith(c)))
          /\ living' \subseteq living /\ UNCHANGED <<m_uTimerID, created, inQueue, shared, event>>
          BY <2>4 DEF ReapObjects, ToKill
    <3> QED BY <1>2, <3>1, <3>2, <3>3, RemovalKeeps
  <2>5. CASE RemoveAllTimers
    <3>1. /\ m_aTimers' = m_aTimers \ m_aTimers /\ armed' = Without(Live(m_aTimers))
          /\ living' \subseteq living /\ UNCHANGED <<m_uTimerID, created, inQueue, shared, event>>
          BY <2>5 DEF RemoveAllTimers, ToKill
    <3> QED BY <1>2, <3>1, RemovalKeeps
  <2>6. ASSUME NEW id \in ID, Elapse(id) \/ WM_TIMER(id) PROVE TimerInv'
        BY <1>2, <2>6, MessageKeeps
  <2>7. CASE UNCHANGED timerVars
        BY <1>2, <2>7 DEF timerVars, TimerInv, TypeOK, SendersAlive, OnRing, OneAPlace, IdsFarApart,
           Unshared, WindowAgrees, FirstRound, Belongs, GivenBack, Live, Ids
  <2> QED BY <1>2, <2>1, <2>2, <2>3, <2>4, <2>5, <2>6, <2>7 DEF TimersNext
<1> QED BY <1>1, <1>2, PTL DEF TimersSpec

\* The table never leads WM_TIMER to a deleted control: for any controls.
THEOREM TimersReachTheLiving == TimersSpec => []SendersAlive
<1>1. TimerInv => SendersAlive BY DEF TimerInv
<1> QED BY <1>1, TimerInvariant, PTL

\* Two entries have the same id only if a whole ring of ids lies between them:
\* for a ring of any size.
THEOREM RingIsLongEnough == TimersSpec => []IdsFarApart
<1>1. TimerInv => IdsFarApart BY DEF TimerInv
<1> QED BY <1>1, TimerInvariant, PTL

\* The window's timers are those that the table has live, until an id is shared.
THEOREM TableIsTheWindows == TimersSpec => []WindowAgrees
<1>1. TimerInv => WindowAgrees BY DEF TimerInv
<1> QED BY <1>1, TimerInvariant, PTL

\* In the first ring of ids, no control gets the event of another timer.
THEOREM OwnEventsOnly == TimersSpec => []EventOfItsOwn
<1>1. TimerInv => EventOfItsOwn BY DEF TimerInv, FirstRound, EventOfItsOwn
<1> QED BY <1>1, TimerInvariant, PTL

-----------------------------------------------------------------------------
(* PaintManager: the call stack, the trees of controls, and the pointers.  *)

\* Where a frame may be, and what it may point to.
Places == Application \cup
    {"sfKilled", "sfNotified", "sfSet", "click", "leave", "enter", "key", "keyUp",
     "drain", "attach", "modal"}
Pointer == Controls \cup {None}
Frames == [at : Places, ctl : Pointer]

\* The variables have their types.
PaintTypes ==
    /\ parent \in [Controls -> Pointer] /\ focused \in [Controls -> BOOLEAN]
    /\ alive \subseteq Controls /\ managed \subseteq Controls
    /\ focus \in Pointer /\ hover \in Pointer /\ click \in Pointer /\ key \in Pointer
    /\ pressed \in Pointer /\ captured \in BOOLEAN
    /\ delayed \in Seq(Controls) /\ async \in Seq(Controls)
    /\ posted \in BOOLEAN /\ orderly \in BOOLEAN

\* The trees are those of the beginning, but for the controls taken out; a
\* dialog and its controls come under the manager together. What is queued for
\* deletion was taken out of a tree or is a whole one, and is queued once.
TreesOK ==
    /\ root \in Dialogs \cap managed
    /\ \A d \in Dialogs : parent[d] = None
    /\ \A k \in Kids : /\ parent[k] \in {Home[k], None}
                       /\ k \in managed <=> Home[k] \in managed
                       /\ k \notin managed => parent[k] = Home[k]
    /\ \A c \in Elements(delayed) : c \in managed /\ parent[c] = None /\ c # root
    /\ \A i, j \in 1 .. Len(delayed) : i # j => delayed[i] # delayed[j]
    /\ Controls \ managed \subseteq alive

\* A frame on the stack; o: the application has been orderly.
FrameOK(f, o) ==
    /\ f.at \in {"kill", "set", "click", "attach"} => f.ctl # None
    /\ f.at = "attach" => f.ctl \in Dialogs \ managed
    /\ f.at = "click" => f.ctl \in managed
    /\ o => /\ f.at # "sfSet" => f.ctl \in alive \cup {None}
            /\ f.at # "modal"
            /\ f.at = "attach" => delayed = <<>>

\* The order of the frames: the loss of the focus is completed by SetFocus, a
\* dialog is attached once, and in order one at a time; without nested loops
\* messages are handled at the bottom of the stack.
OrderOK(s, o) ==
    \A i \in 1 .. Len(s) :
       /\ s[i].at = "kill" => i < Len(s) /\ s[i + 1].at = "sfKilled"
       /\ s[i].at = "attach" =>
             \A j \in 1 .. Len(s) : s[j] = s[i] \/ (o /\ s[j].at = "attach") => i = j
       /\ o /\ s[i].at = "drain" => i = Len(s)

\* A stack of such frames in such an order.
Well(s, o) ==
    /\ s \in Seq(Frames)
    /\ \A f \in Elements(s) : FrameOK(f, o)
    /\ OrderOK(s, o)

\* Each keeps the others: a pointer lives because what is deleted was queued, out of
\* the tree, and reaped, or because the frames that could use it are not there.
PaintInv ==
    PaintTypes /\ TreesOK /\ Well(stack, orderly) /\ (orderly => PointersAlive)

\* SetFocus is not over for the control that has the focus.
FocusPending(s) ==
    \E f \in Elements(s) : f = Frame("set", focus) \/ f.at \in {"sfKilled", "sfNotified"}
FocusOK == focus # None => focused[Hearer(focus)] \/ refused \/ FocusPending(stack)

\* A capture without a press belongs to a double click under way, or its control
\* is gone from the dialog.
CaptureOK ==
    /\ pressed \in managed \cup {None}
    /\ click # None => click = pressed
    /\ captured /\ click = None =>
          \/ \E f \in Elements(stack) : f.at = "click"
          \/ pressed # None /\ ~InDialog(pressed)


\* A frame may be put on the stack s.
MayPush(f, s, o) ==
    /\ f \in Frames /\ FrameOK(f, o)
    /\ f.at = "kill" => s # <<>> /\ s[1].at = "sfKilled"
    /\ f.at = "attach" => \A g \in Elements(s) : g # f /\ (o => g.at # "attach")
    /\ o /\ f.at = "drain" => s = <<>>

\* Pushing a frame that may be pushed.
LEMMA PushWell ==
    ASSUME NEW f, NEW s, NEW o \in BOOLEAN, Well(s, o), MayPush(f, s, o)
    PROVE  /\ Well(<<f>> \o s, o)
           /\ Elements(<<f>> \o s) = {f} \cup Elements(s)
           /\ <<f>> \o s # <<>> /\ (<<f>> \o s)[1] = f
<1> DEFINE n == Len(s)
           t == <<f>> \o s
<1>1. s \in Seq(Frames) /\ f \in Frames /\ n \in Nat BY DEF Well, MayPush
<1>2. t \in Seq(Frames) /\ Len(t) = n + 1 /\ t[1] = f
      /\ \A i \in 1 .. n : t[i + 1] = s[i]
  <2>1. <<f>> \in Seq(Frames) /\ Len(<<f>>) = 1 /\ <<f>>[1] = f BY <1>1
  <2> QED BY <1>1, <2>1, ConcatProperties
<1> HIDE DEF t
<1>3. \A i \in 1 .. n + 1 : i = 1 \/ (i - 1 \in 1 .. n /\ t[i] = s[i - 1])
  <2> SUFFICES ASSUME NEW i \in 1 .. n + 1, i # 1 PROVE i - 1 \in 1 .. n /\ t[i] = s[i - 1]
      OBVIOUS
  <2>1. i - 1 \in 1 .. n /\ (i - 1) + 1 = i BY <1>1
  <2> QED BY <2>1, <1>2
<1>4. Elements(t) = {f} \cup Elements(s)
  <2>1. ASSUME NEW i \in 1 .. n + 1 PROVE t[i] \in {f} \cup Elements(s)
        BY <1>2, <1>3 DEF Elements
  <2>2. f \in Elements(t) BY <1>1, <1>2 DEF Elements
  <2>3. ASSUME NEW i \in 1 .. n PROVE s[i] \in Elements(t)
    <3>1. i + 1 \in 1 .. Len(t) /\ t[i + 1] = s[i] BY <1>1, <1>2
    <3> QED BY <3>1 DEF Elements
  <2> QED BY <1>2, <2>1, <2>2, <2>3 DEF Elements
<1>5. \A g \in Elements(t) : FrameOK(g, o) BY <1>4 DEF Well, MayPush
<1>6. OrderOK(t, o)
  <2> SUFFICES ASSUME NEW i \in 1 .. n + 1
               PROVE  /\ t[i].at = "kill" => i < n + 1 /\ t[i + 1].at = "sfKilled"
                      /\ t[i].at = "attach" => \A j \in 1 .. n + 1 :
                            t[j] = t[i] \/ (o /\ t[j].at = "attach") => i = j
                      /\ o /\ t[i].at = "drain" => i = n + 1
      BY <1>2 DEF OrderOK
  <2>0. OrderOK(s, o) BY DEF Well
  <2>1. CASE i = 1
    <3>1. t[i] = f BY <1>2, <2>1
    <3>2. f.at = "kill" => i < n + 1 /\ t[i + 1].at = "sfKilled"
      <4> SUFFICES ASSUME f.at = "kill" PROVE i < n + 1 /\ t[i + 1].at = "sfKilled" OBVIOUS
      <4>1. s # <<>> /\ s[1].at = "sfKilled" BY DEF MayPush
      <4>2. n \in Nat \ {0} BY <4>1, <1>1, EmptySeq
      <4> QED BY <4>1, <4>2, <2>1, <1>2
    <3>3. f.at = "attach" => \A j \in 1 .. n + 1 :
             t[j] = f \/ (o /\ t[j].at = "attach") => j = 1
      BY <1>1, <1>3 DEF MayPush, Elements
    <3>4. o /\ f.at = "drain" => n = 0 BY DEF MayPush
    <3> QED BY <3>1, <3>2, <3>3, <3>4, <2>1, <1>1
  <2>2. CASE i # 1
    <3> DEFINE k == i - 1
    <3>1. k \in 1 .. n /\ t[i] = s[k] /\ i = k + 1 BY <1>1, <1>3, <2>2
    <3> HIDE DEF k
    <3>2. t[i].at = "kill" => i < n + 1 /\ t[i + 1].at = "sfKilled"
      <4> SUFFICES ASSUME s[k].at = "kill" PROVE i < n + 1 /\ t[i + 1].at = "sfKilled" BY <3>1
      <4>1. k < n /\ s[k + 1].at = "sfKilled" BY <2>0, <3>1 DEF OrderOK
      <4> QED BY <4>1, <3>1, <1>1, <1>2
    <3>3. t[i].at = "attach" => \A j \in 1 .. n + 1 :
             t[j] = t[i] \/ (o /\ t[j].at = "attach") => i = j
      <4> SUFFICES ASSUME s[k].at = "attach", NEW j \in 1 .. n + 1,
                          t[j] = s[k] \/ (o /\ t[j].at = "attach")
                   PROVE  i = j
          BY <3>1
      <4>1. CASE j = 1
        <5>1. t[j] = f /\ s[k] \in Elements(s) BY <4>1, <1>2, <3>1 DEF Elements
        <5> QED BY <5>1 DEF MayPush
      <4>2. CASE j # 1
        <5>1. j - 1 \in 1 .. n /\ t[j] = s[j - 1] BY <4>2, <1>3
        <5>2. k = j - 1 BY <5>1, <3>1, <2>0 DEF OrderOK
        <5> QED BY <5>2, <3>1, <1>1
      <4> QED BY <4>1, <4>2
    <3>4. o /\ t[i].at = "drain" => i = n + 1 BY <3>1, <2>0, <1>1 DEF OrderOK
    <3> QED BY <3>2, <3>3, <3>4
  <2> QED BY <2>1, <2>2
<1>7. t # <<>> BY <1>2, <1>1
<1> QED BY <1>2, <1>4, <1>5, <1>6, <1>7 DEF Well, t

\* Popping gives back a stack on which the frame could be pushed.
LEMMA PopWell ==
    ASSUME NEW s, NEW o \in BOOLEAN, Well(s, o), s # <<>>
    PROVE  /\ Well(Tail(s), o) /\ MayPush(Head(s), Tail(s), o)
           /\ Elements(s) = {Head(s)} \cup Elements(Tail(s))
<1> DEFINE n == Len(s) - 1
           t == Tail(s)
<1>1. s \in Seq(Frames) /\ Len(s) = n + 1 /\ n \in Nat BY EmptySeq DEF Well
<1>2. Head(s) = s[1] BY <1>1
<1>3. t \in Seq(Frames) /\ Len(t) = n /\ \A i \in 1 .. n : t[i] = s[i + 1]
      BY <1>1, HeadTailProperties
<1> HIDE DEF t, n
<1>4. Elements(s) = {Head(s)} \cup Elements(t)
  <2>1. ASSUME NEW i \in 1 .. Len(s) PROVE s[i] \in {Head(s)} \cup Elements(t)
    <3>1. CASE i = 1 BY <3>1, <1>2
    <3>2. CASE i # 1
      <4>1. i - 1 \in 1 .. n /\ (i - 1) + 1 = i BY <3>2, <1>1
      <4>2. s[i] = t[i - 1] BY <4>1, <1>3
      <4> QED BY <4>1, <4>2, <1>3 DEF Elements
    <3> QED BY <3>1, <3>2
  <2>2. Head(s) \in Elements(s) BY <1>1, <1>2 DEF Elements
  <2>3. ASSUME NEW i \in 1 .. n PROVE t[i] \in Elements(s)
    <3>1. i + 1 \in 1 .. Len(s) BY <1>1
    <3> QED BY <3>1, <1>3 DEF Elements
  <2> QED BY <2>1, <2>2, <2>3, <1>3 DEF Elements
<1>0. OrderOK(s, o) BY DEF Well
<1>5. OrderOK(t, o)
  <2> SUFFICES ASSUME NEW i \in 1 .. n
               PROVE  /\ t[i].at = "kill" => i < n /\ t[i + 1].at = "sfKilled"
                      /\ t[i].at = "attach" => \A j \in 1 .. n :
                            t[j] = t[i] \/ (o /\ t[j].at = "attach") => i = j
                      /\ o /\ t[i].at = "drain" => i = n
      BY <1>3 DEF OrderOK
  <2>1. i + 1 \in 1 .. Len(s) /\ t[i] = s[i + 1] BY <1>1, <1>3
  <2>2. t[i].at = "kill" => i < n /\ t[i + 1].at = "sfKilled"
    <3> SUFFICES ASSUME s[i + 1].at = "kill" PROVE i < n /\ t[i + 1].at = "sfKilled" BY <2>1
    <3>1. i + 1 < n + 1 /\ s[(i + 1) + 1].at = "sfKilled" BY <1>0, <1>1, <2>1 DEF OrderOK
    <3>2. i + 1 \in 1 .. n BY <3>1, <1>1
    <3> QED BY <3>1, <3>2, <1>1, <1>3
  <2>3. t[i].at = "attach" => \A j \in 1 .. n :
           t[j] = t[i] \/ (o /\ t[j].at = "attach") => i = j
    <3> SUFFICES ASSUME s[i + 1].at = "attach", NEW j \in 1 .. n,
                        t[j] = s[i + 1] \/ (o /\ t[j].at = "attach")
                 PROVE  i = j
        BY <2>1
    <3>1. j + 1 \in 1 .. Len(s) /\ t[j] = s[j + 1] BY <1>1, <1>3
    <3>2. i + 1 = j + 1 BY <3>1, <2>1, <1>0 DEF OrderOK
    <3> QED BY <3>2, <1>1
  <2>4. o /\ t[i].at = "drain" => i = n
    <3>1. o /\ s[i + 1].at = "drain" => i + 1 = Len(s) BY <2>1, <1>0 DEF OrderOK
    <3> QED BY <2>1, <3>1, <1>1
  <2> QED BY <2>2, <2>3, <2>4
<1>6. Well(t, o) BY <1>3, <1>4, <1>5 DEF Well
<1>7. MayPush(Head(s), t, o)
  <2>1. Head(s) \in Frames /\ FrameOK(Head(s), o)
    <3>1. Head(s) \in Elements(s) BY <1>4
    <3> QED BY <3>1, <1>1, <1>2, ElementOfSeq DEF Well
  <2>2. Head(s).at = "kill" => t # <<>> /\ t[1].at = "sfKilled"
    <3> SUFFICES ASSUME s[1].at = "kill" PROVE t # <<>> /\ t[1].at = "sfKilled" BY <1>2
    <3>1. 1 < n + 1 /\ s[1 + 1].at = "sfKilled" BY <1>0, <1>1 DEF OrderOK
    <3>2. 1 \in 1 .. n BY <3>1, <1>1
    <3> QED BY <3>1, <3>2, <1>1, <1>3, EmptySeq
  <2>3. Head(s).at = "attach" =>
           \A g \in Elements(t) : g # Head(s) /\ (o => g.at # "attach")
    <3> SUFFICES ASSUME s[1].at = "attach", NEW i \in 1 .. n,
                        t[i] = s[1] \/ (o /\ t[i].at = "attach")
                 PROVE  FALSE
        BY <1>2, <1>3 DEF Elements
    <3>1. i + 1 \in 1 .. Len(s) /\ t[i] = s[i + 1] /\ 1 \in 1 .. Len(s) BY <1>1, <1>3
    <3>2. 1 = i + 1 BY <3>1, <1>0 DEF OrderOK
    <3> QED BY <3>2, <1>1
  <2>4. o /\ Head(s).at = "drain" => t = <<>>
    <3> SUFFICES ASSUME o, s[1].at = "drain" PROVE t = <<>> BY <1>2
    <3>1. 1 = n + 1 BY <1>0, <1>1 DEF OrderOK
    <3> QED BY <3>1, <1>1, <1>3, EmptySeq
  <2> QED BY <2>1, <2>2, <2>3, <2>4 DEF MayPush
<1> QED BY <1>4, <1>6, <1>7 DEF t

\* Two frames at once are one after the other.
LEMMA TwoFrames ==
    ASSUME NEW f \in Frames, NEW g \in Frames, NEW s \in Seq(Frames)
    PROVE  <<f, g>> \o s = <<f>> \o (<<g>> \o s)
<1> DEFINE a == <<f, g>> \o s
           b == <<g>> \o s
           c == <<f>> \o b
           n == Len(s)
<1>1. /\ <<f>> \in Seq(Frames) /\ Len(<<f>>) = 1 /\ <<f>>[1] = f
      /\ <<g>> \in Seq(Frames) /\ Len(<<g>>) = 1 /\ <<g>>[1] = g
      /\ <<f, g>> \in Seq(Frames) /\ Len(<<f, g>>) = 2 /\ <<f, g>>[1] = f /\ <<f, g>>[2] = g
      /\ n \in Nat
      OBVIOUS
<1>2. /\ b \in Seq(Frames) /\ Len(b) = 1 + n
      /\ \A i \in 1 .. 1 + n : b[i] = IF i <= 1 THEN <<g>>[i] ELSE s[i - 1]
      BY <1>1, ConcatProperties
<1>3. /\ a \in Seq(Frames) /\ Len(a) = 2 + n
      /\ \A i \in 1 .. 2 + n : a[i] = IF i <= 2 THEN <<f, g>>[i] ELSE s[i - 2]
      BY <1>1, ConcatProperties
<1> HIDE DEF a, b
<1>4. /\ c \in Seq(Frames) /\ Len(c) = 1 + (1 + n)
      /\ \A i \in 1 .. 1 + (1 + n) : c[i] = IF i <= 1 THEN <<f>>[i] ELSE b[i - 1]
      BY <1>1, <1>2, ConcatProperties
<1> HIDE DEF c
<1>5. ASSUME NEW i \in 1 .. 2 + n PROVE a[i] = c[i]
  <2>1. CASE i = 1 BY <2>1, <1>1, <1>3, <1>4
  <2>2. CASE i = 2 BY <2>2, <1>1, <1>2, <1>3, <1>4
  <2>3. CASE i > 2
    <3>1. i - 1 \in 1 .. 1 + n /\ ~(i - 1 <= 1) /\ (i - 1) - 1 = i - 2 BY <2>3, <1>1
    <3>2. c[i] = b[i - 1] BY <2>3, <1>1, <1>4
    <3>3. b[i - 1] = s[i - 2] BY <3>1, <1>2
    <3> QED BY <3>2, <3>3, <2>3, <1>1, <1>3
  <2> QED BY <2>1, <2>2, <2>3, <1>1
<1>6. a = c BY <1>1, <1>3, <1>4, <1>5, SeqEqual
<1> QED BY <1>6 DEF a, b, c

\* The stack s with one frame more, and with two.
On(f, s) == <<f>> \o s
On2(f, g, s) == <<f, g>> \o s

\* The same as PushWell, with the new stack behind an operator.
LEMMA OneMore ==
    ASSUME NEW f, NEW s, NEW o \in BOOLEAN, Well(s, o), MayPush(f, s, o)
    PROVE  /\ Well(On(f, s), o) /\ Elements(On(f, s)) = {f} \cup Elements(s)
           /\ On(f, s) # <<>> /\ On(f, s)[1] = f
BY PushWell DEF On

\* Pushing two frames.
LEMMA TwoMore ==
    ASSUME NEW f, NEW g, NEW s, NEW o \in BOOLEAN, Well(s, o), MayPush(g, s, o),
           MayPush(f, On(g, s), o)
    PROVE  Well(On2(f, g, s), o) /\ Elements(On2(f, g, s)) = {f, g} \cup Elements(s)
<1>1. Well(On(g, s), o) /\ Elements(On(g, s)) = {g} \cup Elements(s) BY OneMore
<1>2. On2(f, g, s) = On(f, On(g, s))
  <2>1. f \in Frames /\ g \in Frames /\ s \in Seq(Frames) BY DEF MayPush, Well
  <2> QED BY <2>1, TwoFrames DEF On, On2
<1>3. Well(On(f, On(g, s)), o) /\ Elements(On(f, On(g, s))) = {f} \cup Elements(On(g, s))
      BY <1>1, OneMore
<1> QED BY <1>1, <1>2, <1>3

\* Who is not orderly any more asks less of the stack.
LEMMA LessOrder ==
    ASSUME NEW s, NEW o \in BOOLEAN, NEW p \in BOOLEAN, Well(s, o), p => o
    PROVE  Well(s, p)
BY DEF Well, FrameOK, OrderOK

\* What the innermost frame is, when it is not the main message loop.
LEMMA Popped ==
    ASSUME PaintInv, Top.at # "idle"
    PROVE  /\ stack # <<>> /\ Well(Rest, orderly) /\ MayPush(Top, Rest, orderly)
           /\ Elements(stack) = {Top} \cup Elements(Rest)
           /\ Top \in Frames
<1>1. stack # <<>> BY DEF Top, Frame
<1>2. Top = Head(stack) /\ Rest = Tail(stack) BY <1>1 DEF Top, Rest
<1>3. orderly \in BOOLEAN /\ Well(stack, orderly) BY DEF PaintInv, PaintTypes
<1>4. /\ Well(Rest, orderly) /\ MayPush(Top, Rest, orderly)
      /\ Elements(stack) = {Top} \cup Elements(Rest)
      BY <1>1, <1>2, <1>3, PopWell
<1> QED BY <1>1, <1>4 DEF MayPush

\* In order, messages are dispatched by the main loop only.
LEMMA OrderlyPump ==
    ASSUME PaintInv, Pumping, orderly
    PROVE  stack = <<>>
<1> SUFFICES ASSUME stack # <<>> PROVE FALSE OBVIOUS
<1>1. Top = Head(stack) BY DEF Top
<1>2. Head(stack) \in Frames /\ FrameOK(Head(stack), orderly)
      BY PopWell DEF PaintInv, PaintTypes, MayPush
<1>3. Top.at # "idle" BY <1>1, <1>2 DEF Frames, Places, Application
<1>4. Top.at # "modal" BY <1>1, <1>2 DEF FrameOK
<1> QED BY <1>3, <1>4 DEF Pumping

\* What the steps below need to know of the variables.
LEMMA PaintFacts ==
    ASSUME PaintInv
    PROVE  /\ Well(stack, orderly) /\ stack \in Seq(Frames) /\ orderly \in BOOLEAN
           /\ {focus, hover, click, key, pressed} \subseteq Pointer
           /\ orderly => /\ {focus, hover, click, key, root} \subseteq alive \cup {None}
                         /\ Elements(async) \subseteq alive
           /\ None \notin Controls /\ None \in Pointer /\ Controls \subseteq Pointer
           /\ alive \subseteq Controls /\ managed \subseteq Controls
<1>1. Well(stack, orderly) BY DEF PaintInv
<1>2. stack \in Seq(Frames) BY <1>1 DEF Well
<1>3. orderly \in BOOLEAN /\ {focus, hover, click, key, pressed} \subseteq Pointer
      /\ alive \subseteq Controls /\ managed \subseteq Controls
      BY DEF PaintInv, PaintTypes
<1>4. orderly => /\ {focus, hover, click, key, root} \subseteq alive \cup {None}
                 /\ Elements(async) \subseteq alive
      BY DEF PaintInv, PointersAlive
<1> QED BY <1>1, <1>2, <1>3, <1>4, ControlsAssumption DEF Pointer

\* A control of the dialog is one of the manager's.
LEMMA DialogIsManaged ==
    ASSUME PaintInv, NEW c, InDialog(c)
    PROVE  c \in alive /\ c \in managed /\ c \in Controls /\ c # None
<1>1. c \in alive /\ c \in Controls /\ (c = root \/ parent[c] = root) BY DEF InDialog, Tree
<1>2. root \in Dialogs \cap managed BY DEF PaintInv, TreesOK
<1>3. root # None BY <1>2, ControlsAssumption DEF Controls
<1>4. ASSUME parent[c] = root PROVE c \in managed
  <2>1. c \in Kids BY <1>1, <1>3, <1>4 DEF PaintInv, TreesOK, Controls
  <2>2. Home[c] = root BY <1>3, <1>4, <2>1 DEF PaintInv, TreesOK
  <2> QED BY <1>2, <2>1, <2>2 DEF PaintInv, TreesOK
<1> QED BY <1>1, <1>2, <1>4, ControlsAssumption

\* Frames without conditions of their own.
Plain == {"event", "notify", "sfKilled", "sfNotified", "leave", "enter", "key", "keyUp"}

\* An event for a living control may always be pushed.
LEMMA PlainFrame ==
    ASSUME NEW p \in Plain, NEW c \in Pointer, NEW s, NEW o \in BOOLEAN,
           o => c \in alive \cup {None}
    PROVE  MayPush(Frame(p, c), s, o) /\ Frame(p, c) \in Frames
BY DEF MayPush, FrameOK, Frame, Frames, Places, Application, Plain

\* The frame of a click.
LEMMA ClickFrame ==
    ASSUME NEW c \in managed, c \in Pointer, c # None, NEW s, NEW o \in BOOLEAN,
           o => c \in alive \cup {None}
    PROVE  MayPush(Frame("click", c), s, o) /\ Frame("click", c) \in Frames
BY DEF MayPush, FrameOK, Frame, Frames, Places, Application

\* The frames of SetFocus.
LEMMA SetFrame ==
    ASSUME NEW c \in Pointer, c # None, NEW s, NEW o \in BOOLEAN,
           o => c \in alive \cup {None}
    PROVE  /\ MayPush(Frame("set", c), s, o) /\ Frame("set", c) \in Frames
           /\ MayPush(Frame("sfSet", c), s, o) /\ Frame("sfSet", c) \in Frames
BY DEF MayPush, FrameOK, Frame, Frames, Places, Application

\* The second half of SetFocus: the control gets the focus and is told.
LEMMA GiveFocusKeeps ==
    ASSUME PaintInv, NEW c \in Pointer, NEW s, NEW o \in BOOLEAN, Well(s, o),
           o => c \in alive \cup {None}, GiveFocus(c, s)
    PROVE  /\ Well(stack', o) /\ Elements(s) \subseteq Elements(stack')
           /\ focus' \in {c, None}
           /\ focus' # None => Frame("set", focus') \in Elements(stack')
<1>1. CASE c # None /\ Focusable(c)
  <2>1. focus' = c /\ stack' = On2(Frame("set", c), Frame("sfSet", c), s)
        BY <1>1 DEF GiveFocus, On2
  <2>2. MayPush(Frame("sfSet", c), s, o) /\ MayPush(Frame("set", c), On(Frame("sfSet", c), s), o)
        BY <1>1, SetFrame
  <2>3. Well(stack', o) /\ Elements(stack') = {Frame("set", c), Frame("sfSet", c)} \cup Elements(s)
        BY <2>1, <2>2, TwoMore
  <2> QED BY <2>1, <2>3
<1>2. CASE ~(c # None /\ Focusable(c))
  <2>1. focus' = None /\ stack' = s BY <1>2 DEF GiveFocus
  <2> QED BY <2>1
<1> QED BY <1>1, <1>2

\* The focus moves to a control that is going to be told, or nowhere.
FocusMoves == focus' = focus \/ focus' = None \/ Frame("set", focus') \in Elements(stack')
\* A message or a call leaves the frames below it alone.
StackGrows == Elements(stack) \subseteq Elements(stack') /\ FocusMoves

\* SetFocus, from any place of the code that calls it.
LEMMA SetFocusKeeps ==
    ASSUME PaintInv, NEW c \in Pointer, NEW s, NEW o \in BOOLEAN, Well(s, o),
           o => orderly, o => c \in alive \cup {None}, SetFocus(c, s)
    PROVE  /\ Well(stack', o) /\ Elements(s) \subseteq Elements(stack')
           /\ focus' \in Pointer /\ (o => focus' \in alive \cup {None})
           /\ FocusMoves
<1> USE PaintFacts
<1>1. CASE c = focus
  <2>1. stack' = s /\ focus' = focus BY <1>1 DEF SetFocus
  <2> QED BY <2>1 DEF FocusMoves
<1>2. CASE c # focus /\ focus # None
  <2>1. stack' = On2(Frame("kill", focus), Frame("sfKilled", c), s) /\ focus' = focus
        BY <1>2 DEF SetFocus, On2
  <2>2. MayPush(Frame("sfKilled", c), s, o) BY PlainFrame DEF Plain
  <2>3. /\ On(Frame("sfKilled", c), s) # <<>>
        /\ On(Frame("sfKilled", c), s)[1] = Frame("sfKilled", c)
        BY <2>2, OneMore
  <2>4. Frame("kill", focus) \in Frames /\ FrameOK(Frame("kill", focus), o)
        BY <1>2 DEF FrameOK, Frame, Frames, Places, Application
  <2>5. MayPush(Frame("kill", focus), On(Frame("sfKilled", c), s), o)
        BY <2>3, <2>4 DEF MayPush, Frame
  <2>6. /\ Well(stack', o)
        /\ Elements(stack') = {Frame("kill", focus), Frame("sfKilled", c)} \cup Elements(s)
        BY <2>1, <2>2, <2>5, TwoMore
  <2> QED BY <2>1, <2>6 DEF FocusMoves
<1>3. CASE c # focus /\ focus = None
  <2>1. GiveFocus(c, s) BY <1>3 DEF SetFocus
  <2> QED BY <2>1, GiveFocusKeeps DEF FocusMoves
<1> QED BY <1>1, <1>2, <1>3

\* Steps that leave the controls, the root and the list of cleanups alone.
LEMMA ControlsStay ==
    ASSUME PaintInv, UNCHANGED <<ctlVars, root, delayed>>,
           focused' \in [Controls -> BOOLEAN], async' \in Seq(Controls),
           captured' \in BOOLEAN, posted' \in BOOLEAN, orderly' \in BOOLEAN,
           orderly' => orderly,
           {focus', hover', click', key', pressed'} \subseteq Pointer,
           orderly' => /\ {focus', hover', click', key'} \subseteq alive \cup {None}
                       /\ Elements(async') \subseteq alive,
           Well(stack', orderly')
    PROVE  PaintInv'
<1> USE DEF ctlVars
<1>1. PaintTypes'
  <2>1. PaintTypes BY DEF PaintInv
  <2> QED BY <2>1 DEF PaintTypes, Pointer, Controls
<1>2. TreesOK'
  <2>1. TreesOK BY DEF PaintInv
  <2> QED BY <2>1 DEF TreesOK, Elements
<1>3. Well(stack, orderly)' BY DEF Well, FrameOK, OrderOK, Elements
<1>4. (orderly => PointersAlive)' BY PaintFacts DEF PaintInv, PointersAlive, Elements
<1> QED BY <1>1, <1>2, <1>3, <1>4 DEF PaintInv

\* Steps that move pointers and the stack only.
LEMMA PointersMove ==
    ASSUME PaintInv, UNCHANGED <<ctlVars, focused, root, queueVars, orderly>>,
           captured' \in BOOLEAN,
           {focus', hover', click', key', pressed'} \subseteq Pointer,
           orderly => {focus', hover', click', key'} \subseteq alive \cup {None},
           Well(stack', orderly)
    PROVE  PaintInv'
<1>1. focused' \in [Controls -> BOOLEAN] /\ async' \in Seq(Controls) /\ posted' \in BOOLEAN
      BY DEF PaintInv, PaintTypes, queueVars
<1>2. orderly' = orderly /\ orderly \in BOOLEAN /\ async' = async /\ delayed' = delayed
      BY PaintFacts DEF queueVars
<1>3. orderly' => Elements(async') \subseteq alive BY <1>2, PaintFacts
<1> QED BY <1>1, <1>2, <1>3, ControlsStay

\* WM_MOUSEMOVE ends with an event for the control below the mouse.
LEMMA MoveEventKeeps ==
    ASSUME PaintInv, NEW c \in Pointer, NEW s, Well(s, orderly),
           orderly => c \in alive \cup {None}, MoveEvent(c, s)
    PROVE  Well(stack', orderly) /\ Elements(s) \subseteq Elements(stack')
<1> USE PaintFacts
<1>1. ASSUME NEW e \in Pointer, orderly => e \in alive \cup {None},
             stack' = <<Frame("event", e)>> \o s
      PROVE  Well(stack', orderly) /\ Elements(s) \subseteq Elements(stack')
  <2>1. MayPush(Frame("event", e), s, orderly) BY <1>1, PlainFrame DEF Plain
  <2>2. stack' = On(Frame("event", e), s) BY <1>1 DEF On
  <2> QED BY <2>1, <2>2, OneMore
<1>2. ASSUME stack' = s PROVE Well(stack', orderly) /\ Elements(s) \subseteq Elements(stack')
      BY <1>2
<1> QED BY <1>1, <1>2 DEF MoveEvent

\* The control that the mouse enters.
LEMMA EnterHoverKeeps ==
    ASSUME PaintInv, NEW c \in Pointer, NEW s, Well(s, orderly),
           orderly => c \in alive \cup {None}, EnterHover(c, s)
    PROVE  Well(stack', orderly) /\ Elements(s) \subseteq Elements(stack')
<1> USE PaintFacts
<1>1. CASE c # None
  <2>1. MayPush(Frame("enter", c), s, orderly)
        /\ MayPush(Frame("event", c), On(Frame("enter", c), s), orderly)
        BY PlainFrame DEF Plain
  <2>2. stack' = On2(Frame("event", c), Frame("enter", c), s) BY <1>1 DEF EnterHover, On2
  <2> QED BY <2>1, <2>2, TwoMore
<1>2. CASE c = None
  <2>1. MoveEvent(c, s) BY <1>2 DEF EnterHover
  <2> QED BY <2>1, MoveEventKeeps
<1> QED BY <1>1, <1>2

\* Window messages.
LEMMA MessagesKeep ==
    ASSUME PaintInv, Input
    PROVE  PaintInv' /\ StackGrows
<1> USE PaintFacts
<1>0. captured \in BOOLEAN BY DEF PaintInv, PaintTypes
<1>1. ASSUME NEW c \in Controls, LButtonDown(c)
      PROVE PaintInv' /\ StackGrows
  <2>1. c \in alive /\ c \in Pointer BY <1>1, DialogIsManaged DEF LButtonDown
  <2>2. MayPush(Frame("event", c), stack, orderly) BY <2>1, PlainFrame DEF Plain
  <2>3. /\ Well(On(Frame("event", c), stack), orderly)
        /\ Elements(stack) \subseteq Elements(On(Frame("event", c), stack))
        BY <2>2, OneMore
  <2>4. SetFocus(c, On(Frame("event", c), stack)) BY <1>1 DEF LButtonDown, On
  <2>5. /\ Well(stack', orderly) /\ focus' \in Pointer /\ (orderly => focus' \in alive \cup {None})
        /\ FocusMoves /\ Elements(stack) \subseteq Elements(stack')
        BY <2>1, <2>3, <2>4, SetFocusKeeps
  <2>6. /\ UNCHANGED <<ctlVars, focused, root, queueVars, orderly, hover, key>>
        /\ captured' = TRUE /\ click' = c /\ pressed' = c
        BY <1>1 DEF LButtonDown, appVars
  <2> QED BY <2>1, <2>5, <2>6, PointersMove DEF StackGrows, FocusMoves
<1>2. ASSUME NEW c \in Controls, LButtonDblClk(c)
      PROVE PaintInv' /\ StackGrows
  <2>1. c \in alive /\ c \in managed /\ c \in Pointer /\ c # None
        BY <1>2, DialogIsManaged DEF LButtonDblClk
  <2>2. MayPush(Frame("click", c), stack, orderly)
        /\ MayPush(Frame("event", c), On(Frame("click", c), stack), orderly)
        BY <2>1, PlainFrame, ClickFrame DEF Plain
  <2>3. stack' = On2(Frame("event", c), Frame("click", c), stack)
        BY <1>2 DEF LButtonDblClk, On2
  <2>4. Well(stack', orderly) /\ Elements(stack) \subseteq Elements(stack')
        BY <2>2, <2>3, TwoMore
  <2>5. /\ UNCHANGED <<ctlVars, focused, root, queueVars, orderly, focus, hover, click, key, pressed>>
        /\ captured' = TRUE
        BY <1>2 DEF LButtonDblClk, appVars
  <2> QED BY <2>4, <2>5, PointersMove DEF StackGrows, FocusMoves
<1>3. ASSUME NEW c \in Controls, RButtonDown(c)
      PROVE PaintInv' /\ StackGrows
  <2>1. c \in alive /\ c \in managed /\ c \in Pointer /\ c # None
        BY <1>3, DialogIsManaged DEF RButtonDown
  <2>2. MayPush(Frame("click", c), stack, orderly)
        /\ MayPush(Frame("event", c), On(Frame("click", c), stack), orderly)
        BY <2>1, PlainFrame, ClickFrame DEF Plain
  <2> DEFINE s == On2(Frame("event", c), Frame("click", c), stack)
  <2>3. Well(s, orderly) /\ Elements(stack) \subseteq Elements(s)
        BY <2>2, TwoMore
  <2>4. SetFocus(c, s) BY <1>3 DEF RButtonDown, On2
  <2> HIDE DEF s
  <2>5. /\ Well(stack', orderly) /\ focus' \in Pointer /\ (orderly => focus' \in alive \cup {None})
        /\ FocusMoves /\ Elements(stack) \subseteq Elements(stack')
        BY <2>1, <2>3, <2>4, SetFocusKeeps
  <2>6. UNCHANGED <<ctlVars, focused, root, queueVars, orderly, hover, click, key, captured, pressed>>
        BY <1>3 DEF RButtonDown, appVars, mouseVars
  <2> QED BY <1>0, <2>5, <2>6, PointersMove DEF StackGrows, FocusMoves
<1>4. ASSUME NEW c \in Controls \cup {None}, MouseMove(c)
      PROVE PaintInv' /\ StackGrows
  <2>1. c \in alive \cup {None} /\ c \in Pointer BY <1>4, DialogIsManaged DEF MouseMove
  <2>2. Well(stack', orderly) /\ Elements(stack) \subseteq Elements(stack')
    <3>1. CASE MoveEvent(c, stack) BY <3>1, <2>1, MoveEventKeeps
    <3>2. CASE EnterHover(c, stack) BY <3>2, <2>1, EnterHoverKeeps
    <3>3. CASE stack' = <<Frame("event", hover), Frame("leave", c)>> \o stack
      <4>1. MayPush(Frame("leave", c), stack, orderly)
            /\ MayPush(Frame("event", hover), On(Frame("leave", c), stack), orderly)
            BY <2>1, PlainFrame DEF Plain
      <4>2. stack' = On2(Frame("event", hover), Frame("leave", c), stack) BY <3>3 DEF On2
      <4> QED BY <4>1, <4>2, TwoMore
    <3> QED BY <1>4, <3>1, <3>2, <3>3 DEF MouseMove
  <2>3. UNCHANGED <<ctlVars, focused, root, queueVars, orderly, focus, hover, click, key,
                    captured, pressed>>
        BY <1>4 DEF MouseMove, appVars, mouseVars
  <2> QED BY <1>0, <2>2, <2>3, PointersMove DEF StackGrows, FocusMoves
<1>5. ASSUME LButtonUp PROVE PaintInv' /\ StackGrows
  <2>1. MayPush(Frame("event", click), stack, orderly) BY PlainFrame DEF Plain
  <2>2. stack' = On(Frame("event", click), stack) BY <1>5 DEF LButtonUp, On
  <2>3. Well(stack', orderly) /\ Elements(stack) \subseteq Elements(stack') BY <2>1, <2>2, OneMore
  <2>4. /\ UNCHANGED <<ctlVars, focused, root, queueVars, orderly, focus, hover, key>>
        /\ captured' = FALSE /\ click' = None /\ pressed' = None
        BY <1>5 DEF LButtonUp, ReleaseCapture, appVars
  <2> QED BY <2>3, <2>4, PointersMove DEF StackGrows, FocusMoves
<1>6. ASSUME NEW p \in Pointer, NEW q \in {"key", "keyUp"}, orderly => p \in alive \cup {None},
             stack' = <<Frame("event", p), Frame(q, None)>> \o stack,
             UNCHANGED <<ctlVars, focused, root, focus, key, mouseVars, queueVars, appVars>>
      PROVE PaintInv' /\ StackGrows
  <2>1. MayPush(Frame(q, None), stack, orderly)
        /\ MayPush(Frame("event", p), On(Frame(q, None), stack), orderly)
        BY <1>6, PlainFrame DEF Plain
  <2>2. stack' = On2(Frame("event", p), Frame(q, None), stack) BY <1>6 DEF On2
  <2>3. Well(stack', orderly) /\ Elements(stack) \subseteq Elements(stack')
        BY <2>1, <2>2, TwoMore
  <2>4. UNCHANGED <<ctlVars, focused, root, queueVars, orderly, focus, hover, click, key,
                    captured, pressed>>
        BY <1>6 DEF appVars, mouseVars
  <2> QED BY <1>0, <2>3, <2>4, PointersMove DEF StackGrows, FocusMoves
<1>7. ASSUME KeyDown PROVE PaintInv' /\ StackGrows
      BY <1>6, <1>7 DEF KeyDown
<1>8. ASSUME KeyUp PROVE PaintInv' /\ StackGrows
      BY <1>6, <1>8 DEF KeyUp
<1> QED BY <1>1, <1>2, <1>3, <1>4, <1>5, <1>7, <1>8 DEF Input

\* WM_APP+1, and what is sent from its handler.
LEMMA QueueKeeps ==
    ASSUME PaintInv, AsyncMessage \/ DrainNotify
    PROVE  PaintInv' /\ Elements(stack) \subseteq Elements(stack')
<1> USE PaintFacts
<1>0. /\ focused \in [Controls -> BOOLEAN] /\ async \in Seq(Controls) /\ captured \in BOOLEAN
      /\ posted \in BOOLEAN
      BY DEF PaintInv, PaintTypes
<1>1. CASE AsyncMessage
  <2>1. MayPush(Frame("drain", None), stack, orderly)
    <3>1. orderly => stack = <<>> BY <1>1, OrderlyPump DEF AsyncMessage
    <3> QED BY <3>1 DEF MayPush, FrameOK, Frame, Frames, Places, Application
  <2>2. stack' = On(Frame("drain", None), stack) BY <1>1 DEF AsyncMessage, On
  <2>3. Well(stack', orderly) /\ Elements(stack) \subseteq Elements(stack') BY <2>1, <2>2, OneMore
  <2>4. /\ UNCHANGED <<ctlVars, focused, root, delayed, async, orderly, focus, hover, click, key,
                       captured, pressed>>
        /\ posted' = FALSE
        BY <1>1 DEF AsyncMessage, appVars, mouseVars
  <2> QED BY <1>0, <2>3, <2>4, ControlsStay
<1>2. CASE DrainNotify
  <2>1. async # <<>> /\ async' = Tail(async) BY <1>2 DEF DrainNotify
  <2>2. Head(async) \in Elements(async) /\ Head(async) \in Controls
        /\ async' \in Seq(Controls) /\ Elements(async') \subseteq Elements(async)
    <3>1. Len(async) \in Nat \ {0} /\ Head(async) = async[1] BY <1>0, <2>1, EmptySeq
    <3>2. /\ async' \in Seq(Controls) /\ Len(async') = Len(async) - 1
          /\ \A i \in 1 .. Len(async') : async'[i] = async[i + 1]
          BY <1>0, <2>1, HeadTailProperties
    <3>3. ASSUME NEW i \in 1 .. Len(async') PROVE async'[i] \in Elements(async)
      <4>1. i + 1 \in 1 .. Len(async) BY <3>1, <3>2
      <4> QED BY <4>1, <3>2 DEF Elements
    <3>4. Elements(async') \subseteq Elements(async) BY <3>3 DEF Elements
    <3>5. 1 \in 1 .. Len(async) BY <3>1
    <3>6. Head(async) \in Elements(async) /\ Head(async) \in Controls
          BY <1>0, <3>1, <3>5, ElementOfSeq DEF Elements
    <3> QED BY <3>2, <3>4, <3>6
  <2>3. MayPush(Frame("notify", Head(async)), stack, orderly) BY <2>2, PlainFrame DEF Plain
  <2>4. stack' = On(Frame("notify", Head(async)), stack) BY <1>2 DEF DrainNotify, On
  <2>5. Well(stack', orderly) /\ Elements(stack) \subseteq Elements(stack') BY <2>3, <2>4, OneMore
  <2>6. UNCHANGED <<ctlVars, focused, root, delayed, posted, orderly, focus, hover, click, key,
                    captured, pressed>>
        BY <1>2 DEF DrainNotify, appVars, mouseVars
  <2> QED BY <1>0, <2>2, <2>5, <2>6, ControlsStay
<1> QED BY <1>1, <1>2

\* A call of the application: the stack is as good as it was.
LEMMA CallFacts ==
    ASSUME PaintInv, NEW inOrder \in BOOLEAN, Call(inOrder)
    PROVE  /\ orderly' \in BOOLEAN /\ orderly' = (orderly /\ inOrder)
           /\ Well(stack, orderly')
<1>1. orderly' = (orderly /\ inOrder) BY DEF Call
<1>2. orderly' \in BOOLEAN BY <1>1
<1> QED BY <1>1, <1>2, PaintFacts, LessOrder

\* What is put at the end of a list.
LEMMA OneAtTheEnd ==
    ASSUME NEW s \in Seq(Controls), NEW c \in Controls
    PROVE  /\ Append(s, c) \in Seq(Controls) /\ Len(Append(s, c)) = Len(s) + 1
           /\ \A i \in 1 .. Len(s) : Append(s, c)[i] = s[i]
           /\ Append(s, c)[Len(s) + 1] = c
           /\ Elements(Append(s, c)) = Elements(s) \cup {c}
<1> DEFINE t == Append(s, c)
<1>1. /\ t \in Seq(Controls) /\ Len(t) = Len(s) + 1 /\ Len(s) \in Nat
      /\ \A i \in 1 .. Len(s) : t[i] = s[i]
      /\ t[Len(s) + 1] = c
      BY AppendProperties
<1> HIDE DEF t
<1>2. ASSUME NEW i \in 1 .. Len(t) PROVE t[i] \in Elements(s) \cup {c}
  <2>1. i \in 1 .. Len(s) \/ i = Len(s) + 1 BY <1>1
  <2> QED BY <1>1, <2>1 DEF Elements
<1>3. ASSUME NEW i \in 1 .. Len(s) PROVE s[i] \in Elements(t)
  <2>1. i \in 1 .. Len(t) BY <1>1
  <2> QED BY <1>1, <2>1 DEF Elements
<1>4. c \in Elements(t)
  <2>1. Len(s) + 1 \in 1 .. Len(t) BY <1>1
  <2> QED BY <1>1, <2>1 DEF Elements
<1>5. Elements(t) = Elements(s) \cup {c} BY <1>2, <1>3, <1>4 DEF Elements
<1> QED BY <1>1, <1>5 DEF t

\* A control that is removed is queued, alive, and without a parent.
LEMMA RemoveKeeps ==
    ASSUME PaintInv, NEW k \in Kids, Remove(k)
    PROVE  PaintInv'
<1> USE PaintFacts
<1>1. PaintTypes /\ TreesOK BY DEF PaintInv
<1>2. /\ k \in managed /\ k \in alive /\ parent[k] # None /\ k \in Controls
      /\ parent' = [parent EXCEPT ![k] = None]
      /\ delayed' = Append(delayed, k) /\ posted' = TRUE
      /\ UNCHANGED <<alive, managed, focused, root, focus, key, mouseVars, async, stack>>
      BY DEF Remove, Unlink, AddDelayedCleanup, PostAsyncNotify, Controls
<1>3. /\ orderly' \in BOOLEAN /\ orderly' = (orderly /\ ~Attaching) /\ Well(stack, orderly')
      BY CallFacts DEF Remove, Attaching
<1>4. /\ delayed \in Seq(Controls) /\ delayed' \in Seq(Controls) /\ Len(delayed') = Len(delayed) + 1
      /\ \A i \in 1 .. Len(delayed) : delayed'[i] = delayed[i]
      /\ delayed'[Len(delayed) + 1] = k
      /\ Elements(delayed') = Elements(delayed) \cup {k}
      /\ Len(delayed) \in Nat
      BY <1>1, <1>2, OneAtTheEnd DEF PaintTypes
<1>5. PaintTypes'
  <2>1. parent' \in [Controls -> Pointer] BY <1>1, <1>2 DEF PaintTypes
  <2> QED BY <1>1, <1>2, <1>3, <1>4, <2>1 DEF PaintTypes, mouseVars
<1>6. TreesOK'
  <2>1. \A c \in Controls : parent'[c] = IF c = k THEN None ELSE parent[c]
        BY <1>1, <1>2 DEF PaintTypes
  <2>2. k \notin Dialogs /\ k # root BY <1>1, ControlsAssumption DEF TreesOK
  <2>3. root' \in Dialogs \cap managed' BY <1>1, <1>2 DEF TreesOK
  <2>4. \A d \in Dialogs : parent'[d] = None BY <1>1, <2>1, <2>2 DEF TreesOK, Controls
  <2>5. \A l \in Kids : /\ parent'[l] \in {Home[l], None}
                        /\ l \in managed' <=> Home[l] \in managed'
                        /\ l \notin managed' => parent'[l] = Home[l]
        BY <1>1, <1>2, <2>1 DEF TreesOK, Controls
  <2>6. \A c \in Elements(delayed) : c \in Controls /\ c # k
    <3>1. Elements(delayed) \subseteq Controls BY <1>4, ElementOfSeq DEF Elements
    <3> QED BY <3>1, <1>1, <1>2 DEF TreesOK
  <2>7. \A c \in Elements(delayed') : c \in managed' /\ parent'[c] = None /\ c # root'
        BY <1>1, <1>2, <1>4, <2>1, <2>2, <2>6 DEF TreesOK
  <2>8. ASSUME NEW i \in 1 .. Len(delayed'), NEW j \in 1 .. Len(delayed'), i < j
        PROVE  delayed'[i] # delayed'[j]
    <3>1. i \in 1 .. Len(delayed) /\ delayed'[i] = delayed[i] BY <1>4, <2>8
    <3>2. CASE j \in 1 .. Len(delayed) BY <1>1, <1>4, <2>8, <3>1, <3>2 DEF TreesOK
    <3>3. CASE j = Len(delayed) + 1
      <4>1. delayed[i] \in Elements(delayed) BY <3>1 DEF Elements
      <4> QED BY <1>4, <2>6, <3>1, <3>3, <4>1
    <3> QED BY <1>4, <3>2, <3>3
  <2>9. \A i, j \in 1 .. Len(delayed') : i # j => delayed'[i] # delayed'[j]
    <3> SUFFICES ASSUME NEW i \in 1 .. Len(delayed'), NEW j \in 1 .. Len(delayed'), i # j
                 PROVE  delayed'[i] # delayed'[j]
        OBVIOUS
    <3>1. i < j \/ j < i BY <1>4
    <3> QED BY <3>1, <2>8
  <2>10. Controls \ managed' \subseteq alive' BY <1>1, <1>2 DEF TreesOK
  <2> QED BY <2>3, <2>4, <2>5, <2>7, <2>9, <2>10 DEF TreesOK
<1>7. Well(stack, orderly)'
  <2>1. ASSUME NEW f \in Elements(stack) PROVE FrameOK(f, orderly)'
    <3>1. FrameOK(f, orderly') BY <1>3 DEF Well
    <3>2. orderly' => f.at # "attach" BY <1>3 DEF Attaching, Elements
    <3> QED BY <1>2, <3>1, <3>2 DEF FrameOK
  <2> QED BY <1>2, <1>3, <2>1 DEF Well, OrderOK, Elements
<1>8. (orderly => PointersAlive)'
  <2> SUFFICES ASSUME orderly' PROVE PointersAlive' OBVIOUS
  <2>1. orderly BY <1>3
  <2>2. PointersAlive BY <2>1 DEF PaintInv
  <2>3. UNCHANGED <<root, focus, hover, click, key, alive, async>> BY <1>2 DEF mouseVars
  <2>4. Elements(async)' = Elements(async) BY <2>3 DEF Elements
  <2>5. Elements(delayed)' = Elements(delayed') BY DEF Elements
  <2> QED BY <1>2, <1>4, <2>2, <2>3, <2>4, <2>5 DEF PointersAlive
<1> QED BY <1>5, <1>6, <1>7, <1>8 DEF PaintInv

\* What the application's code calls.
LEMMA CallsKeep ==
    ASSUME PaintInv, ApplicationCall
    PROVE  PaintInv' /\ StackGrows
<1> USE PaintFacts
<1>0. /\ focused \in [Controls -> BOOLEAN] /\ async \in Seq(Controls) /\ captured \in BOOLEAN
      /\ posted \in BOOLEAN
      BY DEF PaintInv, PaintTypes
<1>1. ASSUME NEW k \in Kids, Remove(k) PROVE PaintInv' /\ StackGrows
  <2>1. stack' = stack /\ focus' = focus BY <1>1 DEF Remove
  <2> QED BY <1>1, <2>1, RemoveKeeps DEF StackGrows, FocusMoves
<1>2. ASSUME NEW c \in Controls \cup {None}, AppSetFocus(c)
      PROVE PaintInv' /\ StackGrows
  <2>1. c \in alive \cup {None} /\ c \in Pointer BY <1>2, DialogIsManaged DEF AppSetFocus
  <2>2. orderly' \in BOOLEAN /\ orderly' = orderly /\ Well(stack, orderly)
        BY <1>2, CallFacts DEF AppSetFocus
  <2>3. /\ Well(stack', orderly) /\ focus' \in Pointer /\ (orderly => focus' \in alive \cup {None})
        /\ FocusMoves /\ Elements(stack) \subseteq Elements(stack')
        BY <1>2, <2>1, SetFocusKeeps DEF AppSetFocus
  <2>4. UNCHANGED <<ctlVars, focused, root, queueVars, hover, click, key, captured, pressed>>
        BY <1>2 DEF AppSetFocus, mouseVars
  <2> QED BY <1>0, <2>2, <2>3, <2>4, PointersMove DEF StackGrows, FocusMoves
<1>3. ASSUME NEW c \in Controls, NEW repeat \in BOOLEAN, SendAsync(c, repeat)
      PROVE PaintInv' /\ StackGrows
  <2>1. c \in alive BY <1>3, DialogIsManaged DEF SendAsync
  <2>2. orderly' \in BOOLEAN /\ orderly' = orderly /\ Well(stack, orderly)
        BY <1>3, CallFacts DEF SendAsync
  <2>3. /\ UNCHANGED <<ctlVars, focused, root, focus, hover, click, key, captured, pressed,
                       delayed, stack>>
        /\ UNCHANGED <<async, posted>> \/ (async' = Append(async, c) /\ posted' = TRUE)
        BY <1>3 DEF SendAsync, PostAsyncNotify, mouseVars
  <2>4. async' \in Seq(Controls) /\ (orderly => Elements(async') \subseteq alive)
    <3>1. CASE async' = async BY <3>1, <1>0
    <3>2. CASE async' = Append(async, c) BY <3>2, <1>0, <2>1, OneAtTheEnd
    <3> QED BY <2>3, <3>1, <3>2
  <2> QED BY <1>0, <2>2, <2>3, <2>4, ControlsStay DEF StackGrows, FocusMoves
<1>4. ASSUME NEW d \in Dialogs, AttachDialog(d)
      PROVE PaintInv' /\ StackGrows
  <2>1. orderly' \in BOOLEAN /\ orderly' = (orderly /\ (~Attaching /\ delayed = <<>>))
        /\ Well(stack, orderly')
        BY <1>4, CallFacts DEF AttachDialog
  <2>2. d \in Dialogs \ managed /\ d \in alive /\ d \in Pointer /\ d # None
    <3>1. d \in Dialogs \ managed BY <1>4 DEF AttachDialog
    <3>2. Controls \ managed \subseteq alive BY DEF PaintInv, TreesOK
    <3> QED BY <3>1, <3>2, ControlsAssumption DEF Controls
  <2>3. MayPush(Frame("attach", d), stack, orderly')
    <3>1. Frame("attach", d) \in Frames /\ FrameOK(Frame("attach", d), orderly')
          BY <2>1, <2>2 DEF FrameOK, Frame, Frames, Places, Application
    <3>2. \A g \in Elements(stack) : g # Frame("attach", d) BY <1>4 DEF AttachDialog, Elements
    <3>3. orderly' => \A g \in Elements(stack) : g.at # "attach"
          BY <2>1 DEF Attaching, Elements
    <3> QED BY <3>1, <3>2, <3>3 DEF MayPush, Frame
  <2> DEFINE s == On(Frame("attach", d), stack)
  <2>4. Well(s, orderly') /\ Elements(stack) \subseteq Elements(s) BY <2>1, <2>3, OneMore
  <2>5. SetFocus(None, s) BY <1>4 DEF AttachDialog, On
  <2> HIDE DEF s
  <2>6. /\ Well(stack', orderly') /\ focus' \in Pointer /\ (orderly' => focus' \in alive \cup {None})
        /\ FocusMoves /\ Elements(stack) \subseteq Elements(stack')
        BY <2>1, <2>4, <2>5, SetFocusKeeps
  <2>7. UNCHANGED <<ctlVars, focused, root, delayed, async, posted, hover, click, key, captured,
                    pressed>>
        BY <1>4 DEF AttachDialog, mouseVars, queueVars
  <2> QED BY <1>0, <2>1, <2>6, <2>7, ControlsStay DEF StackGrows, FocusMoves
<1>5. ASSUME ModalBegin PROVE PaintInv' /\ StackGrows
  <2>1. orderly' = FALSE /\ Well(stack, FALSE) BY <1>5, CallFacts DEF ModalBegin
  <2>2. MayPush(Frame("modal", None), stack, FALSE)
        BY DEF MayPush, FrameOK, Frame, Frames, Places, Application
  <2>3. stack' = On(Frame("modal", None), stack) BY <1>5 DEF ModalBegin, On
  <2>4. Well(stack', FALSE) /\ Elements(stack) \subseteq Elements(stack')
        BY <2>1, <2>2, <2>3, OneMore
  <2>5. UNCHANGED <<ctlVars, focused, root, delayed, async, posted, focus, hover, click, key,
                    captured, pressed>>
        BY <1>5 DEF ModalBegin, mouseVars, queueVars
  <2> QED BY <1>0, <2>1, <2>4, <2>5, ControlsStay DEF StackGrows, FocusMoves
<1> QED BY <1>1, <1>2, <1>3, <1>4, <1>5 DEF ApplicationCall

\* A control that is deleted was the manager's and out of the tree of the dialog.
LEMMA DoomedFacts ==
    ASSUME PaintInv, NEW x \in Doomed
    PROVE  x \in managed /\ x # root
<1> USE PaintFacts
<1>1. TreesOK BY DEF PaintInv
<1>2. PICK c \in Elements(delayed) : x \in Tree(c) BY DEF Doomed
<1>3. c \in managed /\ parent[c] = None /\ c # root /\ c # None BY <1>1, <1>2 DEF TreesOK
<1>4. CASE x = c BY <1>3, <1>4
<1>5. CASE x # c
  <2>1. x \in Controls /\ parent[x] = c BY <1>2, <1>5 DEF Tree
  <2>2. x \notin Dialogs BY <1>1, <1>3, <2>1 DEF TreesOK
  <2>3. x \in Kids /\ Home[x] = c BY <1>1, <1>3, <2>1, <2>2 DEF TreesOK, Controls
  <2> QED BY <1>1, <1>3, <2>2, <2>3 DEF TreesOK
<1> QED BY <1>4, <1>5

\* Nothing that lives on points to what the cleanup deletes.
LEMMA CleanupKeeps ==
    ASSUME PaintInv, DrainCleanup
    PROVE  PaintInv' /\ Elements(Rest) \subseteq Elements(stack')
<1> USE PaintFacts
<1>0. PaintTypes /\ TreesOK BY DEF PaintInv
<1>1. /\ alive' = alive \ Doomed /\ delayed' = <<>> /\ stack' = Rest /\ async = <<>>
      /\ key' = Reaped(Doomed, key, "key") /\ hover' = Reaped(Doomed, hover, "hover")
      /\ click' = Reaped(Doomed, click, "click") /\ focus' = Reaped(Doomed, focus, "focus")
      /\ UNCHANGED <<parent, managed, focused, root, captured, pressed, async, posted, orderly>>
      BY DEF DrainCleanup, DeleteDelayed, appVars
<1>2. Top.at = "drain" BY DEF DrainCleanup, At
<1>3. /\ Well(Rest, orderly) /\ MayPush(Top, Rest, orderly) BY <1>2, Popped
<1>4. /\ {key', hover', click', focus'} \subseteq Pointer
      /\ {key', hover', click', focus'} \cap Doomed = {} \/ None \in Doomed
      /\ key' \in {key, None} /\ hover' \in {hover, None} /\ click' \in {click, None}
      /\ focus' \in {focus, None}
      BY <1>1 DEF Reaped
<1>5. None \notin Doomed BY DoomedFacts
<1>6. PaintTypes'
  <2>1. delayed' \in Seq(Controls) BY <1>1, EmptySeq
  <2>2. alive' \subseteq Controls BY <1>1
  <2> QED BY <1>0, <1>1, <1>4, <2>1, <2>2 DEF PaintTypes, Pointer
<1>7. TreesOK'
  <2>1. Elements(delayed') = {} /\ Len(delayed') = 0 BY <1>1, EmptySeq DEF Elements
  <2>2. Elements(delayed)' = {} /\ 1 .. Len(delayed') = {} BY <2>1 DEF Elements
  <2>3. Controls \ managed' \subseteq alive' BY <1>0, <1>1, DoomedFacts DEF TreesOK
  <2> QED BY <1>0, <1>1, <2>2, <2>3 DEF TreesOK
<1>8. Well(stack, orderly)'
  <2>1. orderly => Rest = <<>> BY <1>2, <1>3 DEF MayPush
  <2>2. CASE orderly
    <3>1. stack' = <<>> BY <1>1, <2>1, <2>2
    <3>2. Elements(stack') = {} /\ stack' \in Seq(Frames') /\ Len(stack') = 0
          BY <3>1, EmptySeq DEF Elements
    <3> QED BY <3>2 DEF Well, OrderOK, Elements
  <2>3. CASE ~orderly
    <3>1. Well(stack', FALSE) BY <1>1, <1>3, <2>3
    <3> QED BY <1>1, <2>3, <3>1 DEF Well, OrderOK, FrameOK, Elements
  <2> QED BY <2>2, <2>3
<1>9. (orderly => PointersAlive)'
  <2> SUFFICES ASSUME orderly' PROVE PointersAlive' OBVIOUS
  <2>1. PointersAlive BY <1>1 DEF PaintInv
  <2>2. root' \in alive' \cup {None} BY <1>1, <2>1, DoomedFacts DEF PointersAlive
  <2>3. {key', hover', click', focus'} \subseteq alive' \cup {None}
        BY <1>1, <1>4, <1>5, <2>1 DEF PointersAlive
  <2>4. Elements(async)' = {} /\ Elements(delayed)' = {} BY <1>1, EmptySeq DEF Elements
  <2> QED BY <2>2, <2>3, <2>4 DEF PointersAlive
<1>10. Elements(Rest) \subseteq Elements(stack') BY <1>1
<1> QED BY <1>6, <1>7, <1>8, <1>9, <1>10 DEF PaintInv

\* The tree of a dialog that was not attached yet.
LEMMA NewTree ==
    ASSUME PaintInv, NEW d \in Dialogs \ managed
    PROVE  /\ Tree(d) \cap managed = {} /\ d \in Tree(d)
           /\ \A x \in Dialogs : x \in Tree(d) => x = d
           /\ \A k \in Kids : k \in Tree(d) <=> Home[k] = d
<1>1. TreesOK BY DEF PaintInv
<1>2. d \in Controls /\ d # None BY ControlsAssumption DEF Controls
<1>3. \A x \in Dialogs : x \in Tree(d) => x = d BY <1>1, <1>2 DEF TreesOK, Tree
<1>4. ASSUME NEW k \in Kids PROVE k \in Tree(d) <=> Home[k] = d
  <2>1. k \in Controls /\ k # d BY ControlsAssumption DEF Controls
  <2>2. k \in Tree(d) <=> parent[k] = d BY <2>1 DEF Tree
  <2>3. parent[k] = d => Home[k] = d BY <1>1, <1>2 DEF TreesOK
  <2>4. Home[k] = d => parent[k] = d BY <1>1 DEF TreesOK
  <2> QED BY <2>2, <2>3, <2>4
<1>5. ASSUME NEW x \in Tree(d) PROVE x \notin managed
  <2>1. x \in Dialogs \/ x \in Kids BY DEF Tree, Controls
  <2> QED BY <1>1, <1>3, <1>4, <2>1 DEF TreesOK
<1> QED BY <1>2, <1>3, <1>4, <1>5 DEF Tree

\* The old dialog and what is queued are deleted; the pointers were cleared.
LEMMA AttachedKeeps ==
    ASSUME PaintInv, Attached
    PROVE  PaintInv' /\ Elements(Rest) \subseteq Elements(stack')
<1> USE PaintFacts
<1>0. PaintTypes /\ TreesOK BY DEF PaintInv
<1>1. Top.at = "attach" BY DEF Attached, At
<1>2. /\ Well(Rest, orderly) /\ MayPush(Top, Rest, orderly) BY <1>1, Popped
<1> DEFINE d == Top.ctl
<1>3. d \in Dialogs \ managed /\ FrameOK(Top, orderly)
      /\ \A g \in Elements(Rest) : g # Top /\ (orderly => g.at # "attach")
      BY <1>1, <1>2 DEF MayPush, FrameOK
<1>4. Top = Frame("attach", d) BY <1>1, <1>2 DEF MayPush, Frame, Frames
<1>5. /\ alive' = alive \ Doomed /\ delayed' = <<root>> /\ root' = d /\ async' = <<>>
      /\ posted' = TRUE
      /\ key' = None /\ hover' = None /\ click' = None
      /\ focus' = Reaped(Doomed, focus, "focus")
      /\ managed' = managed \cup Tree(d) /\ stack' = Rest
      /\ UNCHANGED <<parent, focused, captured, pressed, orderly>>
      BY DEF Attached, ReplaceRoot, PostAsyncNotify, appVars
<1> HIDE DEF d
<1>6. root \in Dialogs /\ root \in managed /\ root \in Controls /\ root # d /\ root # None
      /\ d \in Controls /\ d \in Dialogs
      BY <1>0, <1>3, ControlsAssumption DEF TreesOK, Controls
<1>7. /\ delayed' \in Seq(Controls) /\ Len(delayed') = 1 /\ delayed'[1] = root
      BY <1>5, <1>6
<1>8. Elements(delayed') = {root} BY <1>7 DEF Elements
<1>9. focus' \in {focus, None} /\ (focus \in Doomed => focus' = None)
      BY <1>5 DEF Reaped
<1>10. PaintTypes'
  <2>1. async' \in Seq(Controls) BY <1>5, EmptySeq
  <2>2. alive' \subseteq Controls /\ managed' \subseteq Controls BY <1>5 DEF Tree
  <2>3. /\ focus' \in Pointer' /\ hover' \in Pointer' /\ click' \in Pointer' /\ key' \in Pointer'
        /\ pressed' \in Pointer'
        BY <1>5, <1>9 DEF Pointer
  <2>4. /\ parent' \in [Controls -> Pointer'] /\ focused' \in [Controls -> BOOLEAN]
        /\ captured' \in BOOLEAN /\ posted' \in BOOLEAN /\ orderly' \in BOOLEAN
        BY <1>0, <1>5 DEF PaintTypes, Pointer
  <2> QED BY <1>7, <2>1, <2>2, <2>3, <2>4 DEF PaintTypes
<1>11. TreesOK'
  <2>1. root' \in Dialogs \cap managed' BY <1>3, <1>5, <1>6, NewTree
  <2>2. \A x \in Dialogs : parent'[x] = None BY <1>0, <1>5 DEF TreesOK
  <2>3. ASSUME NEW k \in Kids
        PROVE  /\ parent'[k] \in {Home[k], None}
               /\ k \in managed' <=> Home[k] \in managed'
               /\ k \notin managed' => parent'[k] = Home[k]
    <3>1. Home[k] \in Dialogs BY ControlsAssumption
    <3>2. Home[k] \in Tree(d) <=> Home[k] = d BY <1>3, <3>1, NewTree
    <3>3. k \in Tree(d) <=> Home[k] = d BY <1>3, NewTree
    <3> QED BY <1>0, <1>5, <3>2, <3>3 DEF TreesOK
  <2>4. \A c \in Elements(delayed') : c \in managed' /\ parent'[c] = None /\ c # root'
        BY <1>0, <1>5, <1>6, <1>8 DEF TreesOK
  <2>5. \A i, j \in 1 .. Len(delayed') : i # j => delayed'[i] # delayed'[j] BY <1>7
  <2>6. Controls \ managed' \subseteq alive' BY <1>0, <1>5, DoomedFacts DEF TreesOK
  <2> QED BY <2>1, <2>2, <2>3, <2>4, <2>5, <2>6 DEF TreesOK, Elements
<1>12. orderly => Doomed = {}
  <2>1. orderly => delayed = <<>> BY <1>1, <1>3 DEF FrameOK
  <2>2. delayed = <<>> => Elements(delayed) = {} BY EmptySeq DEF Elements
  <2> QED BY <2>1, <2>2 DEF Doomed
<1>13. Well(stack, orderly)'
  <2>1. ASSUME NEW f \in Elements(Rest) PROVE FrameOK(f, orderly)'
    <3>1. FrameOK(f, orderly) /\ f \in Frames BY <1>2, ElementOfSeq DEF Well, Elements
    <3>2. f # Top /\ (orderly => f.at # "attach") BY <1>3
    <3>3. f.at = "attach" => f.ctl # d BY <1>4, <3>1, <3>2 DEF Frame, Frames
    <3>4. f.at = "attach" => f.ctl \in Dialogs \ managed'
          BY <1>3, <1>5, <3>1, <3>3, NewTree DEF FrameOK
    <3>5. f.at = "click" => f.ctl \in managed' BY <1>5, <3>1 DEF FrameOK
    <3>6. orderly => alive' = alive BY <1>5, <1>12
    <3> QED BY <1>5, <3>1, <3>2, <3>4, <3>5, <3>6 DEF FrameOK
  <2>2. stack' \in Seq(Frames') BY <1>2, <1>5 DEF Well, Frames, Pointer
  <2>3. OrderOK(stack, orderly)' BY <1>2, <1>5 DEF Well, OrderOK
  <2> QED BY <1>5, <2>1, <2>2, <2>3 DEF Well, Elements
<1>14. (orderly => PointersAlive)'
  <2> SUFFICES ASSUME orderly' PROVE PointersAlive' OBVIOUS
  <2>1. PointersAlive /\ alive' = alive BY <1>5, <1>12 DEF PaintInv
  <2>2. root' \in alive'
    <3>1. Controls \ managed \subseteq alive BY <1>0 DEF TreesOK
    <3> QED BY <1>3, <1>5, <1>6, <2>1, <3>1
  <2>3. Elements(async)' = {} BY <1>5, EmptySeq DEF Elements
  <2>4. Elements(delayed)' = {root} BY <1>8 DEF Elements
  <2> QED BY <1>5, <1>6, <1>9, <2>1, <2>2, <2>3, <2>4 DEF PointersAlive
<1>15. Elements(Rest) \subseteq Elements(stack') BY <1>5
<1> QED BY <1>10, <1>11, <1>13, <1>14, <1>15 DEF PaintInv

\* What follows when a handler has returned, and the return itself.
LEMMA ReturnsKeep ==
    ASSUME PaintInv, Proceed, ~DrainNotify, ~DrainCleanup, ~Attached
    PROVE  /\ PaintInv' /\ Elements(Rest) \subseteq Elements(stack')
           /\ Top.at \notin {"drain", "attach", "idle"}
<1> USE PaintFacts
<1>0. captured \in BOOLEAN /\ focused \in [Controls -> BOOLEAN]
      BY DEF PaintInv, PaintTypes
<1>1. Top.at \notin {"drain", "attach", "idle"}
  <2>1. FocusKilled \/ FocusLost \/ FocusSet \/ ClickSet \/ HoverLeft \/ HoverEntered \/ KeySet
        \/ KeyCleared \/ HandlerReturns \/ ModalEnd
        BY DEF Proceed
  <2>2. Top.at \in {"sfKilled", "sfNotified", "sfSet", "click", "leave", "enter", "key", "keyUp",
                    "modal"} \cup Application
        BY <2>1 DEF FocusKilled, FocusLost, FocusSet, ClickSet, HoverLeft, HoverEntered, KeySet,
                    KeyCleared, HandlerReturns, ModalEnd, At, InHandler
  <2> QED BY <2>2 DEF Application
<1>2. /\ Well(Rest, orderly) /\ MayPush(Top, Rest, orderly) /\ Top.ctl \in Pointer
      /\ FrameOK(Top, orderly)
      BY <1>1, Popped DEF MayPush, Frames
<1>3. Top.at # "sfSet" => (orderly => Top.ctl \in alive \cup {None}) BY <1>2 DEF FrameOK
<1>4. ASSUME FocusKilled PROVE PaintInv' /\ Elements(Rest) \subseteq Elements(stack')
  <2>1. Top.at # "sfSet" BY <1>4 DEF FocusKilled, At
  <2>2. MayPush(Frame("sfNotified", Top.ctl), Rest, orderly)
        /\ MayPush(Frame("notify", focus), On(Frame("sfNotified", Top.ctl), Rest), orderly)
        BY <1>2, <1>3, <2>1, PlainFrame DEF Plain
  <2>3. stack' = On2(Frame("notify", focus), Frame("sfNotified", Top.ctl), Rest)
        BY <1>4 DEF FocusKilled, On2
  <2>4. Well(stack', orderly) /\ Elements(Rest) \subseteq Elements(stack')
        BY <1>2, <2>2, <2>3, TwoMore
  <2>5. UNCHANGED <<ctlVars, focused, root, queueVars, orderly, focus, hover, click, key, captured, pressed>>
        BY <1>4 DEF FocusKilled, appVars, mouseVars
  <2> QED BY <1>0, <2>4, <2>5, PointersMove
<1>5. ASSUME FocusLost PROVE PaintInv' /\ Elements(Rest) \subseteq Elements(stack')
  <2>1. Top.at # "sfSet" BY <1>5 DEF FocusLost, At
  <2>2. GiveFocus(Top.ctl, Rest) BY <1>5 DEF FocusLost
  <2>3. /\ Well(stack', orderly) /\ Elements(Rest) \subseteq Elements(stack')
        /\ focus' \in {Top.ctl, None}
        BY <1>2, <1>3, <2>1, <2>2, GiveFocusKeeps
  <2>4. focus' \in Pointer /\ (orderly => focus' \in alive \cup {None})
        BY <1>2, <1>3, <2>1, <2>3
  <2>5. UNCHANGED <<ctlVars, focused, root, queueVars, orderly, hover, click, key, captured, pressed>>
        BY <1>5 DEF FocusLost, appVars, mouseVars
  <2> QED BY <1>0, <2>3, <2>4, <2>5, PointersMove
<1>6. ASSUME FocusSet PROVE PaintInv' /\ Elements(Rest) \subseteq Elements(stack')
  <2>1. MayPush(Frame("notify", focus), Rest, orderly) BY <1>2, PlainFrame DEF Plain
  <2>2. stack' = On(Frame("notify", focus), Rest) BY <1>6 DEF FocusSet, On
  <2>3. Well(stack', orderly) /\ Elements(Rest) \subseteq Elements(stack')
        BY <1>2, <2>1, <2>2, OneMore
  <2>4. UNCHANGED <<ctlVars, focused, root, queueVars, orderly, focus, hover, click, key, captured, pressed>>
        BY <1>6 DEF FocusSet, appVars, mouseVars
  <2> QED BY <1>0, <2>3, <2>4, PointersMove
<1>7. ASSUME ClickSet PROVE PaintInv' /\ Elements(Rest) \subseteq Elements(stack')
  <2>1. stack' = Rest /\ Top.at # "sfSet" /\ click' = Top.ctl /\ pressed' = Top.ctl
        BY <1>7 DEF ClickSet, At
  <2>2. UNCHANGED <<ctlVars, focused, root, queueVars, orderly, focus, hover, key, captured>>
        BY <1>7 DEF ClickSet, appVars
  <2> QED BY <1>0, <1>2, <1>3, <2>1, <2>2, PointersMove
<1>8. ASSUME HoverLeft PROVE PaintInv' /\ Elements(Rest) \subseteq Elements(stack')
  <2>1. hover' = None /\ EnterHover(Top.ctl, Rest) /\ Top.at # "sfSet" BY <1>8 DEF HoverLeft, At
  <2>2. Well(stack', orderly) /\ Elements(Rest) \subseteq Elements(stack')
        BY <1>2, <1>3, <2>1, EnterHoverKeeps
  <2>3. UNCHANGED <<ctlVars, focused, root, queueVars, orderly, focus, click, key, captured, pressed>>
        BY <1>8 DEF HoverLeft, appVars
  <2> QED BY <1>0, <2>1, <2>2, <2>3, PointersMove
<1>9. ASSUME HoverEntered PROVE PaintInv' /\ Elements(Rest) \subseteq Elements(stack')
  <2>1. hover' = Top.ctl /\ MoveEvent(Top.ctl, Rest) /\ Top.at # "sfSet"
        BY <1>9 DEF HoverEntered, At
  <2>2. Well(stack', orderly) /\ Elements(Rest) \subseteq Elements(stack')
        BY <1>2, <1>3, <2>1, MoveEventKeeps
  <2>3. UNCHANGED <<ctlVars, focused, root, queueVars, orderly, focus, click, key, captured, pressed>>
        BY <1>9 DEF HoverEntered, appVars
  <2> QED BY <1>0, <1>2, <1>3, <2>1, <2>2, <2>3, PointersMove
<1>10. ASSUME KeySet \/ KeyCleared PROVE PaintInv' /\ Elements(Rest) \subseteq Elements(stack')
  <2>1. stack' = Rest /\ key' \in {focus, None} BY <1>10 DEF KeySet, KeyCleared
  <2>2. UNCHANGED <<ctlVars, focused, root, queueVars, orderly, focus, hover, click, captured, pressed>>
        BY <1>10 DEF KeySet, KeyCleared, appVars, mouseVars
  <2> QED BY <1>0, <1>2, <2>1, <2>2, PointersMove
<1>11. ASSUME HandlerReturns PROVE PaintInv' /\ Elements(Rest) \subseteq Elements(stack')
  <2>1. stack' = Rest BY <1>11 DEF HandlerReturns
  <2>2. focused' \in [Controls -> BOOLEAN]
    <3>1. focused' \in {focused, [focused EXCEPT ![Hearer(Top.ctl)] = TRUE],
                        [focused EXCEPT ![Hearer(Top.ctl)] = FALSE]}
      <4>1. CASE Top.at = "set" BY <1>11, <4>1 DEF HandlerReturns, Records, Ignores
      <4>2. CASE Top.at = "kill" BY <1>11, <4>2 DEF HandlerReturns, Records, Ignores
      <4>3. CASE Top.at # "set" /\ Top.at # "kill"
            BY <1>11, <4>3 DEF HandlerReturns, Records, Ignores
      <4> QED BY <4>1, <4>2, <4>3
    <3> QED BY <1>0, <3>1
  <2>3. UNCHANGED <<ctlVars, root, queueVars, orderly, focus, hover, click, key, captured, pressed>>
        BY <1>11 DEF HandlerReturns, mouseVars
  <2>4. async' = async /\ delayed' = delayed /\ posted' = posted /\ async \in Seq(Controls)
        /\ posted \in BOOLEAN
        BY <2>3 DEF queueVars, PaintInv, PaintTypes
  <2> QED BY <1>0, <1>2, <2>1, <2>2, <2>3, <2>4, ControlsStay
<1>12. ASSUME ModalEnd PROVE PaintInv' /\ Elements(Rest) \subseteq Elements(stack')
  <2>1. stack' = Rest BY <1>12 DEF ModalEnd
  <2>2. UNCHANGED <<ctlVars, focused, root, queueVars, orderly, focus, hover, click, key, captured, pressed>>
        BY <1>12 DEF ModalEnd, appVars, mouseVars
  <2> QED BY <1>0, <1>2, <2>1, <2>2, PointersMove
<1> QED BY <1>1, <1>4, <1>5, <1>6, <1>7, <1>8, <1>9, <1>10, <1>11, <1>12 DEF Proceed

\* One dialog is shown, and nothing has happened.
LEMMA InitPaint == ASSUME Init PROVE PaintInv
<1>1. PaintTypes
  <2>1. parent \in [Controls -> Pointer]
    <3>1. \A c \in Controls : (IF c \in Kids THEN Home[c] ELSE None) \in Pointer
          BY ControlsAssumption DEF Pointer, Controls
    <3> QED BY <3>1 DEF Init
  <2>2. focused \in [Controls -> BOOLEAN] BY DEF Init
  <2>3. delayed \in Seq(Controls) /\ async \in Seq(Controls) BY EmptySeq DEF Init
  <2> QED BY <2>1, <2>2, <2>3 DEF Init, PaintTypes, Pointer
<1>2. TreesOK
  <2>1. Elements(delayed) = {} /\ 1 .. Len(delayed) = {} BY EmptySeq DEF Init, Elements
  <2>2. First \in Controls /\ First \notin Kids BY ControlsAssumption DEF Controls
  <2>3. root \in Dialogs \cap managed BY <2>2, ControlsAssumption DEF Init
  <2>4. \A d \in Dialogs : parent[d] = None BY ControlsAssumption DEF Init, Controls
  <2>5. ASSUME NEW k \in Kids
        PROVE  /\ parent[k] \in {Home[k], None}
               /\ k \in managed <=> Home[k] \in managed
               /\ k \notin managed => parent[k] = Home[k]
    <3>1. k \in Controls /\ k # First /\ Home[k] \in Controls /\ Home[k] \notin Kids
          BY <2>2, ControlsAssumption DEF Controls
    <3>2. parent[k] = Home[k] BY <3>1 DEF Init
    <3>3. k \in managed <=> Home[k] = First BY <3>1 DEF Init
    <3>4. Home[k] \in managed <=> Home[k] = First BY <3>1 DEF Init
    <3> QED BY <3>2, <3>3, <3>4
  <2>6. Controls \ managed \subseteq alive BY DEF Init
  <2> QED BY <2>1, <2>3, <2>4, <2>5, <2>6 DEF TreesOK
<1>3. Well(stack, orderly)
  <2>1. stack = <<>> /\ stack \in Seq(Frames) /\ Len(stack) = 0 BY EmptySeq DEF Init
  <2> QED BY <2>1 DEF Well, OrderOK, Elements
<1>4. PointersAlive
  <2>1. Elements(delayed) = {} /\ Elements(async) = {} BY EmptySeq DEF Init, Elements
  <2>2. First \in Controls BY ControlsAssumption DEF Controls
  <2> QED BY <2>1, <2>2 DEF Init, PointersAlive
<1> QED BY <1>1, <1>2, <1>3, <1>4 DEF PaintInv

\* Every step keeps them.
LEMMA PaintStep == ASSUME PaintInv, [Next]_vars PROVE PaintInv'
<1>1. CASE Input BY <1>1, MessagesKeep
<1>2. CASE AsyncMessage \/ DrainNotify BY <1>2, QueueKeeps
<1>3. CASE ApplicationCall BY <1>3, CallsKeep
<1>4. CASE DrainCleanup BY <1>4, CleanupKeeps
<1>5. CASE Attached BY <1>5, AttachedKeeps
<1>6. CASE Proceed /\ ~DrainNotify /\ ~DrainCleanup /\ ~Attached BY <1>6, ReturnsKeep
<1>7. CASE UNCHANGED vars
  <2>1. UNCHANGED <<ctlVars, root, delayed, focused, async, captured, posted, orderly, focus, hover,
                    click, key, pressed, stack>>
        BY <1>7 DEF vars, ctlVars
  <2>2. /\ focused \in [Controls -> BOOLEAN] /\ async \in Seq(Controls) /\ captured \in BOOLEAN
        /\ posted \in BOOLEAN
        BY DEF PaintInv, PaintTypes
  <2> QED BY <2>1, <2>2, PaintFacts, ControlsStay
<1> QED BY <1>1, <1>2, <1>3, <1>4, <1>5, <1>6, <1>7 DEF Next, Proceed

\* The trees, the stack of calls and what they say of the pointers, in every state.
THEOREM PaintInvariant == Spec => []PaintInv
<1>1. Init => PaintInv BY InitPaint
<1>2. PaintInv /\ [Next]_vars => PaintInv' BY PaintStep
<1> QED BY <1>1, <1>2, PTL DEF Spec

\* As long as the application nests no message loop and attaches no dialog while
\* a cleanup is pending, no pointer and no code on the stack has a deleted control.
THEOREM PointersSafe == Spec => []NothingDangles
<1>1. ASSUME PaintInv PROVE NothingDangles
  <2> SUFFICES ASSUME orderly PROVE PointersAlive /\ RunningCodeAlive BY DEF NothingDangles
  <2>1. PointersAlive BY <1>1 DEF PaintInv
  <2>2. ASSUME NEW i \in 1 .. Len(stack), stack[i].at # "sfSet"
        PROVE  stack[i].ctl \in alive \cup {None}
    <3>1. stack[i] \in Elements(stack) BY DEF Elements
    <3> QED BY <1>1, <2>2, <3>1 DEF PaintInv, Well, FrameOK
  <2> QED BY <2>1, <2>2 DEF RunningCodeAlive
<1> QED BY <1>1, PaintInvariant, PTL

\* Delayed cleanup deletes every control once, and never the dialog that is shown.
THEOREM CleanupOnce == Spec => []CleanedOnce
<1>1. ASSUME PaintInv PROVE CleanedOnce
  <2>1. TreesOK /\ delayed \in Seq(Controls) BY <1>1 DEF PaintInv, PaintTypes
  <2>2. ASSUME NEW i \in 1 .. Len(delayed), NEW j \in 1 .. Len(delayed), i # j,
               NEW x \in Tree(delayed[i]) \cap Tree(delayed[j])
        PROVE  FALSE
    <3>1. delayed[i] \in Elements(delayed) /\ delayed[j] \in Elements(delayed) BY DEF Elements
    <3>2. delayed[i] # delayed[j] BY <2>1, <2>2 DEF TreesOK
    <3>3. /\ parent[delayed[i]] = None /\ parent[delayed[j]] = None
          /\ delayed[i] # None /\ delayed[j] # None
          BY <1>1, <2>1, <3>1, PaintFacts DEF TreesOK
    <3> QED BY <2>2, <3>2, <3>3 DEF Tree
  <2>3. root \notin Doomed BY <1>1, DoomedFacts
  <2> QED BY <2>2, <2>3 DEF CleanedOnce
<1> QED BY <1>1, PaintInvariant, PTL

\* WM_APP+1 is being handled until its cleanup.
LEMMA DrainStays ==
    ASSUME PaintInv, Next, ~DrainCleanup, NEW f \in Elements(stack), f.at = "drain"
    PROVE  f \in Elements(stack')
<1>1. CASE Input BY <1>1, MessagesKeep DEF StackGrows
<1>2. CASE AsyncMessage \/ DrainNotify BY <1>2, QueueKeeps
<1>3. CASE ApplicationCall BY <1>3, CallsKeep DEF StackGrows
<1>4. CASE Attached
  <2>1. Top.at = "attach" BY <1>4 DEF Attached, At
  <2> QED BY <1>4, <2>1, Popped, AttachedKeeps
<1>5. CASE Proceed /\ ~DrainNotify /\ ~Attached
  <2>1. Elements(Rest) \subseteq Elements(stack') /\ Top.at \notin {"drain", "idle"}
        BY <1>5, ReturnsKeep
  <2> QED BY <2>1, Popped
<1> QED BY <1>1, <1>2, <1>3, <1>4, <1>5 DEF Next, Proceed

\* WorkIsPosted with the frame found by what it is, not by where it is.
LEMMA WorkPlaces ==
    WorkIsPosted <=>
        /\ inbox = IF posted THEN 1 ELSE 0
        /\ delayed # <<>> \/ async # <<>> =>
             posted \/ \E f \in Elements(stack) : f.at = "drain"
BY DEF WorkIsPosted, Elements

\* Every step keeps the promise of WM_APP+1.
LEMMA WorkStep == ASSUME PaintInv, WorkIsPosted, Next PROVE WorkIsPosted'
<1>0. posted \in BOOLEAN /\ PaintInv' BY PaintStep DEF PaintInv, PaintTypes
<1>1. inbox' = IF posted' THEN 1 ELSE 0
  <2>1. inbox = IF posted THEN 1 ELSE 0 BY DEF WorkIsPosted
  <2>2. UNCHANGED <<posted, inbox>> \/ PostAsyncNotify \/ (inbox > 0 /\ inbox' = inbox - 1 /\ posted' = FALSE)
    <3>1. CASE Input
          BY <3>1 DEF Input, LButtonDown, LButtonDblClk, RButtonDown, MouseMove, LButtonUp, KeyDown,
                      KeyUp, queueVars
    <3>2. CASE AsyncMessage BY <3>2 DEF AsyncMessage
    <3>3. CASE ApplicationCall
          BY <3>3 DEF ApplicationCall, Remove, AddDelayedCleanup, AppSetFocus, SendAsync,
                      AttachDialog, ModalBegin, queueVars
    <3>4. CASE Proceed
          BY <3>4 DEF Proceed, FocusKilled, FocusLost, FocusSet, ClickSet, HoverLeft, HoverEntered,
                      KeySet, KeyCleared, DrainNotify, DrainCleanup, Attached, HandlerReturns,
                      ModalEnd, queueVars
    <3> QED BY <3>1, <3>2, <3>3, <3>4 DEF Next
  <2> QED BY <2>1, <2>2, <1>0 DEF PostAsyncNotify
<1>2. ASSUME delayed' # <<>> \/ async' # <<>>
      PROVE  posted' \/ \E f \in Elements(stack') : f.at = "drain"
  <2>1. CASE AsyncMessage
    <3>1. stack' = On(Frame("drain", None), stack) /\ stack' = <<Frame("drain", None)>> \o stack
          BY <2>1 DEF AsyncMessage, On
    <3>2. stack'[1] = Frame("drain", None) /\ 1 \in 1 .. Len(stack')
      <4>1. Len(<<Frame("drain", None)>>) = 1 /\ Len(stack) \in Nat
            /\ stack \in Seq(Frames) /\ <<Frame("drain", None)>> \in Seq(Frames)
            /\ <<Frame("drain", None)>>[1] = Frame("drain", None)
            BY PaintFacts DEF Frame, Frames, Places
      <4> QED BY <3>1, <4>1, ConcatProperties
    <3> QED BY <3>2 DEF Elements, Frame
  <2>2. CASE DrainCleanup BY <1>2, <2>2 DEF DrainCleanup, DeleteDelayed
  <2>3. CASE (\E k \in Kids : Remove(k)) \/ Attached
        BY <2>3 DEF Remove, AddDelayedCleanup, Attached, PostAsyncNotify
  <2>4. CASE /\ delayed # <<>> \/ async # <<>>
             /\ posted => posted'
             /\ ~DrainCleanup
        BY <2>4, WorkPlaces, DrainStays
  <2>5. CASE \E c \in Controls, repeat \in BOOLEAN : SendAsync(c, repeat)
    <3>1. posted' \/ UNCHANGED <<async, posted, delayed>> BY <2>5 DEF SendAsync, PostAsyncNotify
    <3>2. UNCHANGED stack BY <2>5 DEF SendAsync
    <3> QED BY <1>2, <3>1, <3>2, WorkPlaces
  <2>6. CASE DrainNotify
    <3>1. async # <<>> /\ posted' = posted BY <2>6 DEF DrainNotify
    <3>2. CASE ~DrainCleanup BY <3>1, <3>2, <2>4
    <3>3. CASE DrainCleanup BY <3>3, <2>2
    <3> QED BY <3>2, <3>3
  <2>7. CASE UNCHANGED queueVars /\ ~DrainCleanup BY <1>2, <2>4, <2>7 DEF queueVars
  <2>8. CASE Input
        BY <2>2, <2>7, <2>8
        DEF Input, LButtonDown, LButtonDblClk, RButtonDown, MouseMove, LButtonUp, KeyDown, KeyUp
  <2>9. CASE ApplicationCall
        BY <2>2, <2>3, <2>5, <2>7, <2>9 DEF ApplicationCall, AppSetFocus, AttachDialog, ModalBegin
  <2>10. CASE Proceed
        BY <2>2, <2>3, <2>6, <2>7, <2>10
        DEF Proceed, FocusKilled, FocusLost, FocusSet, ClickSet, HoverLeft, HoverEntered, KeySet,
            KeyCleared, HandlerReturns, ModalEnd
  <2> QED BY <2>1, <2>8, <2>9, <2>10 DEF Next
<1> QED BY <1>1, <1>2 DEF WorkIsPosted, Elements

\* What is queued has a message posted for it, and one only, or is being handled.
THEOREM WorkPosted == Spec => []WorkIsPosted
<1>1. Init => WorkIsPosted BY DEF Init, WorkIsPosted
<1>2. PaintInv /\ WorkIsPosted /\ [Next]_vars => WorkIsPosted'
  <2>1. ASSUME UNCHANGED vars, WorkIsPosted PROVE WorkIsPosted'
        BY <2>1 DEF vars, WorkIsPosted
  <2> QED BY <2>1, WorkStep
<1> QED BY <1>1, <1>2, PaintInvariant, PTL DEF Spec

\* The focus stays with a control that has been told, or is going to be told.
LEMMA FocusStays ==
    ASSUME FocusOK, FocusMoves, focused' = focused, refused => refused',
           \A f \in Elements(stack) :
              f.at \in {"set", "sfKilled", "sfNotified"} => f \in Elements(stack')
    PROVE  FocusOK'
BY DEF FocusOK, FocusMoves, FocusPending, Frame

\* Every step keeps the focus with who was told.
LEMMA FocusStep == ASSUME PaintInv, FocusOK, Next PROVE FocusOK'
<1> USE PaintFacts
<1>1. CASE Input
  <2>1. focused' = focused /\ refused' = refused
        BY <1>1 DEF Input, LButtonDown, LButtonDblClk, RButtonDown, MouseMove, LButtonUp, KeyDown,
           KeyUp, appVars
  <2> QED BY <1>1, <2>1, MessagesKeep, FocusStays DEF StackGrows
<1>2. CASE AsyncMessage \/ DrainNotify
  <2>1. UNCHANGED <<focused, refused, focus>> BY <1>2 DEF AsyncMessage, DrainNotify, appVars
  <2> QED BY <1>2, <2>1, QueueKeeps, FocusStays DEF FocusMoves
<1>3. CASE ApplicationCall
  <2>1. focused' = focused /\ refused' = refused
        BY <1>3 DEF ApplicationCall, Remove, AppSetFocus, SendAsync, AttachDialog, ModalBegin, Call
  <2> QED BY <1>3, <2>1, CallsKeep, FocusStays DEF StackGrows
<1>4. ASSUME Top.at \notin {"idle", "set", "sfKilled", "sfNotified"}, FocusMoves,
             focused' = focused, refused => refused', Elements(Rest) \subseteq Elements(stack')
      PROVE  FocusOK'
  <2>1. Elements(stack) = {Top} \cup Elements(Rest) BY <1>4, Popped
  <2> QED BY <1>4, <2>1, FocusStays
<1>5. CASE DrainCleanup
  <2>1. /\ focus' \in {focus, None} /\ UNCHANGED <<focused, refused>> /\ Top.at = "drain"
        BY <1>5 DEF DrainCleanup, Reaped, At, appVars
  <2> QED BY <1>4, <1>5, <2>1, CleanupKeeps DEF FocusMoves
<1>6. CASE Attached
  <2>1. /\ focus' \in {focus, None} /\ UNCHANGED <<focused, refused>> /\ Top.at = "attach"
        BY <1>6 DEF Attached, Reaped, At, appVars
  <2> QED BY <1>4, <1>6, <2>1, AttachedKeeps DEF FocusMoves
<1>7. CASE Proceed /\ ~DrainNotify /\ ~DrainCleanup /\ ~Attached
  <2>1. Elements(Rest) \subseteq Elements(stack') /\ Top.at # "idle" BY <1>7, ReturnsKeep
  <2>2. /\ Well(Rest, orderly) /\ MayPush(Top, Rest, orderly) /\ Top \in Frames
        /\ Elements(stack) = {Top} \cup Elements(Rest)
        BY <2>1, Popped
  <2>3. Top.ctl \in Pointer /\ FrameOK(Top, orderly) BY <2>2 DEF MayPush, Frames
  <2>4. CASE FocusSet \/ ClickSet \/ HoverLeft \/ HoverEntered \/ KeySet \/ KeyCleared \/ ModalEnd
    <3>1. UNCHANGED <<focused, refused, focus>>
          BY <2>4 DEF FocusSet, ClickSet, HoverLeft, HoverEntered, KeySet, KeyCleared, ModalEnd, appVars
    <3>2. Top.at \in {"sfSet", "click", "leave", "enter", "key", "keyUp", "modal"}
          BY <2>4 DEF FocusSet, ClickSet, HoverLeft, HoverEntered, KeySet, KeyCleared, ModalEnd, At
    <3> QED BY <1>4, <2>1, <3>1, <3>2 DEF FocusMoves
  <2>5. CASE FocusKilled
    <3>1. Top.at # "sfSet" BY <2>5 DEF FocusKilled, At
    <3>2. orderly => Top.ctl \in alive \cup {None} BY <2>3, <3>1 DEF FrameOK
    <3>3. MayPush(Frame("sfNotified", Top.ctl), Rest, orderly)
          /\ MayPush(Frame("notify", focus), On(Frame("sfNotified", Top.ctl), Rest), orderly)
          BY <2>3, <3>2, PlainFrame DEF Plain
    <3>4. stack' = On2(Frame("notify", focus), Frame("sfNotified", Top.ctl), Rest)
          BY <2>5 DEF FocusKilled, On2
    <3>5. Frame("sfNotified", Top.ctl) \in Elements(stack') BY <2>2, <3>3, <3>4, TwoMore
    <3> QED BY <3>5 DEF FocusOK, FocusPending, Frame
  <2>6. CASE FocusLost
    <3>1. Top.at # "sfSet" BY <2>6 DEF FocusLost, At
    <3>2. orderly => Top.ctl \in alive \cup {None} BY <2>3, <3>1 DEF FrameOK
    <3>3. GiveFocus(Top.ctl, Rest) BY <2>6 DEF FocusLost
    <3>4. focus' # None => Frame("set", focus') \in Elements(stack')
          BY <2>2, <2>3, <3>2, <3>3, GiveFocusKeeps
    <3> QED BY <3>4 DEF FocusOK, FocusPending
  <2>7. CASE HandlerReturns
    <3>1. stack' = Rest /\ focus' = focus BY <2>7 DEF HandlerReturns
    <3>2. focused \in [Controls -> BOOLEAN] BY DEF PaintInv, PaintTypes
    <3>3. CASE Top.at = "set"
      <4>1. ASSUME focus # None, focus = Top.ctl PROVE (focused[Hearer(focus)] \/ refused)'
        <5>1. Hearer(focus) \in Controls BY <4>1, ControlsAssumption DEF Hearer, Controls, Pointer
        <5>2. Top = Frame("set", focus) BY <2>2, <3>3, <4>1 DEF Frame, Frames
        <5>3. CASE Records
          <6>1. focused' = [focused EXCEPT ![Hearer(focus)] = TRUE] BY <3>3, <4>1, <5>3 DEF Records
          <6> QED BY <3>1, <3>2, <5>1, <6>1 DEF Hearer
        <5>4. CASE Ignores BY <5>2, <5>4 DEF Ignores
        <5> QED BY <2>7, <5>3, <5>4 DEF HandlerReturns
      <4>2. ASSUME focus # None, focus # Top.ctl, FocusPending(stack) PROVE FocusPending(stack)'
        <5>1. PICK f \in Elements(stack) :
                 f = Frame("set", focus) \/ f.at \in {"sfKilled", "sfNotified"}
              BY <4>2 DEF FocusPending
        <5>2. f # Top BY <3>3, <4>2, <5>1 DEF Frame
        <5>3. f \in Elements(stack') BY <2>2, <3>1, <5>1, <5>2
        <5> QED BY <3>1, <5>1, <5>3 DEF FocusPending
      <4>3. ASSUME focus # None, focus # Top.ctl, focused[Hearer(focus)]
            PROVE  focused[Hearer(focus)]'
        <5>1. Hearer(focus) \in Controls BY <4>3, ControlsAssumption DEF Hearer, Controls, Pointer
        <5>2. focused' = focused \/ focused' = [focused EXCEPT ![Hearer(Top.ctl)] = TRUE]
              BY <2>7, <3>3 DEF HandlerReturns, Records, Ignores
        <5> QED BY <3>1, <3>2, <4>3, <5>1, <5>2 DEF Hearer
      <4>4. ASSUME focus # Top.ctl, refused PROVE refused'
        <5>1. Top # Frame("set", focus) BY <4>4 DEF Frame
        <5> QED BY <2>7, <4>4, <5>1 DEF HandlerReturns, Records, Ignores
      <4> QED BY <3>1, <4>1, <4>2, <4>3, <4>4 DEF FocusOK
    <3>4. CASE Top.at = "kill"
      <4>1. Rest # <<>> /\ Rest[1].at = "sfKilled" BY <2>2, <3>4 DEF MayPush
      <4>2. 1 \in 1 .. Len(Rest)
        <5>1. Len(Rest) \in Nat \ {0} BY <2>2, <4>1, EmptySeq DEF Well
        <5> QED BY <5>1
      <4>3. Rest[1] \in Elements(stack') BY <3>1, <4>2 DEF Elements
      <4> QED BY <4>1, <4>3 DEF FocusOK, FocusPending
    <3>5. CASE Top.at # "set" /\ Top.at # "kill"
      <4>1. focused' = focused BY <2>7, <3>5 DEF HandlerReturns, Records, Ignores
      <4>3. Top # Frame("set", focus) BY <3>5 DEF Frame
      <4>4. refused => refused' BY <2>7, <3>5, <4>3 DEF HandlerReturns, Records, Ignores
      <4>2. Top.at \in {"event", "notify"} BY <2>7, <3>5 DEF HandlerReturns, InHandler, Application
      <4> QED BY <1>4, <2>1, <3>1, <4>1, <4>2, <4>4 DEF FocusMoves
    <3> QED BY <3>3, <3>4, <3>5
  <2> QED BY <1>7, <2>4, <2>5, <2>6, <2>7 DEF Proceed
<1> QED BY <1>1, <1>2, <1>3, <1>5, <1>6, <1>7 DEF Next, Proceed

\* The control that ends up with the focus, or its dialog for it, believes that it
\* has it, unless it kept the event from being recorded itself.
THEOREM FocusBelieved == Spec => []FocusIsFocused
<1>1. Init => FocusOK BY DEF Init, FocusOK
<1>2. PaintInv /\ FocusOK /\ [Next]_vars => FocusOK'
  <2>1. ASSUME UNCHANGED vars, FocusOK PROVE FocusOK'
        BY <2>1 DEF vars, FocusOK, FocusPending, Elements, Hearer
  <2> QED BY <2>1, FocusStep
<1>3. FocusOK => FocusIsFocused
  <2> SUFFICES ASSUME FocusOK, stack = <<>>, focus # None PROVE focused[Hearer(focus)] \/ refused
      BY DEF FocusIsFocused
  <2>1. Elements(stack) = {} BY EmptySeq DEF Elements
  <2> QED BY <2>1 DEF FocusOK, FocusPending
<1> QED BY <1>1, <1>2, <1>3, PaintInvariant, PTL DEF Spec

\* A step that changes neither the capture nor the pressed control, leaves the
\* dialog's controls in it, and the end of every double click on the stack.
LEMMA CaptureStays ==
    ASSUME CaptureOK, click' = click, pressed' = pressed, captured' = captured,
           managed' = managed, pressed # None => (InDialog(pressed)' => InDialog(pressed)),
           \A f \in Elements(stack) : f.at = "click" => f \in Elements(stack')
    PROVE  CaptureOK'
<1>1. pressed' \in managed' \cup {None} /\ (click' # None => click' = pressed')
      BY DEF CaptureOK
<1>2. ASSUME captured', click' = None
      PROVE  \/ \E f \in Elements(stack') : f.at = "click"
             \/ pressed' # None /\ ~InDialog(pressed)'
      BY <1>2 DEF CaptureOK
<1> QED BY <1>1, <1>2 DEF CaptureOK, Elements, InDialog, Tree

\* Every step keeps the owner of the capture.
LEMMA CaptureStep == ASSUME PaintInv, CaptureOK, Next PROVE CaptureOK'
<1> USE PaintFacts
<1>0. TreesOK BY DEF PaintInv
<1>1. ASSUME UNCHANGED ctlVars, UNCHANGED <<root, click, captured, pressed>>,
             \A f \in Elements(stack) : f.at = "click" => f \in Elements(stack')
      PROVE  CaptureOK'
  <2>1. InDialog(pressed)' => InDialog(pressed) BY <1>1 DEF InDialog, Tree, ctlVars
  <2> QED BY <1>1, <2>1, CaptureStays DEF ctlVars
<1>2. CASE Input
  <2>1. \A f \in Elements(stack) : f.at = "click" => f \in Elements(stack')
        BY <1>2, MessagesKeep DEF StackGrows
  <2>2. ASSUME NEW c \in Controls, LButtonDown(c) PROVE CaptureOK'
    <3>1. c \in managed /\ c # None BY <2>2, DialogIsManaged DEF LButtonDown
    <3>2. click' = c /\ pressed' = c /\ managed' = managed BY <2>2 DEF LButtonDown, ctlVars
    <3> QED BY <3>1, <3>2 DEF CaptureOK
  <2>3. ASSUME NEW c \in Controls, LButtonDblClk(c) PROVE CaptureOK'
    <3>1. c \in alive /\ c \in managed /\ c \in Pointer /\ c # None
          BY <2>3, DialogIsManaged DEF LButtonDblClk
    <3>2. MayPush(Frame("click", c), stack, orderly)
          /\ MayPush(Frame("event", c), On(Frame("click", c), stack), orderly)
          BY <3>1, PlainFrame, ClickFrame DEF Plain
    <3>3. stack' = On2(Frame("event", c), Frame("click", c), stack)
          BY <2>3 DEF LButtonDblClk, On2
    <3>4. Frame("click", c) \in Elements(stack') BY <3>2, <3>3, TwoMore
    <3>5. \E f \in Elements(stack') : f.at = "click" BY <3>4 DEF Frame
    <3>6. UNCHANGED <<managed, pressed, click>> BY <2>3 DEF LButtonDblClk, ctlVars
    <3> QED BY <3>5, <3>6 DEF CaptureOK, Elements
  <2>4. ASSUME LButtonUp PROVE CaptureOK'
        BY <2>4 DEF LButtonUp, ReleaseCapture, CaptureOK
  <2>5. ASSUME NEW c \in Controls, RButtonDown(c) PROVE CaptureOK'
        BY <1>1, <2>1, <2>5 DEF RButtonDown, mouseVars
  <2>6. ASSUME NEW c \in Controls \cup {None}, MouseMove(c) PROVE CaptureOK'
        BY <1>1, <2>1, <2>6 DEF MouseMove, mouseVars
  <2>7. ASSUME KeyDown \/ KeyUp PROVE CaptureOK'
        BY <1>1, <2>1, <2>7 DEF KeyDown, KeyUp, mouseVars
  <2> QED BY <1>2, <2>2, <2>3, <2>4, <2>5, <2>6, <2>7 DEF Input
<1>3. CASE AsyncMessage \/ DrainNotify
      BY <1>1, <1>3, QueueKeeps DEF AsyncMessage, DrainNotify, mouseVars
<1>4. CASE ApplicationCall
  <2>1. \A f \in Elements(stack) : f.at = "click" => f \in Elements(stack')
        BY <1>4, CallsKeep DEF StackGrows
  <2>2. ASSUME NEW k \in Kids, Remove(k) PROVE CaptureOK'
    <3>1. /\ parent' = [parent EXCEPT ![k] = None]
          /\ UNCHANGED <<alive, managed, root, click, captured, pressed>>
          BY <2>2 DEF Remove, Unlink, mouseVars
    <3>2. parent \in [Controls -> Pointer] BY DEF PaintInv, PaintTypes
    <3>3. InDialog(pressed)' => InDialog(pressed)
          BY <3>1, <3>2 DEF InDialog, Tree
    <3> QED BY <2>1, <3>1, <3>3, CaptureStays
  <2>3. ASSUME ~\E k \in Kids : Remove(k) PROVE CaptureOK'
        BY <1>1, <1>4, <2>1, <2>3
        DEF ApplicationCall, AppSetFocus, SendAsync, AttachDialog, ModalBegin, mouseVars
  <2> QED BY <2>2, <2>3
<1>5. CASE DrainCleanup
  <2>1. /\ alive' = alive \ Doomed /\ click' = Reaped(Doomed, click, "click")
        /\ UNCHANGED <<parent, managed, root, captured, pressed>>
        BY <1>5 DEF DrainCleanup, DeleteDelayed
  <2>2. InDialog(pressed)' => InDialog(pressed) /\ pressed \notin Doomed
        BY <2>1 DEF InDialog, Tree
  <2>3. Top.at = "drain" BY <1>5 DEF DrainCleanup, At
  <2>4. \A f \in Elements(stack) : f.at = "click" => f \in Elements(stack')
        BY <1>5, <2>3, Popped, CleanupKeeps
  <2>5. CASE click \in Doomed
    <3>1. click # None BY <2>5, DoomedFacts
    <3>2. click' = None /\ pressed' = click BY <2>1, <2>5, <3>1 DEF Reaped, CaptureOK
    <3>3. ~InDialog(pressed)' BY <2>1, <2>2, <2>5, <3>2
    <3> QED BY <2>1, <3>1, <3>2, <3>3 DEF CaptureOK, InDialog, Tree
  <2>6. CASE click \notin Doomed
    <3>1. click' = click BY <2>1, <2>6 DEF Reaped
    <3> QED BY <2>1, <2>2, <2>4, <3>1, CaptureStays
  <2> QED BY <2>5, <2>6
<1>6. CASE Attached
  <2>1. Top.at = "attach" BY <1>6 DEF Attached, At
  <2> DEFINE d == Top.ctl
  <2>2. d \in Dialogs \ managed BY <2>1, Popped DEF MayPush, FrameOK
  <2>3. /\ root' = d /\ click' = None /\ managed' = managed \cup Tree(d)
        /\ UNCHANGED <<parent, captured, pressed>>
        BY <1>6 DEF Attached, ReplaceRoot
  <2> HIDE DEF d
  <2>4. \A f \in Elements(stack) : f.at = "click" => f \in Elements(stack')
        BY <1>6, <2>1, Popped, AttachedKeeps
  <2>5. ASSUME pressed # None PROVE ~InDialog(pressed)'
    <3>1. pressed \in managed BY <2>5 DEF CaptureOK
    <3>2. pressed \notin Tree(d) BY <2>2, <3>1, NewTree
    <3> QED BY <2>3, <3>2 DEF InDialog, Tree
  <2>6. captured => pressed # None \/ \E f \in Elements(stack) : f.at = "click"
        BY DEF CaptureOK
  <2>7. pressed' \in managed' \cup {None} BY <2>3 DEF CaptureOK
  <2>8. captured' => \/ \E f \in Elements(stack') : f.at = "click"
                     \/ pressed' # None /\ ~InDialog(pressed)'
        BY <2>3, <2>4, <2>5, <2>6
  <2> QED BY <2>3, <2>7, <2>8 DEF CaptureOK, InDialog, Tree, Elements
<1>7. CASE Proceed /\ ~DrainNotify /\ ~DrainCleanup /\ ~Attached
  <2>1. Elements(Rest) \subseteq Elements(stack') /\ Top.at # "idle" BY <1>7, ReturnsKeep
  <2>2. MayPush(Top, Rest, orderly) /\ Elements(stack) = {Top} \cup Elements(Rest)
        BY <2>1, Popped
  <2>3. CASE ClickSet
    <3>1. Top.at = "click" /\ click' = Top.ctl /\ pressed' = Top.ctl /\ managed' = managed
          BY <2>3 DEF ClickSet, At, ctlVars
    <3>2. Top.ctl # None /\ Top.ctl \in managed BY <2>2, <3>1 DEF MayPush, FrameOK
    <3> QED BY <3>1, <3>2 DEF CaptureOK
  <2>4. CASE ~ClickSet
    <3>1. FocusKilled \/ FocusLost \/ FocusSet \/ HoverLeft \/ HoverEntered \/ KeySet \/ KeyCleared
          \/ HandlerReturns \/ ModalEnd
          BY <1>7, <2>4 DEF Proceed
    <3>2. Top.at \in {"sfKilled", "sfNotified", "sfSet", "leave", "enter", "key", "keyUp", "modal"}
                     \cup Application
          BY <3>1 DEF FocusKilled, FocusLost, FocusSet, HoverLeft, HoverEntered, KeySet, KeyCleared,
                      HandlerReturns, ModalEnd, At, InHandler
    <3>3. Top.at # "click" BY <3>2 DEF Application
    <3>4. \A f \in Elements(stack) : f.at = "click" => f \in Elements(stack')
          BY <2>1, <2>2, <3>3
    <3>5. UNCHANGED ctlVars /\ UNCHANGED <<root, click, captured, pressed>>
          BY <3>1 DEF FocusKilled, FocusLost, FocusSet, HoverLeft, HoverEntered, KeySet, KeyCleared,
                      HandlerReturns, ModalEnd, mouseVars
    <3> QED BY <1>1, <3>4, <3>5
  <2> QED BY <2>3, <2>4
<1> QED BY <1>2, <1>3, <1>4, <1>5, <1>6, <1>7 DEF Next, Proceed

\* A capture outlives its press only when the pressed control left the dialog.
THEOREM CaptureOwned == Spec => []CaptureHasOwner
<1>1. Init => CaptureOK BY DEF Init, CaptureOK
<1>2. PaintInv /\ CaptureOK /\ [Next]_vars => CaptureOK'
  <2>1. ASSUME UNCHANGED vars, CaptureOK PROVE CaptureOK'
        BY <2>1 DEF vars, CaptureOK, Elements, InDialog, Tree
  <2> QED BY <2>1, CaptureStep
<1>3. CaptureOK => CaptureHasOwner
  <2> SUFFICES ASSUME CaptureOK, captured, click = None, stack = <<>>
               PROVE  pressed # None /\ ~InDialog(pressed)
      BY DEF CaptureHasOwner
  <2>1. Elements(stack) = {} BY EmptySeq DEF Elements
  <2> QED BY <2>1 DEF CaptureOK
<1> QED BY <1>1, <1>2, <1>3, PaintInvariant, PTL DEF Spec

=============================================================================
