----------------------------- MODULE PaintTimers -----------------------------
(* The timers of CPaintManagerUI. A control names a timer by a number of its *)
(* own; the manager keeps a table that gives each name an id of the window   *)
(* and passes WM_TIMER on. Ids are handed out in a ring of 0xFF. A message   *)
(* that is already posted stays in the queue when its timer is killed.       *)
EXTENDS Integers, FiniteSets

CONSTANTS
    Control, LocalID,
    Nobody,        \* no timer
    IdModulus,     \* 0xFF
    FirstID,       \* 0x1000
    MaxCreated     \* bound: entries made in a behaviour

Name == Control \X LocalID
ID == 0 .. IdModulus - 1

ASSUME TimerAssumption ==
    /\ IdModulus \in Nat \ {0} /\ FirstID \in Nat /\ MaxCreated \in Nat
    /\ Nobody \notin Name

VARIABLES
    living,      \* controls that are not deleted
    m_aTimers,   \* the table; an entry knows its place in it, nth
    m_uTimerID,
    created,     \* entries made so far
    armed,       \* timers of the window: for each id, who set it
    inQueue,     \* whose WM_TIMER is in the queue, for each id
    shared,      \* history: an entry was given an id that another one had
    event        \* history: the last UIEVENT_TIMER, to whom and caused by whom

timerVars == <<living, m_aTimers, m_uTimerID, created, armed, inQueue, shared, event>>

Timer == [name : Name, uWinTimer : ID, bKilled : BOOLEAN, nth : 1 .. MaxCreated]

TimersInit ==
    /\ living = Control /\ m_aTimers = {} /\ m_uTimerID = FirstID /\ created = 0
    /\ armed = [i \in ID |-> Nobody] /\ inQueue = [i \in ID |-> Nobody] /\ shared = FALSE
    /\ event = [to |-> Nobody, by |-> Nobody]

Live(timers) == {t \in timers : ~t.bKilled}
Ids(timers) == {t.uWinTimer : t \in timers}
Without(timers) == [i \in ID |-> IF i \in Ids(timers) THEN Nobody ELSE armed[i]]

\* SetTimer for a name that the table has: only a killed timer is set again.
SetAgain(t) ==
    /\ t.bKilled
    /\ m_aTimers' = (m_aTimers \ {t}) \cup {[t EXCEPT !.bKilled = FALSE]}
    /\ armed' = [armed EXCEPT ![t.uWinTimer] = t.name]
    /\ UNCHANGED <<living, m_uTimerID, created, inQueue, shared, event>>

Known(n) == \E t \in m_aTimers : t.name = n

NextID_Size == Cardinality(m_aTimers) % IdModulus
NextID == (m_uTimerID + 1) % IdModulus

\* SetTimer for a new name; the window may refuse the timer.
SetTimer(n, accepted) ==
    /\ n[1] \in living /\ created < MaxCreated
    /\ ~Known(n)
    /\ m_uTimerID' = NextID
    /\ created' = created + 1
    /\ IF accepted
       THEN /\ m_aTimers' = m_aTimers \cup
                 {[name |-> n, uWinTimer |-> NextID, bKilled |-> FALSE, nth |-> created']}
            /\ armed' = [armed EXCEPT ![NextID] = n]
            /\ shared' = (shared \/ NextID \in Ids(m_aTimers))
       ELSE UNCHANGED <<m_aTimers, armed, shared>>
    /\ UNCHANGED <<living, inQueue, event>>

\* KillTimer(pControl, nTimerID): the entry stays and keeps its id.
KillTimer(t) ==
    /\ ~t.bKilled
    /\ m_aTimers' = (m_aTimers \ {t}) \cup {[t EXCEPT !.bKilled = TRUE]}
    /\ armed' = Without({t})
    /\ UNCHANGED <<living, m_uTimerID, created, inQueue, shared, event>>

ToKill(timers) == Live(timers)

KilledWith_Live(c) == {t \in m_aTimers : t.name[1] = c /\ ~t.bKilled}
KilledWith(c) == {t \in m_aTimers : t.name[1] = c}

\* KillTimer(pControl), called by ReapObjects when a control is deleted.
ReapObjects(c) ==
    /\ c \in living
    /\ living' = living \ {c}
    /\ m_aTimers' = m_aTimers \ KilledWith(c)
    /\ armed' = Without(ToKill(KilledWith(c)))
    /\ UNCHANGED <<m_uTimerID, created, inQueue, shared, event>>

RemoveAllTimers ==
    /\ m_aTimers # {}
    /\ m_aTimers' = {}
    /\ armed' = Without(ToKill(m_aTimers))
    /\ UNCHANGED <<living, m_uTimerID, created, inQueue, shared, event>>

Due(t, id) == t.uWinTimer = id /\ ~t.bKilled

\* The entry of the table that WM_TIMER finds: the first that is due.
Finds(t, id) == t \in m_aTimers /\ Due(t, id) /\ \A u \in m_aTimers : Due(u, id) => t.nth <= u.nth

\* The window's timer is over; the message is posted once.
Elapse(id) ==
    /\ armed[id] # Nobody /\ inQueue[id] = Nobody
    /\ inQueue' = [inQueue EXCEPT ![id] = armed[id]]
    /\ UNCHANGED <<living, m_aTimers, m_uTimerID, created, armed, shared, event>>

WM_TIMER(id) ==
    /\ inQueue[id] # Nobody
    /\ inQueue' = [inQueue EXCEPT ![id] = Nobody]
    /\ \/ \E t \in m_aTimers : Finds(t, id) /\ event' = [to |-> t.name, by |-> inQueue[id]]
       \/ /\ ~ \E t \in m_aTimers : Due(t, id)
          /\ UNCHANGED event
    /\ UNCHANGED <<living, m_aTimers, m_uTimerID, created, armed, shared>>

TimersNext ==
    \/ \E n \in Name, accepted \in BOOLEAN : SetTimer(n, accepted)
    \/ \E t \in m_aTimers : SetAgain(t) \/ KillTimer(t)
    \/ \E c \in Control : ReapObjects(c)
    \/ RemoveAllTimers
    \/ \E id \in ID : Elapse(id) \/ WM_TIMER(id)

TimersSpec == TimersInit /\ [][TimersNext]_timerVars

-----------------------------------------------------------------------------
\* The variables have their types; a name is in the table once.
TypeOK ==
    /\ living \subseteq Control /\ m_aTimers \subseteq Timer
    /\ \A t, u \in m_aTimers : t.name = u.name => t = u
    /\ m_uTimerID \in Nat /\ created \in 0 .. MaxCreated
    /\ armed \in [ID -> Name \cup {Nobody}] /\ inQueue \in [ID -> Name \cup {Nobody}]
    /\ shared \in BOOLEAN
    /\ event \in [to : Name \cup {Nobody}, by : Name \cup {Nobody}]

\* The table never leads WM_TIMER to a deleted control.
SendersAlive == \A t \in m_aTimers : t.name[1] \in living

\* Two timers have the same id of the window only if they were made at least a
\* whole ring of ids apart, killed ones included.
IdsFarApart ==
    \A t, u \in m_aTimers :
       t.uWinTimer = u.uWinTimer /\ t.nth < u.nth => u.nth - t.nth >= IdModulus

\* The window has no timer that the table does not know to be live; and as long
\* as no id was given twice, it has all of those.
WindowAgrees ==
    /\ \A id \in ID : armed[id] # Nobody => id \in Ids(Live(m_aTimers))
    /\ ~shared => \A t \in Live(m_aTimers) : armed[t.uWinTimer] = t.name

\* A control gets no timer event of another timer, not even from a message that
\* was posted before a timer was killed: in the first ring of ids.
EventOfItsOwn == created <= IdModulus => event.to = event.by
=============================================================================
