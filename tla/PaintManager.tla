---------------------------- MODULE PaintManager ----------------------------
(***************************************************************************)
(* CPaintManagerUI: the life of controls and the pointers the manager      *)
(* keeps to them (focus, hover, click, key, queued notifications, delayed  *)
(* cleanup) while window messages are dispatched on one thread.            *)
(*                                                                         *)
(* All the difficulty is reentrancy.  Delivering an event or a             *)
(* notification runs application code, which may remove controls, attach   *)
(* another dialog, move the focus, send notifications or run a message     *)
(* loop of its own, before the manager's code continues with what it read  *)
(* earlier.  stack is the call stack, innermost frame first: a frame of    *)
(* the application's code ("event", "kill", "set", "notify"), a point at   *)
(* which the manager will continue, or a nested message loop ("modal").    *)
(* One action is the code between two calls of application code.           *)
(***************************************************************************)
EXTENDS Integers, Sequences, FiniteSets

CONSTANTS
    Dialogs,             \* root controls, each attached at most once
    Kids,                \* the other controls
    Home,                \* Home[k]: the dialog that contains k
    First,               \* the dialog attached before the first message
    Bound,               \* controls whose dialog takes their events
                         \* (m_pBindEventCtrl)
    None,                \* a null pointer
    MaxCalls,            \* bound: calls the application makes in a behaviour
    NestedLoops          \* the application may run a message loop in a handler

Controls == Dialogs \cup Kids

ASSUME ControlsAssumption ==
    /\ IsFiniteSet(Controls) /\ Dialogs \cap Kids = {} /\ None \notin Controls
    /\ Home \in [Kids -> Dialogs] /\ First \in Dialogs
    /\ Bound \subseteq Kids
ASSUME BoundsAssumption == MaxCalls \in Nat /\ NestedLoops \in BOOLEAN

VARIABLES
    alive,     \* controls that have not been deleted
    parent,    \* the container that lists each control in m_items, or None
    managed,   \* controls whose m_pManager is this manager
    focused,   \* m_bFocused of each control
    root,      \* m_pRoot
    focus,     \* m_pFocus
    hover,     \* m_pEventHover
    click,     \* m_pEventClick
    key,       \* m_pEventKey
    captured,  \* m_bMouseCapture
    pressed,   \* history: m_pEventClick as last set, None once released
    delayed,   \* m_aDelayedCleanup
    async,     \* m_aAsyncNotify: the pSender of each queued notification
    posted,    \* m_bAsyncNotifyPosted
    inbox,     \* WM_APP+1 messages in the window's queue
    stack,     \* the call stack
    calls,     \* calls the application has made
    orderly,   \* history: no loop was nested and no dialog attached while a
               \* cleanup was pending
    refused    \* history: m_pFocus did not record the last SETFOCUS it was told

ctlVars == <<alive, parent, managed>>
mouseVars == <<hover, click, captured, pressed>>
queueVars == <<delayed, async, posted, inbox>>
appVars == <<calls, orderly, refused>>
vars == <<alive, parent, managed, focused, root, focus, hover, click, key,
          captured, pressed, delayed, async, posted, inbox, stack, calls,
          orderly, refused>>

Frame(at, c) == [at |-> at, ctl |-> c]
Application == {"event", "kill", "set", "notify"}

(* The innermost frame; "idle" when the thread is in its main message loop. *)
Top == IF stack = <<>> THEN Frame("idle", None) ELSE Head(stack)
Rest == Tail(stack)
At(p) == Top.at = p

(* The thread is in GetMessage, of the main loop or of a nested one. *)
Pumping == Top.at \in {"idle", "modal"}

Tree(c) == {x \in Controls : x = c \/ parent[x] = c}
InDialog(c) == c \in alive /\ root # None /\ c \in Tree(root)
Elements(s) == {s[i] : i \in 1 .. Len(s)}

Init ==
    /\ alive = Controls
    /\ parent = [c \in Controls |-> IF c \in Kids THEN Home[c] ELSE None]
    /\ managed = {c \in Controls : c = First \/ (c \in Kids /\ Home[c] = First)}
    /\ focused = [c \in Controls |-> FALSE]
    /\ root = First
    /\ focus = None /\ hover = None /\ click = None /\ key = None
    /\ captured = FALSE /\ pressed = None
    /\ delayed = <<>> /\ async = <<>>
    /\ posted = FALSE /\ inbox = 0
    /\ stack = <<>>
    /\ calls = 0
    /\ orderly = TRUE /\ refused = FALSE

-----------------------------------------------------------------------------
(* Deleting controls *)

(* PostAsyncNotify: one WM_APP+1 until it is handled. *)
PostAsyncNotify ==
    /\ posted' = TRUE
    /\ inbox' = IF posted THEN inbox ELSE inbox + 1

(* ReapObjects, for every control of the set dead: no pointer of the       *)
(* manager is left on them.                                                *)
Reaped(dead, p, which) == IF p \in dead THEN None ELSE p

(* Delete() of every control in the list: a container deletes its items.   *)
Doomed == UNION {Tree(c) : c \in Elements(delayed)}

DeleteDelayed ==
    /\ alive' = alive \ Doomed
    /\ delayed' = <<>>

(* AddDelayedCleanup: deleted by the next WM_APP+1, asked for at once. *)
(* Mutant: no message is posted. *)
AddDelayedCleanup_Quiet(c) == delayed' = Append(delayed, c) /\ UNCHANGED <<posted, inbox>>
AddDelayedCleanup(c) == delayed' = Append(delayed, c) /\ PostAsyncNotify

(* Mutant: the control stays among the items of its container. *)
Unlink_Listed(k) == UNCHANGED parent
Unlink(k) == parent' = [parent EXCEPT ![k] = None]

(* The tree that AttachDialog replaces is queued for deletion, after what  *)
(* was queued before it has been deleted.                                  *)
(* Mutant: it is deleted as well. *)
ReplaceRoot_AtOnce(d) ==
    alive' = alive \ (Doomed \cup Tree(root)) /\ delayed' = <<>> /\ root' = d
ReplaceRoot(d) ==
    /\ alive' = alive \ Doomed
    /\ delayed' = <<root>>
    /\ root' = d

-----------------------------------------------------------------------------
(* SetFocus.  It is called with the frames it returns to, and continues at *)
(* sfKilled, sfNotified and sfSet as the handlers it runs return.          *)

Focusable(c) == c \in managed

(* Mutant: only the listeners are told. *)
GiveFocus_NotTold(c, s) ==
    IF c # None /\ Focusable(c)
      THEN focus' = c /\ stack' = <<Frame("sfSet", c)>> \o s
      ELSE focus' = None /\ stack' = s
(* m_pFocus = pControl; the control is told, then the listeners. *)
GiveFocus(c, s) ==
    IF c # None /\ Focusable(c)
      THEN focus' = c /\ stack' = <<Frame("set", c), Frame("sfSet", c)>> \o s
      ELSE focus' = None /\ stack' = s

SetFocus(c, s) ==
    IF c = focus
      THEN stack' = s /\ UNCHANGED focus
      ELSE IF focus # None
        THEN /\ stack' = <<Frame("kill", focus), Frame("sfKilled", c)>> \o s
             /\ UNCHANGED focus
        ELSE GiveFocus(c, s)

FocusKilled ==
    /\ At("sfKilled")
    /\ stack' = <<Frame("notify", focus), Frame("sfNotified", Top.ctl)>> \o Rest
    /\ UNCHANGED <<ctlVars, focused, root, focus, key, mouseVars, queueVars, appVars>>

FocusLost ==
    /\ At("sfNotified")
    /\ GiveFocus(Top.ctl, Rest)
    /\ UNCHANGED <<ctlVars, focused, root, key, mouseVars, queueVars, appVars>>

FocusSet ==
    /\ At("sfSet")
    /\ stack' = <<Frame("notify", focus)>> \o Rest
    /\ UNCHANGED <<ctlVars, focused, root, focus, key, mouseVars, queueVars, appVars>>

-----------------------------------------------------------------------------
(* Window messages.  c is what FindControl returns for the mouse position. *)

LButtonDown(c) ==
    /\ Pumping /\ InDialog(c)
    /\ click' = c
    /\ captured' = TRUE
    /\ pressed' = c
    /\ SetFocus(c, <<Frame("event", c)>> \o stack)
    /\ UNCHANGED <<ctlVars, focused, root, hover, key, queueVars, appVars>>

LButtonDblClk(c) ==
    /\ Pumping /\ InDialog(c)
    /\ captured' = TRUE
    /\ stack' = <<Frame("event", c), Frame("click", c)>> \o stack
    /\ UNCHANGED <<ctlVars, focused, root, focus, hover, click, key, pressed,
                   queueVars, appVars>>

RButtonDown(c) ==
    /\ Pumping /\ InDialog(c)
    /\ SetFocus(c, <<Frame("event", c), Frame("click", c)>> \o stack)
    /\ UNCHANGED <<ctlVars, focused, root, key, mouseVars, queueVars, appVars>>

(* m_pEventClick = pControl, after the event. *)
ClickSet ==
    /\ At("click")
    /\ click' = Top.ctl
    /\ pressed' = Top.ctl
    /\ stack' = Rest
    /\ UNCHANGED <<ctlVars, focused, root, focus, hover, key, captured, queueVars,
                   appVars>>

(* Mutant: the capture is kept. *)
ReleaseCapture_Never == UNCHANGED captured
ReleaseCapture == captured' = FALSE

(* Nothing, not even the capture, is released when no control is pressed.  *)
(* m_pEventClick is cleared before the event, not after it.                *)
LButtonUp ==
    /\ Pumping /\ click # None
    /\ ReleaseCapture
    /\ pressed' = None
    /\ click' = None
    /\ stack' = <<Frame("event", click)>> \o stack
    /\ UNCHANGED <<ctlVars, focused, root, focus, hover, key, queueVars, appVars>>

(* The last part of WM_MOUSEMOVE, for the hover control of that moment. *)
MoveEvent(c, s) ==
    stack' = IF click # None THEN <<Frame("event", click)>> \o s
             ELSE IF c # None THEN <<Frame("event", c)>> \o s
             ELSE s

(* The part after the old hover control was told. *)
EnterHover(c, s) ==
    IF c # None THEN stack' = <<Frame("event", c), Frame("enter", c)>> \o s
                ELSE MoveEvent(c, s)

MouseMove(c) ==
    /\ Pumping /\ root # None
    /\ c = None \/ InDialog(c)
    /\ IF captured \/ c = hover THEN MoveEvent(c, stack)
       ELSE IF hover # None
         THEN stack' = <<Frame("event", hover), Frame("leave", c)>> \o stack
         ELSE EnterHover(c, stack)
    /\ UNCHANGED <<ctlVars, focused, root, focus, key, mouseVars, queueVars, appVars>>

HoverLeft ==
    /\ At("leave")
    /\ hover' = None
    /\ EnterHover(Top.ctl, Rest)
    /\ UNCHANGED <<ctlVars, focused, root, focus, key, click, captured, pressed,
                   queueVars, appVars>>

HoverEntered ==
    /\ At("enter")
    /\ hover' = Top.ctl
    /\ MoveEvent(Top.ctl, Rest)
    /\ UNCHANGED <<ctlVars, focused, root, focus, key, click, captured, pressed,
                   queueVars, appVars>>

KeyDown ==
    /\ Pumping /\ root # None /\ focus # None
    /\ stack' = <<Frame("event", focus), Frame("key", None)>> \o stack
    /\ UNCHANGED <<ctlVars, focused, root, focus, key, mouseVars, queueVars, appVars>>

(* m_pEventKey = m_pFocus, read after the event. *)
KeySet ==
    /\ At("key")
    /\ key' = focus
    /\ stack' = Rest
    /\ UNCHANGED <<ctlVars, focused, root, focus, mouseVars, queueVars, appVars>>

KeyUp ==
    /\ Pumping /\ root # None /\ key # None
    /\ stack' = <<Frame("event", key), Frame("keyUp", None)>> \o stack
    /\ UNCHANGED <<ctlVars, focused, root, focus, key, mouseVars, queueVars, appVars>>

KeyCleared ==
    /\ At("keyUp")
    /\ key' = None
    /\ stack' = Rest
    /\ UNCHANGED <<ctlVars, focused, root, focus, mouseVars, queueVars, appVars>>

(* WM_APP+1. *)
AsyncMessage ==
    /\ Pumping /\ inbox > 0
    /\ inbox' = inbox - 1
    /\ posted' = FALSE
    /\ stack' = <<Frame("drain", None)>> \o stack
    /\ UNCHANGED <<ctlVars, focused, root, focus, key, mouseVars, delayed, async, appVars>>

DrainNotify ==
    /\ At("drain") /\ async # <<>>
    /\ async' = Tail(async)
    /\ stack' = <<Frame("notify", Head(async))>> \o stack
    /\ UNCHANGED <<ctlVars, focused, root, focus, key, mouseVars, delayed, posted,
                   inbox, appVars>>

DrainCleanup ==
    /\ At("drain") /\ async = <<>>
    /\ DeleteDelayed
    /\ key' = Reaped(Doomed, key, "key")
    /\ hover' = Reaped(Doomed, hover, "hover")
    /\ click' = Reaped(Doomed, click, "click")
    /\ focus' = Reaped(Doomed, focus, "focus")
    /\ stack' = Rest
    /\ UNCHANGED <<parent, managed, focused, root, captured, pressed, async, posted,
                   inbox, appVars>>

-----------------------------------------------------------------------------
(* Application code: what a handler may do before it returns. *)

InHandler == Top.at \in Application
Call(inOrder) ==
    /\ InHandler
    /\ calls < MaxCalls
    /\ calls' = calls + 1
    /\ orderly' = (orderly /\ inOrder)
    /\ UNCHANGED refused

(* Whose DoEvent takes the events of c. *)
Hearer(c) == IF c \in Bound THEN Home[c] ELSE c

(* CControlUI::DoEvent records the focus, its own or that of a control bound to it... *)
Records ==
    /\ focused' = CASE Top.at = "set" -> [focused EXCEPT ![Hearer(Top.ctl)] = TRUE]
                    [] Top.at = "kill" -> [focused EXCEPT ![Hearer(Top.ctl)] = FALSE]
                    [] OTHER -> focused
    /\ refused' = (refused /\ Top # Frame("set", focus))

(* ...unless a listener of OnEvent has refused the event, or the DoEvent of the *)
(* control's class returns before it.                                           *)
Ignores ==
    /\ Top.at \in {"set", "kill"}
    /\ refused' = (refused \/ Top = Frame("set", focus))
    /\ UNCHANGED focused

(* The handler returns. *)
HandlerReturns ==
    /\ InHandler
    /\ Records \/ Ignores
    /\ stack' = Rest
    /\ UNCHANGED <<ctlVars, root, focus, key, mouseVars, queueVars, calls, orderly>>

(* AttachDialog deletes what is queued when its handlers have returned. *)
Attaching == \E i \in 1 .. Len(stack) : stack[i].at = "attach"

(* CContainerUI::Remove: out of the container, deleted later. *)
Remove(k) ==
    /\ Call(~Attaching)
    /\ k \in Kids \cap managed \cap alive /\ parent[k] # None
    /\ Unlink(k)
    /\ AddDelayedCleanup(k)
    /\ UNCHANGED <<alive, managed, focused, root, focus, key, mouseVars, async, stack>>

AppSetFocus(c) ==
    /\ Call(TRUE)
    /\ InDialog(c) \/ c = None
    /\ SetFocus(c, stack)
    /\ UNCHANGED <<ctlVars, focused, root, key, mouseVars, queueVars>>

(* SendNotify(..., bAsync = true, bEnableRepeat = repeat). *)
SendAsync(c, repeat) ==
    /\ Call(TRUE)
    /\ InDialog(c)
    /\ IF ~repeat /\ c \in Elements(async)
         THEN UNCHANGED <<async, posted, inbox>>
         ELSE async' = Append(async, c) /\ PostAsyncNotify
    /\ UNCHANGED <<ctlVars, focused, root, focus, key, mouseVars, delayed, stack>>

(* AttachDialog gives up the focus first, which runs handlers. *)
AttachDialog(d) ==
    /\ Call(~Attaching /\ delayed = <<>>)
    /\ d \in Dialogs \ managed
    /\ \A i \in 1 .. Len(stack) : stack[i] # Frame("attach", d)
    /\ SetFocus(None, <<Frame("attach", d)>> \o stack)
    /\ UNCHANGED <<ctlVars, focused, root, key, mouseVars, queueVars>>

(* The focus is gone: the trees are exchanged, queued notifications dropped. *)
Attached ==
    /\ At("attach")
    /\ ReplaceRoot(Top.ctl)
    /\ async' = <<>>
    /\ PostAsyncNotify
    /\ key' = None /\ hover' = None /\ click' = None
    /\ focus' = Reaped(Doomed, focus, "focus")
    /\ managed' = managed \cup Tree(Top.ctl)
    /\ stack' = Rest
    /\ UNCHANGED <<parent, focused, captured, pressed, appVars>>

(* DoModal, MessageBox, a popup menu: messages are dispatched until it ends.  *)
(* Bound: one such loop at a time.                                            *)
ModalBegin ==
    /\ NestedLoops /\ \A i \in 1 .. Len(stack) : stack[i].at # "modal"
    /\ Call(FALSE)
    /\ stack' = <<Frame("modal", None)>> \o stack
    /\ UNCHANGED <<ctlVars, focused, root, focus, key, mouseVars, queueVars>>

ModalEnd ==
    /\ At("modal")
    /\ stack' = Rest
    /\ UNCHANGED <<ctlVars, focused, root, focus, key, mouseVars, queueVars, appVars>>

-----------------------------------------------------------------------------

Input ==
    \/ \E c \in Controls : LButtonDown(c) \/ LButtonDblClk(c) \/ RButtonDown(c)
    \/ \E c \in Controls \cup {None} : MouseMove(c)
    \/ LButtonUp \/ KeyDown \/ KeyUp

ApplicationCall ==
    \/ \E k \in Kids : Remove(k)
    \/ \E c \in Controls \cup {None} : AppSetFocus(c)
    \/ \E c \in Controls, repeat \in BOOLEAN : SendAsync(c, repeat)
    \/ \E d \in Dialogs : AttachDialog(d)
    \/ ModalBegin

(* What the thread does by itself, without input or a decision to call. *)
Proceed ==
    \/ FocusKilled \/ FocusLost \/ FocusSet
    \/ ClickSet \/ HoverLeft \/ HoverEntered \/ KeySet \/ KeyCleared
    \/ DrainNotify \/ DrainCleanup \/ Attached
    \/ HandlerReturns \/ ModalEnd

Next == Input \/ AsyncMessage \/ ApplicationCall \/ Proceed

Spec == Init /\ [][Next]_vars

-----------------------------------------------------------------------------
(* Properties *)

(* No pointer the manager keeps between messages is left on a deleted      *)
(* control: those set before a handler, those set after it from a local,   *)
(* the senders of queued notifications, and the list of delayed cleanup.   *)
PointersAlive ==
    /\ {root, focus, hover, click, key} \subseteq alive \cup {None}
    /\ Elements(async) \cup Elements(delayed) \subseteq alive

(* No control is deleted while its own code, or code that will use it when *)
(* a handler returns, is on the call stack, whatever the application does.  *)
RunningCodeAlive ==
    \A i \in 1 .. Len(stack) :
        stack[i].at # "sfSet" => stack[i].ctl \in alive \cup {None}

(* Neither a pointer the manager keeps nor code on the stack is left with  *)
(* a deleted control, as long as the application nests no message loop and *)
(* attaches no dialog while a cleanup is pending.                          *)
NothingDangles == orderly => PointersAlive /\ RunningCodeAlive

(* A control is queued for deletion once and is out of the tree by then:   *)
(* no part of it is deleted twice.                                         *)
CleanedOnce ==
    /\ \A i, j \in 1 .. Len(delayed) :
         i # j => Tree(delayed[i]) \cap Tree(delayed[j]) = {}
    /\ root \notin Doomed

(* What is queued is going to be handled: a WM_APP+1, and only one, is in  *)
(* the window's queue, or one is being handled further out on the stack.   *)
WorkIsPosted ==
    /\ inbox = IF posted THEN 1 ELSE 0
    /\ delayed # <<>> \/ async # <<>> =>
         posted \/ \E i \in 1 .. Len(stack) : stack[i].at = "drain"

(* A capture taken for a press is released with it: it outlives the press  *)
(* only when the pressed control has been removed from the dialog.         *)
CaptureHasOwner ==
    captured /\ click = None /\ stack = <<>> => pressed # None /\ ~InDialog(pressed)

(* Whatever handlers of SetFocus do to the focus themselves, the control    *)
(* that ends up as m_pFocus, or the one its events are bound to, believes  *)
(* that it has the focus (m_bFocused), unless its own listener or class    *)
(* kept the event from being recorded.  Others may believe it too: a       *)
(* handler that moves the focus while it is being moved leaves one behind. *)
FocusIsFocused == stack = <<>> /\ focus # None => focused[Hearer(focus)] \/ refused

=============================================================================
