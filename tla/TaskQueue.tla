----------------------------- MODULE TaskQueue ------------------------------
(***************************************************************************)
(* What COperationQueue promises its callers, without threads to wake,     *)
(* locks or polling: operations begin in list order, each at most once, at *)
(* most MaxConcurrency at a time; nothing begins after stop() is called;   *)
(* a call of stop() returns only when nothing is pending and nothing but   *)
(* the operation that called it is executing.                              *)
(***************************************************************************)
EXTENDS Integers, Sequences, FiniteSets

CONSTANTS Workers, Clients, Ops, NoOp, MaxConcurrency

VARIABLES
    accepting,  \* stop() has not been called
    pending,    \* operations waiting, in the order they will begin
    exec,       \* the operation each worker executes, or NoOp
    quiet,      \* callers of stop() that have been answered
    fate        \* what has become of each operation

absVars == <<accepting, pending, exec, quiet, fate>>

AbsInit ==
    /\ accepting = TRUE
    /\ pending = <<>>
    /\ exec = [w \in Workers |-> NoOp]
    /\ quiet = {}
    /\ fate = [o \in Ops |-> "fresh"]

Busy == {w \in Workers : exec[w] # NoOp}

Accept(o) ==
    /\ accepting
    /\ fate[o] = "fresh"
    /\ pending' \in {Append(pending, o), <<o>> \o pending}
    /\ fate' = [fate EXCEPT ![o] = "queued"]
    /\ accepting' = accepting /\ quiet' = quiet
    /\ UNCHANGED exec

Refuse(o) ==
    /\ ~accepting
    /\ fate[o] = "fresh"
    /\ fate' = [fate EXCEPT ![o] = "refused"]
    /\ accepting' = accepting /\ quiet' = quiet
    /\ UNCHANGED <<pending, exec>>

Begin(w) ==
    /\ accepting
    /\ pending # <<>>
    /\ exec[w] = NoOp
    /\ Cardinality(Busy) < MaxConcurrency
    /\ exec' = [exec EXCEPT ![w] = Head(pending)]
    /\ pending' = Tail(pending)
    /\ fate' = [fate EXCEPT ![Head(pending)] = "running"]
    /\ accepting' = accepting /\ quiet' = quiet

Finish(w) ==
    /\ exec[w] # NoOp
    /\ exec' = [exec EXCEPT ![w] = NoOp]
    /\ fate' = [fate EXCEPT ![exec[w]] = "done"]
    /\ accepting' = accepting /\ quiet' = quiet
    /\ UNCHANGED pending

Drop ==
    /\ pending' = <<>>
    /\ fate' = [o \in Ops |-> IF fate[o] = "queued" THEN "cancelled" ELSE fate[o]]
    /\ accepting' = accepting /\ quiet' = quiet
    /\ UNCHANGED exec

Close ==
    /\ accepting' = FALSE
    /\ quiet' = quiet
    /\ UNCHANGED <<pending, exec, fate>>

(* stop() returns to thread t. *)
Quiesce(t) ==
    /\ ~accepting
    /\ pending = <<>>
    /\ Busy \subseteq {t}
    /\ quiet' = quiet \cup {t}
    /\ accepting' = accepting
    /\ UNCHANGED <<pending, exec, fate>>

AbsNext ==
    \/ \E o \in Ops : Accept(o) \/ Refuse(o)
    \/ \E w \in Workers : Begin(w) \/ Finish(w)
    \/ Drop \/ Close
    \/ \E t \in Clients \cup Workers : Quiesce(t)

AbsSpec == AbsInit /\ [][AbsNext]_absVars

=============================================================================
