-------------------------- MODULE MCOperationQueue --------------------------
(* Finite instances of OperationQueue.                                     *)
EXTENDS OperationQueue

=============================================================================
