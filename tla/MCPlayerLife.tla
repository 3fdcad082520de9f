---------------------------- MODULE MCPlayerLife ----------------------------
(* A finite instance of PlayerLife. *)
EXTENDS PlayerLife
=============================================================================
