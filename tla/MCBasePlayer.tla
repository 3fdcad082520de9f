---------------------------- MODULE MCBasePlayer ----------------------------
(* Finite instances of BasePlayer: two sound buffers. *)
EXTENDS BasePlayer

CONSTANTS b1, b2

HeaderDef == <<b1, b2>>

=============================================================================
