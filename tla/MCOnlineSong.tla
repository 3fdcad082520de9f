---------------------------- MODULE MCOnlineSong ----------------------------
(* A finite instance of OnlineSong: two songs. *)
EXTENDS OnlineSong

CONSTANTS s1, s2
=============================================================================
