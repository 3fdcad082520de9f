----------------------------- MODULE MCFMemPool -----------------------------
(* A finite instance of FMemPool: two pools, two threads, three blocks.     *)
EXTENDS FMemPool

CONSTANTS t1, t2, b1, b2, b3
=============================================================================
