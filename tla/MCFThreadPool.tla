---------------------------- MODULE MCFThreadPool ---------------------------
(* A finite instance of FThreadPool: two threads, two clients, four tasks.  *)
EXTENDS FThreadPool

CONSTANTS w1, w2, c1, c2, o1, o2, o3, o4
=============================================================================
