---------------------------- MODULE MCLuaAVPlayer ----------------------------
(* A finite instance of LuaAVPlayer and of the list it uses.                 *)
EXTENDS LuaAVPlayer

CONSTANTS p1, p2

TasksDef == Player \X Kind
=============================================================================
