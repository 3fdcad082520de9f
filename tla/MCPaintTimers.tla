---------------------------- MODULE MCPaintTimers ----------------------------
EXTENDS PaintTimers, TLC

CONSTANTS c1, c2
=============================================================================
