-------------------------- MODULE MCDaemonSocket ---------------------------
(* Bounds for DaemonSocket.                                                *)
EXTENDS DaemonSocket

CONSTANTS c1, c2, d1, d2, d3

LimitMain == [quit |-> 1, crash |-> 1]
LimitQuit == [quit |-> 1, crash |-> 0]
LimitCrash == [quit |-> 0, crash |-> 1]
=============================================================================
