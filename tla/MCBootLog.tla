------------------------------ MODULE MCBootLog -----------------------------
(* TLC instances of BootLog.                                               *)
EXTENDS BootLog

CONSTANTS r1, r2, t1, t2, d1
=============================================================================
