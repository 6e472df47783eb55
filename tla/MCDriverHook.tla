---------------------------- MODULE MCDriverHook ----------------------------
(* TLC instances of DriverHook.                                            *)
EXTENDS DriverHook

CONSTANTS r1, r2, h1, h2, c1, c2, t1
=============================================================================
