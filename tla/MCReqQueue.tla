---------------------------- MODULE MCReqQueue ------------------------------
(* TLC instances of ReqQueue.                                              *)
EXTENDS ReqQueue, TLC

CONSTANTS p1, p2, c1, c2, r1, r2, r3

\* Records of one kind are interchangeable.
KindSymmetry == Permutations(Paged) \cup Permutations(Requests \ Paged)
=============================================================================
