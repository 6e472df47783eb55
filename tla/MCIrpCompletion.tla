--------------------------- MODULE MCIrpCompletion --------------------------
(* TLC instances of IrpCompletion.                                         *)
EXTENDS IrpCompletion

CONSTANTS i1, i2
=============================================================================
