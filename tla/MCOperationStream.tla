------------------------- MODULE MCOperationStream --------------------------
(***************************************************************************)
(* The instances of OperationStream that the configurations give.          *)
(***************************************************************************)
EXTENDS OperationStream
=============================================================================
