---------------------------- MODULE MCWriteLoop ----------------------------
(* An int of 3 bits and every length up to beyond twice its range. *)
EXTENDS WriteLoop

AllLengths == 0..17
=============================================================================
