------------------------------- MODULE MCTxPipe -------------------------------
(* Instances of TxPipe: a parent p and its child c. *)
EXTENDS TxPipe

CONSTANTS p, c, b1, b2

MCParents == [t \in Tx |-> IF t = c THEN {p} ELSE {}]
MCTxBytes == [t \in Tx |-> 1]
================================================================================
