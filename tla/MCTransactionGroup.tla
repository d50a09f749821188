------------------------- MODULE MCTransactionGroup -------------------------
(* A group of up to three layers. *)
EXTENDS TransactionGroup

CONSTANTS l1, l2, l3
=============================================================================
