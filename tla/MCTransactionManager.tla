------------------------ MODULE MCTransactionManager ------------------------
(* Instances of TransactionManager for TLC. *)
EXTENDS TransactionManager, TLC

CONSTANTS e1, e2, e3

\* Effects are only compared with one another.
Interchangeable == Permutations(Effects)
=============================================================================
