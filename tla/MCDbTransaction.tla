-------------------------- MODULE MCDbTransaction --------------------------
(* Instances of DbTransaction for TLC. *)
EXTENDS DbTransaction, TLC

CONSTANTS e1, e2, e3

\* Effects are only compared with one another.
Interchangeable == Permutations(Effects)
=============================================================================
