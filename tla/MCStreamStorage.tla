-------------------------- MODULE MCStreamStorage --------------------------
(* StreamStorage on two processes and a few values. *)
EXTENDS StreamStorage

CONSTANTS p1, p2
============================================================================
