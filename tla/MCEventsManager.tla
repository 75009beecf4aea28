-------------------------- MODULE MCEventsManager --------------------------
(* Instances of EventsManager for TLC. *)
EXTENDS EventsManager, TLC

Interchangeable == Permutations(Handlers \ Deaf)
=============================================================================
