---------------------------- MODULE MCDispatcher ----------------------------
(* Instances of Dispatcher for TLC. *)
EXTENDS Dispatcher

CONSTANTS c1, c2

Fine(c) == [class |-> c, kind |-> "ok"]

\* two controllers with their actions
FineRoutes == {Fine(c1), Fine(c2)}

\* and an action that one of them does not have
MissingAction == {Fine(c1), [class |-> c1, kind |-> "noAction"]}

\* everything that can be wrong with a route
AnyRoutes == {Fine(c1)} \cup [class : {c2}, kind : Kinds \ {"ok"}]
=============================================================================
