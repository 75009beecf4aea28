---------------------------- MODULE MCModelSave ----------------------------
(* Instances of ModelSave for TLC. *)
EXTENDS ModelSave

CONSTANTS a, b, c

\* a belongs to b and has a child c
Fan == [roots |-> {a}, belongs |-> {<<a, b>>}, many |-> {<<a, c>>}, joins |-> {}]

\* the child refers back to its parent; either end may be saved first
BothWays == [roots |-> {a, c}, belongs |-> {<<c, a>>}, many |-> {<<a, c>>}, joins |-> {}]

\* two levels of parents
Upwards == [roots |-> {a, b}, belongs |-> {<<a, b>>, <<b, c>>}, many |-> {}, joins |-> {}]

\* two levels of children
Downwards == [roots |-> {a, b}, belongs |-> {}, many |-> {<<a, b>>, <<b, c>>}, joins |-> {}]

\* a record and its child that belong to the same parent
Diamond == [roots |-> {a}, belongs |-> {<<a, b>>, <<c, b>>}, many |-> {<<a, c>>}, joins |-> {}]

\* a has the record b through the intermediate record c
Through == [roots |-> {a}, belongs |-> {}, many |-> {<<a, b>>, <<a, c>>}, joins |-> {<<c, b>>}]

\* two records that own a third one, and that it belongs to
TwoParents == [roots |-> {c}, belongs |-> {<<c, a>>, <<c, b>>}, many |-> {<<a, c>>, <<b, c>>},
               joins |-> {}]

AllShapes == {Fan, BothWays, Upwards, Downwards, Diamond, Through, TwoParents}
=============================================================================
