--------------------------- MODULE MCModelDelete ---------------------------
(* Instances of ModelDelete for TLC. *)
EXTENDS ModelDelete

CONSTANTS a, b, c, e

\* a owns b, b owns c
Chain == [roots |-> {a}, sets |-> {{a, b}, {c}}, one |-> {}, many |-> {<<a, b>>, <<b, c>>},
          restrict |-> {}]

\* a owns b by a has-one relation and c by a has-many relation
Both == [roots |-> {a}, sets |-> {{a, b}}, one |-> {<<a, b>>}, many |-> {<<a, c>>},
         restrict |-> {}]

\* a owns b and c, and c keeps b
Kept == [roots |-> {a, b}, sets |-> {{b, c}}, one |-> {}, many |-> {<<a, b>>, <<a, c>>},
         restrict |-> {<<b, c>>}]

\* a and b own each other
Mutual == [roots |-> {a}, sets |-> {{a, b}}, one |-> {}, many |-> {<<a, b>>, <<b, a>>},
           restrict |-> {}]

\* a owns b and c, which both own e
Diamond == [roots |-> {a, b}, sets |-> {{b, c}}, one |-> {<<b, e>>},
            many |-> {<<a, b>>, <<a, c>>, <<c, e>>}, restrict |-> {}]

AllShapes == {Chain, Both, Kept, Mutual, Diamond}
=============================================================================
