------------------------------ MODULE MCBundler ------------------------------
(* Layers of refs, as content addressing makes them: 1 the meta type of        *)
(* records, 2 another builtin type (strings, or associations), both phony      *)
(* typed; 3, 4 record types; 5, 6 values; 7 an association.                    *)
EXTENDS Bundler

SevenRefs == 1 .. 7

\* Fields of the two record types may share a type; values refer to values.
Plain ==
    {[type |-> [r \in SevenRefs |-> CASE r \in {1, 2} -> Phony [] r \in {3, 4} -> 1 [] r = 5 -> t5 [] OTHER -> t6],
      deps |-> [r \in SevenRefs |-> CASE r = 3 -> d3 [] r = 4 -> d4 [] r = 6 -> <<5>> [] OTHER -> <<>>],
      assoc |-> [r \in SevenRefs \cup {Phony} |-> {}]] :
        t5 \in 2 .. 4, t6 \in 3 .. 4,
        d3 \in {<<>>, <<2>>, <<2, 2>>}, d4 \in {<<>>, <<2>>, <<2, 2>>, <<2, 3>>, <<3, 3>>}}

\* Values that also refer to types, and an association that may be attached to a
\* type or a value.
General ==
    {[type |-> [r \in SevenRefs |-> CASE r \in {1, 2} -> Phony [] r \in {3, 4} -> 1 [] r = 5 -> t5
                                      [] r = 6 -> t6 [] r = 7 -> 2],
      deps |-> [r \in SevenRefs |-> CASE r = 4 -> <<2, 3, 3>> [] r = 5 -> d5 [] r = 6 -> d6
                                      [] r = 7 -> <<base, item>> [] OTHER -> <<>>],
      assoc |-> [r \in SevenRefs \cup {Phony} |-> IF r = base /\ attached THEN {7} ELSE {}]] :
        t5 \in 3 .. 4, t6 \in 3 .. 4, d5 \in {<<>>, <<3>>, <<4>>, <<4, 3>>},
        d6 \in {<<>>, <<3>>, <<4, 5>>, <<5, 4>>, <<5, 5>>, <<3, 5, 4>>},
        base \in 3 .. 6, item \in {5, 6}, attached \in BOOLEAN}

TwoRoots   == {<<6>>, <<5, 6>>}
NoneSeen   == {{}}
SomeSeen   == {{}, {1}, {1, 3}}
Sizes      == [r \in SevenRefs |-> IF r = 5 THEN 3 ELSE 1]

NoLimit    == [size |-> 0, refs |-> 20, missing |-> {}]
Unlimited  == {NoLimit}
\* A ref that nobody knows, a size limit in the middle of the graph, few refs.
Limited    == {NoLimit, [NoLimit EXCEPT !.size = 5], [NoLimit EXCEPT !.size = 5, !.missing = {3}],
               [NoLimit EXCEPT !.refs = 4, !.missing = {3}]}
=============================================================================
