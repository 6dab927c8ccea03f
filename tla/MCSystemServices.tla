-------------------------- MODULE MCSystemServices --------------------------
(* Three services: a chain, a diamond without its top, a loop of two or three   *)
(* templates; generators, failing functions and failing finalizers.            *)
EXTENDS SystemServices

ThreeServices == {"a", "b", "c"}
Templates(a, b, c) == [s \in ThreeServices |-> CASE s = "a" -> a [] s = "b" -> b [] s = "c" -> c]
TwoThreads == {"main", "worker"}
FewCalls   == [t \in TwoThreads |-> IF t = "main" THEN 1 ELSE 2]

SomePrograms ==
    {[params |-> Templates(<<>>, <<"a">>, <<"a", "b">>), gens |-> {"a", "b"}, broken |-> {}, raising |-> {}],
     [params |-> Templates(<<>>, <<"a">>, <<"b">>), gens |-> {"a", "c"}, broken |-> {"b"}, raising |-> {"c"}],
     [params |-> Templates(<<"c">>, <<"a">>, <<"b">>), gens |-> {}, broken |-> {}, raising |-> {}],
     [params |-> Templates(<<"b">>, <<"b">>, <<>>), gens |-> {"c"}, broken |-> {}, raising |-> {}]}
=============================================================================
