-------------------------- MODULE MCCompiledQueries --------------------------
(* Instances of CompiledQueries.                                           *)
EXTENDS CompiledQueries

CONSTANTS a, b, p1, p2, q1, q2, q3

Two   == {a, b}
Procs == {p1, p2}
Together == [c \in Two |-> p1]
Apart    == [c \in Two |-> IF c = a THEN p1 ELSE p2]
Some == {[home |-> Together, disk |-> TRUE, warm |-> <<>>],
         [home |-> Apart, disk |-> FALSE, warm |-> <<>>],
         [home |-> Together, disk |-> FALSE, warm |-> <<q1, q2>>]}

(* Two questions about one collection, one about another; a template that  *)
(* matches all and fits one of each collection.                            *)
Three  == {q1, q2, q3}
ScopeOf == [q \in Three |-> IF q = q3 THEN "other" ELSE "first"]
Offered == {[covers |-> Three, good |-> {q1, q3}]}
=============================================================================
