----------------------- MODULE MCTransactionPipeline -----------------------
(* Pipelines for the bounded instances of TransactionPipeline.             *)
EXTENDS TransactionPipeline, TLC

CONSTANTS a, b, k1, k2, c1, c2, c3

Find(n, k, refs) ==
  [name |-> n, wellFormed |-> TRUE, writes |-> FALSE, key |-> k, refs |-> refs]
Update(n, k, refs) == [Find(n, k, refs) EXCEPT !.writes = TRUE]

TwoCalls == {c1, c2}
ThreeCalls == {c1, c2, c3}
TwoNames == {a, b}
TwoKeys  == {k1, k2}

(* Two pipelines that write the same two documents in opposite orders.     *)
Crossing ==
  (c1 :> <<Update(a, k1, {}), Update(b, k2, {a})>>)
    @@ (c2 :> <<Update(a, k2, {}), Update(b, k1, {a})>>)

(* The same beside one that validation refuses for a forward reference.    *)
CrossingForward == Crossing @@ (c3 :> <<Find(a, k1, {b}), Update(b, k1, {})>>)
============================================================================
