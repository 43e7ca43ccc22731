------------------------- MODULE MCFilterExpression -------------------------
(* All trees of up to three comparisons of two keys, some of four, on         *)
(* chains that hold the keys together, apart in either order, or not at all.  *)
EXTENDS FilterExpression

Comparisons == {EQ(k, Number(v)) : k \in {"a", "b"}, v \in {1, 2}}
Connect(S, T) == {AND(l, r) : l \in S, r \in T} \cup {OR(l, r) : l \in S, r \in T}
Pairs == Connect(Comparisons, Comparisons)
Deep == Connect({AND(OR(EQ("a", Number(1)), EQ("b", Number(2))), EQ("a", Number(2))),
                 OR(AND(EQ("b", Number(1)), EQ("b", Number(1))), EQ("a", Number(1)))}, Comparisons)
Strings == {EQ("a", Str(1)), AND(EQ("a", Number(1)), EQ("b", Str(1))),
            OR(EQ("a", Str(1)), EQ("b", Number(1)))}

MCExprs == Comparisons \cup Pairs \cup Connect(Pairs, Comparisons) \cup Connect(Comparisons, Pairs)
             \cup Deep \cup Strings \cup {Fct(TRUE), Fct(FALSE)}

MCChains ==
  {<<[a |-> 1, b |-> 2]>>, <<[a |-> 1], [b |-> 1]>>, <<[b |-> 2], [a |-> 2]>>, <<[a |-> 2]>>,
   <<[c |-> 1], [c2 |-> 2, b |-> 1]>>, <<>>}
=============================================================================
