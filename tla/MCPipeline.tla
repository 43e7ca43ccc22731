----------------------------- MODULE MCPipeline -----------------------------
(* Small instances of Interpreter: every plan of the shapes that the           *)
(* repository's programs build, on three graphs.                            *)
EXTENDS Interpreter

Traverse(dir, label) == ForeachRship(dir, FALSE, label)
VarTraverse(label) == ForeachRship("from", TRUE, label)
PExpr(id, key, type) == [id |-> id, key |-> key, type |-> type]
P(id, key) == PExpr(id, key, "string")

Hops == {<<Traverse("from", "x"), Expand("out", "B")>>,
         <<Traverse("to", "y"), Expand("in", "")>>,
         <<VarTraverse("x"), Expand("out", "")>>}
Ends == {<<Collect>>, <<Limit(1), Collect>>, <<Limit(2), Collect>>, <<Sort, Collect>>,
             <<Project(<<P(2, "age"), P(1, "since")>>), Collect>>}

\* Traversals of one or two hops, with every kind of end.
Traversals ==
  {<<<<Scan("A")>> \o hop \o more \o finish>> :
     hop \in Hops, more \in {<<>>, <<Traverse("from", "x"), Expand("out", "")>>},
     finish \in Ends}

\* A join of a path with a path, the right-hand one with or without a join of
\* its own.
Joins ==
  {<<lhs \o <<Join(type, <<0, 0>>, 2)>> \o finish, rhs \o <<End>>>> :
     lhs \in {<<Scan("A")>>, <<Scan("A"), Traverse("from", "x")>>},
     type \in {"cross_join", "left_join"},
     rhs \in {<<Scan("B")>>, <<Scan("B"), Traverse("from", "y")>>,
              <<Scan("B"), Limit(1)>>},
     finish \in {<<Collect>>, <<Sort, Collect>>, <<Limit(2), Collect>>}}
NestedJoins ==
  {<<<<Scan("A"), Join(type, <<0, 0>>, 2), Collect>>,
     <<Scan("B"), Join("cross_join", <<0, 0>>, 3), End>>, rhs \o <<End>>>> :
     type \in {"cross_join", "left_join"},
     rhs \in {<<Scan("A"), Filter(Eq(0, "int", "v7"))>>, <<Scan("A"), Traverse("from", "x")>>}}

Others == {
  <<<<Scan("A"), Filter(Eq(0, "int", "v7")), Traverse("from", "x"), Limit(1), Collect>>>>,
  <<<<IndexScan(<<"B", "age">>, "v9"), Traverse("to", "x"), Collect>>>>,
  <<<<Scan("A"), Traverse("from", "x"), Project(<<PExpr(0, "num", "uint64"), P(1, Keep)>>),
      Collect>>>>,
  <<<<Scan("A"), Join("left_join", <<0, 0>>, 2),
      Project(<<P(0, "age"), P(1, "name"), P(2, Keep)>>), Collect>>,
    <<Scan("B"), End>>>>,
  <<<<Scan("A"), Filter(Fct("v7")), Traverse("from", "x"), Expand("out", ""),
      Filter(Eq(2, "int", "v8")), Collect>>>>,
  \* not supported: filters with strings and connectives
  <<<<Scan("A"), Filter(Eq(0, "int", "v7")), Traverse("from", "x"), Expand("out", ""),
      Filter(Eq(2, "str", "v8")), Collect>>>>,
  <<<<Scan("A"), Filter(Eq(0, "str", "v7")), Collect>>>>,
  <<<<Scan("A"), Filter(Bool("and", Eq(0, "int", "v7"), Eq(0, "int", "v7"))), Collect>>>>,
  \* not supported: more than eleven properties, DOUBLE, UINT64 of a relationship
  <<<<Scan("A"), Project([i \in 1..12 |-> P(0, "age")]), Collect>>>>,
  <<<<Scan("A"), Project(<<PExpr(0, "num", "double")>>), Limit(1), Collect>>>>,
  <<<<Scan("A"), Traverse("from", "x"),
      Project(<<PExpr(1, "since", "uint64"), P(0, "age")>>), Collect>>>>,
  \* not supported: a variable traversal from its destination, one of another,
  \* chained joins
  <<<<Scan("A"), ForeachRship("to", TRUE, "x"), Expand("in", ""), Collect>>>>,
  <<<<Scan("A"), VarTraverse("x"), Expand("out", ""), VarTraverse("x"), Collect>>>>,
  <<<<Scan("A"), Join("cross_join", <<0, 0>>, 2), Join("cross_join", <<0, 0>>, 3), Collect>>,
    <<Scan("B"), End>>, <<Scan("A"), Traverse("from", "x"), End>>>> }

\* Creations behind a scan, a traversal and a join, and as the access path.
Creations == {
  <<<<Scan("A"), CreateNode("new", "v1"), Collect>>>>,
  <<<<Scan("A"), CreateNode("new", "v1"), CreateRship(<<0, 1>>, "made", "v1"), Limit(1), Collect>>>>,
  <<<<Scan("A"), Traverse("from", "x"), Expand("out", "B"), CreateRship(<<2, 0>>, "made", "v1"),
      CreateNode("new", "v1"), Project(<<P(4, "age"), P(0, Keep)>>), Collect>>>>,
  <<<<Scan("A"), CreateNode("new", "v1"), Join("cross_join", <<0, 0>>, 2),
      CreateRship(<<1, 2>>, "made", "v1"), Sort, Collect>>,
    <<Scan("B"), End>>>>,
  <<<<CreateNode("new", "v1"), Join("cross_join", <<0, 0>>, 2),
      CreateRship(<<0, 1>>, "made", "v1"), Sort, Collect>>,
    <<Scan("B"), End>>>>,
  <<<<CreateNode("new", "v1"), Collect>>>>,
  \* not supported: what is created is scanned, a right-hand side creates, an
  \* access path creates for a limit, a projection or a relationship
  <<<<Scan("A"), CreateNode("A", "v1"), Collect>>>>,
  <<<<Scan("A"), Join("cross_join", <<0, 0>>, 2), Collect>>,
    <<Scan("B"), CreateNode("new", "v1"), Traverse("to", "x"), End>>>>,
  <<<<Scan("A"), Join("cross_join", <<0, 0>>, 2), Collect>>, <<CreateNode("new", "v1"), End>>>>,
  <<<<CreateNode("new", "v1"), Limit(1), Collect>>>>,
  <<<<CreateNode("new", "v1"), Project(<<P(0, "age")>>), Collect>>>>,
  <<<<Scan("A"), CreateRship(<<0, 1>>, "made", "v1"), Collect>>>> }

MCPlans == Traversals \cup Joins \cup NestedJoins \cup Others \cup Creations

N(label, value) == [label |-> label, value |-> value]
Valued(src, dst, label, value) == [src |-> src, dst |-> dst, label |-> label, value |-> value]
R(src, dst, label) == Valued(src, dst, label, "v5")

MCGraphs == {
  [node |-> <<N("A", "v7"), N("B", "v8"), N("B", "v9"), N("A", "v7")>>,
   rship |-> <<R(1, 2, "x"), R(1, 3, "x"), R(4, 3, "y"), R(1, 2, "y"), R(4, 4, "x"), R(2, 1, "x"),
               R(2, 4, "y"), R(3, 4, "x")>>],
  [node |-> <<N("A", "v8"), N("B", "v7"), N("B", "v8")>>,
   rship |-> <<R(1, 1, "x"), R(1, 2, "x"), R(2, 1, "y")>>],
  [node |-> <<N("A", "v7"), N("A", Null)>>, rship |-> <<Valued(2, 1, "x", Null)>>] }

MCUpdates == {<<2, "v7">>}
=============================================================================
