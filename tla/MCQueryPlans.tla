---------------------------- MODULE MCQueryPlans ----------------------------
(* Three rows at CREATE INDEX and one later, vectors of two rows.           *)
EXTENDS QueryPlans

NoLabel == -1
ByRow(a, b, c, d) == [r \in 1..4 |-> CASE r = 1 -> a [] r = 2 -> b [] r = 3 -> c [] r = 4 -> d]
SomeTables ==
    {[label |-> ByRow(1, 2, 1, 2), code |-> ByRow(1, 2, 4, 3)],
     [label |-> ByRow(0, 3, 2, 0), code |-> ByRow(1, 2, 3, 4)],
     [label |-> ByRow(3, 1, 3, 3), code |-> ByRow(1, 3, 2, 4)],
     [label |-> ByRow(2, NoLabel, 2, 2), code |-> ByRow(3, 2, 4, 1)]}

Distance(q, c) == CASE q = 0 -> c [] q = 1 -> 10 - c [] q = 2 -> c [] q = 3 -> (3 * c) % 5
ExactDistance(fn, r) == IF fn = "array_cosine_distance" THEN 10 - r ELSE r

P(col, op, v) == [col |-> col, op |-> op, v |-> v]
Query(shape, k, where) ==
    [shape |-> shape, orders |-> 1, ascending |-> TRUE, dynamic |-> FALSE, fn |-> "array_distance",
     args |-> IF shape = "join" THEN <<"outer column", "column">> ELSE <<"column", "constant">>,
     k |-> k, offset |-> 0, where |-> where]
SomeQueries ==
    {Query("topn", 2, w) : w \in {<<>>,
        <<P("label", "=", 1)>>, <<P("label", "=", 0)>>, <<P("label", ">=", 2)>>,
        <<P("label", ">", 3)>>, <<P("label", ">", 1), P("label", "<=", 3)>>,
        <<P("label", "<", 2), P("label", "=", 1)>>, <<P("label", ">", 2), P("label", "<", 1)>>,
        <<P("label", "in", {1, 2}), P("row", ">", 1)>>}}
    \cup {[Query("topn", 1, <<>>) EXCEPT !.offset = 1],
          [Query("topn", 1, <<>>) EXCEPT !.ascending = FALSE],
          [Query("topn", 1, <<>>) EXCEPT !.fn = "array_cosine_distance"],
          [Query("topn", 1, <<>>) EXCEPT !.args = <<"constant", "other">>]}
    \cup {Query("minby", 1, <<P("label", "<=", 2)>>), Query("minby", 2, <<>>)}
    \cup {Query("join", 1, <<>>)}
=============================================================================
