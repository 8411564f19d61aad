--------------------------- MODULE MCQueryBuilder ---------------------------
(* Statements of up to MaxUnits units, drawn from MCUnits, and the same    *)
(* with a quote or a bracket left open at the end.                         *)
EXTENDS QueryBuilder

CONSTANT MaxUnits

U(kind, text) == [kind |-> kind, text |-> text]

(* Quotes hold what would be special outside of them, and a second opening *)
(* bracket ends what the first one began.                                  *)
MCUnits ==
  {U("text", <<"a">>), U("text", <<"sq", "qm", "sq">>), U("text", <<"dq", "lb", "dq">>),
   U("text", <<"lb", "rc", "lb">>),
   U("param", <<>>),
   U("name", <<"a">>), U("name", <<"1", "qm">>), U("name", <<"a", "dq">>),
   U("table", <<"a">>), U("table", <<"dq", "a", "dq">>), U("table", <<>>),
   U("subscript", <<"1">>)}

MCLeftOpen == {U("text", <<"bq", "qm">>), U("text", <<"lb", "a">>), U("text", <<"lc", "qm">>)}

MCStatements ==
  UNION {[1..k -> MCUnits] : k \in 1..MaxUnits}
  \cup {Append(u, last) : u \in UNION {[1..k -> MCUnits] : k \in 0..MaxUnits - 1},
                          last \in MCLeftOpen}

MCQualifier == <<"dq", "b", "dq", "b">>   \* the last one is the dot
MCquote == [v \in Values |-> IF v = "v1" THEN "q1" ELSE "q2"]
MCParamLists == {<<>>, <<"v1">>, <<"v1", "v2">>}
MCRenamings == {[alias |-> <<"a">>, object |-> <<"b", "qm">>]}
=============================================================================
