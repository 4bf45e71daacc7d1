------------------------------ MODULE Networks ------------------------------
(* Networks to check on: two servers, and three in a row.                  *)

PairLinks  == {<<"A", "B">>, <<"B", "A">>}
PairBehind == [l \in PairLinks |-> {l[2]}]
PairHome   == [u \in {"a", "b"} |-> IF u = "a" THEN "A" ELSE "B"]

RowLinks  == {<<"A", "B">>, <<"B", "A">>, <<"B", "C">>, <<"C", "B">>}
RowBehind ==
  [l \in RowLinks |-> CASE l = <<"A", "B">> -> {"B", "C"}
                        [] l = <<"B", "A">> -> {"A"}
                        [] l = <<"B", "C">> -> {"C"}
                        [] l = <<"C", "B">> -> {"A", "B"}]
RowHome   == [u \in {"a", "c"} |-> IF u = "a" THEN "A" ELSE "C"]
RowUpper  == {<<"B", "C">>, <<"C", "B">>}
=============================================================================
