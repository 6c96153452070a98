--------------------------- MODULE MCConfigEditor ---------------------------
(* Two workbooks, one with two rows, one with two sheets and a blank header   *)
(* cell; one stored configuration with a join, a condition and a cell row, and*)
(* one with a single source whose template has its header in the second row.  *)
EXTENDS Checklist

MCBook ==
    [f \in {"a.xlsx", "b.xlsx"} |->
        IF f = "a.xlsx" THEN <<[name |-> "S1", rows |-> <<<<"id">>, <<"no">>>>]>>
        ELSE <<[name |-> "S1", rows |-> <<<<"id", "">>>>], [name |-> "S2", rows |-> <<<<"no">>>>]>>]

Ref(a, c) == [alias |-> a, col |-> c]
Row(t, s) == [target |-> t, source |-> s, literal |-> Absent, source_cell |-> Absent,
              conditions |-> <<>>]
Src(a, r) == [alias |-> a, role |-> r, sheet |-> "S1", header_row |-> 1, sample |-> Absent]
MCSaved == {
    [name |-> "p", target |-> [sheet |-> "S1", header_row |-> 1, columns |-> <<"id">>,
                               sample |-> Absent],
     sources |-> <<Src("primary", "primary"), Src("look", "lookup")>>,
     joins |-> <<[left |-> Ref("primary", "id"), right |-> Ref("look", "id")]>>,
     mappings |-> <<[Row("id", Ref("primary", "id")) EXCEPT !.conditions = <<Ref("look", "id")>>],
                    [Row("u", Absent) EXCEPT !.source_cell =
                        [alias |-> "primary", address |-> "A1"]]>>],
    [name |-> "p", target |-> [sheet |-> "S1", header_row |-> 2, columns |-> <<"no">>,
                               sample |-> "a.xlsx"],
     sources |-> <<Src("primary", "primary")>>,
     joins |-> <<>>,
     mappings |-> <<Row("no", Ref("primary", "id"))>>] }
=============================================================================
