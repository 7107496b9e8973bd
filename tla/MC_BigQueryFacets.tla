------------------------- MODULE MC_BigQueryFacets -------------------------
(***************************************************************************)
(* Inputs for checking BigQueryFacets: every table with up to two columns *)
(* of distinct names (BigQuery refuses duplicate column names), with and   *)
(* without column and table descriptions, and the selections a caller can *)
(* pass: None, one or both columns, and a column the table lacks.          *)
(***************************************************************************)
EXTENDS BigQueryFacets

Names == {"f1", "f2"}

MCFields == [name: Names, field_type: {"STRING", "INTEGER"}, description: {None, "d"}]

\* Schemas of 0, 1 or 2 fields with distinct names.
MCSchemas ==
    {sch \in UNION {[1..n -> MCFields] : n \in 0..2} :
        \A i, j \in DOMAIN sch : i # j => sch[i].name # sch[j].name}

MCTables ==
    [reference: {[project |-> "p", dataset_id |-> "ds", table_id |-> "tb"]},
     schema: MCSchemas, description: {None, "", "t"}]

MCSelections == {None, <<"f1">>, <<"f2">>, <<"f1", "f2">>, <<"f3">>}

\* The same, plus selected_fields=[]: the caller selects no column.
EmptySelections == MCSelections \cup {<<>>}

=============================================================================
