--------------------------- MODULE BigQueryFacets ---------------------------
(***************************************************************************)
(* The BigQuery OpenLineage helpers of google/cloud/utils/openlineage.py,  *)
(* and the extract job that uses them: the job fetches the source table,   *)
(* then emits the table as its input dataset, with the facets of           *)
(* get_facets_from_bq_table, and its output with the same schema facet and *)
(* the identity column lineage of                                          *)
(* get_identity_column_lineage_facet_from_bq_table.                        *)
(*                                                                         *)
(* A Table is a record: reference (project, dataset_id, table_id), schema  *)
(* (the sequence of its fields: name, field_type, description) and         *)
(* description.  A string is a model value or a short string; None is a    *)
(* constant.  A dict keyed by field name is a function on the names.       *)
(***************************************************************************)
EXTENDS Naturals, Sequences, SequencesExt

CONSTANTS
    Tables,         \* the tables get_table may return
    Selections,     \* the selected_fields arguments: None or a list of names
    None            \* Python's None

\* str(table.reference): "{project}.{dataset_id}.{table_id}"
RefString(r) == <<r.project, ".", r.dataset_id, ".", r.table_id>>

\* The names of the fields of a list of SchemaFields.
FieldNames(fields) == {fields[k].name : k \in DOMAIN fields}

\* Python truthiness of a str | None and of a list | None.
TruthyStr(x)  == x # None /\ x # ""
TruthyList(x) == x # None /\ x # <<>>

\* Mutant: `description=table.description`, a missing description kept as None.
get_facets_from_bq_table_no_default(table) ==
    [schema        |-> [fields |-> [k \in DOMAIN table.schema |->
                           [name        |-> table.schema[k].name,
                            type        |-> table.schema[k].field_type,
                            description |-> table.schema[k].description]]],
     documentation |-> [description |-> table.description]]

get_facets_from_bq_table(table) ==
    [schema        |-> [fields |-> [k \in DOMAIN table.schema |->
                           [name        |-> table.schema[k].name,
                            type        |-> table.schema[k].field_type,
                            description |-> table.schema[k].description]]],
     documentation |-> [description |-> IF TruthyStr(table.description)
                                        THEN table.description ELSE ""]]

\* Mutant: the filter is left out, every column is kept.
SelectedSchema_unfiltered(table, selected_fields) == table.schema

\* `schema = table.schema; if selected_fields: schema = [... if field.name in selected_fields]`
SelectedSchema(table, selected_fields) ==
    IF TruthyList(selected_fields)
    THEN SelectSeq(table.schema, LAMBDA f : f.name \in ToSet(selected_fields))
    ELSE table.schema

\* One IDENTITY entry per field of the (selected) schema, its single input
\* field being the column of the same name in the table itself.
IdentityEntry(table, name) ==
    [inputFields               |-> <<[namespace |-> "bigquery",
                                      name      |-> RefString(table.reference),
                                      field     |-> name]>>,
     transformationType        |-> "IDENTITY",
     transformationDescription |-> "identical"]

get_identity_column_lineage_facet_from_bq_table(table, selected_fields) ==
    LET schema == SelectedSchema(table, selected_fields)
    IN  [fields |-> [n \in FieldNames(schema) |-> IdentityEntry(table, n)]]

-----------------------------------------------------------------------------
(* The extract job: fetch the table, then emit the lineage.               *)

VARIABLES
    phase,      \* "idle" | "fetched" | "emitted"
    table,      \* the table fetched by get_table
    selected,   \* the selected_fields the job passed
    input,      \* the emitted input Dataset
    output      \* the emitted output Dataset's facets

vars == <<phase, table, selected, input, output>>

NoTable   == [reference |-> [project |-> "", dataset_id |-> "", table_id |-> ""],
              schema |-> <<>>, description |-> None]
NoDataset == [namespace |-> "", name |-> <<>>, facets |-> <<>>]
NoFacets  == [schema |-> [fields |-> <<>>], columnLineage |-> [fields |-> <<>>]]

Init ==
    /\ phase = "idle"
    /\ table = NoTable
    /\ selected = None
    /\ input = NoDataset
    /\ output = NoFacets

\* The hook's get_table for the source table.
FetchTable(t) ==
    /\ phase = "idle"
    /\ phase' = "fetched"
    /\ table' = t
    /\ UNCHANGED <<selected, input, output>>

\* The input dataset with get_facets_from_bq_table's facets, the output with
\* the same schema facet and the identity column lineage.
EmitLineage(sel) ==
    LET facets == get_facets_from_bq_table(table)
    IN  /\ phase = "fetched"
        /\ phase' = "emitted"
        /\ selected' = sel
        /\ input' = [namespace |-> "bigquery", name |-> RefString(table.reference),
                     facets |-> facets]
        /\ output' = [schema        |-> facets.schema,
                      columnLineage |-> get_identity_column_lineage_facet_from_bq_table(table, sel)]
        /\ UNCHANGED table

\* The next run of the job.
Rerun ==
    /\ phase = "emitted"
    /\ phase' = "idle"
    /\ UNCHANGED <<table, selected, input, output>>

Next ==
    \/ \E t \in Tables : FetchTable(t)
    \/ \E sel \in Selections : EmitLineage(sel)
    \/ Rerun

Spec == Init /\ [][Next]_vars

-----------------------------------------------------------------------------
(* Properties *)

\* The schema facet lists the table's fields; the documentation facet
\* always carries a string (`table.description or ""`), never None.
TypeOK ==
    /\ phase \in {"idle", "fetched", "emitted"}
    /\ table \in Tables \cup {NoTable}
    /\ selected \in Selections \cup {None}
    /\ phase = "emitted" =>
         /\ input.facets.documentation.description # None
         /\ Len(input.facets.schema.fields) = Len(table.schema)

\* The docstring of get_identity_column_lineage_facet_from_bq_table:
\* "selected_fields: Fields to be included in facet.  If not provided, all
\* fields from table schema are used."  The column lineage covers exactly
\* the selected columns the table has, or all of them when none is passed.
SelectionRespected ==
    phase = "emitted" =>
        DOMAIN output.columnLineage.fields =
            IF selected = None THEN FieldNames(table.schema)
            ELSE ToSet(selected) \cap FieldNames(table.schema)

=============================================================================
