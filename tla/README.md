# TLA+ models of the Airflow provider asset-URI modules

This directory holds TLA+ models of the asset-URI code in the provider packages
under `src/`. It also holds the TLC configurations that check them. Each
provider's `assets/<connector>.py` module has three pure functions:

| function | role (spec section 2) |
|---|---|
| `sanitize_uri(SplitResult) -> SplitResult` | **Sanitizer**: checks the URI's shape, may fill in a default port, raises `ValueError` |
| `create_asset(**fields) -> Asset` | **Asset Constructor**: builds the URI with an f-string |
| `convert_asset_to_openlineage(asset, ctx) -> Dataset` | **Lineage Mapper**: splits the URI into an OpenLineage `(namespace, name)` |

## 1. Inventory

### Components and their state

* **Connector modules under `src/`**: sqlite, mssql, adls (`abfss`/`abfs`),
  wasb (`wasbs`/`wasb`), asb (`azservicebus`), teradata, pubsub and kafka.
  They keep no state. Each call maps its input to an output or raises.
* **Core Asset normalization** (not under `src/`; modelled from the spec).
  `Asset(uri=...)` splits the URI and runs the `sanitize_uri` registered for
  its scheme. It then stores `urlunsplit` of the result, or raises the
  `ValueError`. The spec's control flow is: Constructor, then storage, then
  the Sanitizer on read-back, then the Lineage Mapper. Together these are
  the only "state" the system has: the asset's stored URI.
* **Python's `urllib.parse` and `str`** are the collaborators the modules
  rely on: `urlsplit`, `urlunsplit`, `SplitResult.port`, `split`, `rsplit`
  and `strip`. Most of the hard cases come from their edge behaviour.
* **BigQuery facet helpers** (`src/airflow/providers/google/cloud/utils/openlineage.py`).
  `get_facets_from_bq_table` builds the schema and documentation facets of
  a table. `get_identity_column_lineage_facet_from_bq_table` builds a
  column-lineage facet that maps each (selected) column to the same column
  of the table. An extract job (the BigQueryToGCS operator, known here
  only through its test) calls both: the table is its input dataset and the
  files it writes are its output.
* **Test-only connectors**: redshift, samba, sftp, ftp, oracle, presto,
  impala, vertica, exasol, mongo and databricks. Only their tests are under
  `src/`, so their shape contracts are known from those tests and the spec.
* The **BigQueryToGCS operator** appears only through its test. It is
  external I/O.

### How the components interact

A DAG author calls `create_asset`, or writes `Asset(uri=...)` by hand. The
Asset normalizes the URI through the scheme registry and stores the
re-joined string. Whenever the asset is re-created from that string, the
same normalization runs again ("read-back"). Lineage emission calls the
scheme's `convert_asset_to_openlineage` on the stored string. Nothing runs
concurrently, and there is no I/O or retry. The hard behaviour is the
*sequence* constructor → `urlsplit` → `sanitize_uri` → `urlunsplit` →
`urlsplit` → `convert`. Each step has its own idea of where the authority,
the port and the path segments are.

### What makes it correct

* **Total mapper.** Every URI that `sanitize_uri` accepts converts without
  raising.
* **Idempotent normalization.** Re-reading a stored URI neither rejects it
  nor changes it.
* **Default port.** A connector with a default port P ends with an
  authority that names a numeric port: P when the URI named none.
* **Round trip.** For valid fields, `convert(normalize(create(fields)))` is
  the dataset the documented convention gives (spec 3, 4.3 and 8).
* **Injective identity.** Different valid fields never share a lineage
  identity.
* **Port check.** A non-numeric port is refused "regardless of connector"
  (spec 8).
* **URI round trip.** Storing the re-joined URI does not change the dataset
  (spec 6).
* **Whole names.** A database name keeps every path segment (spec 4.3), and
  an adls/wasb name keeps the whole path it was created with.
* **Documented shapes.** A stored pubsub URI names `topics/<topic>` or
  `subscriptions/<subscription>`, as the URI error message of pubsub's
  `sanitize_uri` says it must. Only the `pubsub_path` violation run checks
  this. `sanitize_uri` does not enforce the shape, so in the pass run the
  property would only re-check the `create_asset` template.
* **Refinement.** The life cycle implements an abstract registry in which a
  valid resource is always accepted, never fails and is published under
  its documented identity.
* **Column lineage.** The column lineage covers exactly the selected
  columns, or all of them when no selection is passed.

The hazards these properties aim at are listed, each at its source line,
under `hazards` in `PROJECT.json`.

## 2. Modules

| module | models |
|---|---|
| `PyUrl` | `str.split/rsplit/strip/lstrip/rstrip`, `urlsplit`, `urlunsplit`, `SplitResult.port` on token sequences |
| `AssetUris` | the 8 connectors' `sanitize_uri`, `create_asset`, `convert_asset_to_openlineage`, one operator each, named `<connector>_<function>` |
| `AssetLifecycle` | the scheme registry, the Asset normalization, the asset life cycle as a state machine, and its refinement mapping to `AssetIdentity` |
| `AssetIdentity` | the abstract promise: an asset is its resource, and a valid resource is published under its identity |
| `MC_AssetLifecycle` | inputs for TLC: create_asset calls and hand-written URIs |
| `BigQueryFacets` | the two BigQuery facet helpers as operators, and the extract job that emits them as a state machine |
| `MC_BigQueryFacets` | inputs for TLC: tables of up to two columns and the selections a caller can pass |

**Strings.** A string is a sequence of tokens. The tokens are the separators
`/ : @ .` and opaque tokens, each standing for a run of characters without
separators (`"a"`, `"h"`, `"1433"`, `"mssql"`, `"dfs"`). Every Python
operation used looks only for separators, so it acts on tokens as it does on
characters. This covers `split`, `strip`, `urlsplit`'s search for `//` and
`/`, the port after the first `:` following the last `@`, and the adls/wasb
regex `^(.+@[^.]+)`. A port is numeric when all its tokens are in `Digits`.
Two adjacent word tokens stand for one word: adls's `...windows.net` followed
by a path `d/f` is `<<..., "net", "d", "/", "f">>`, which every operation
treats as Python treats `netd/f`.

**AssetLifecycle state.** Each slot holds one asset:

* `stage`: empty, stored, rejected, emitted or crashed;
* `intent`: the `create_asset` call, or none for a hand-written URI;
* `raw`: the string handed to `Asset()`;
* `uri`: the stored, re-joined URI;
* `dataset`: the emitted namespace and name.

**Actions.**

* `CreateFromFields` is `create_asset` plus the Asset normalization.
* `WriteUri` is `Asset(uri=...)`.
* `ReadBack` normalizes the stored URI again.
* `EmitLineage` is `convert_asset_to_openlineage`. An `IndexError` moves
  the slot to `crashed`.
* `Discard` reuses the slot.

Each action includes the whole normalization: split, sanitize and re-join.

**urlunsplit across CPython versions.** `UnsplitKeepsEmptyAuthority` is a
constant because CPython releases differ. The local CPython 3.11.6 gives
`urlunsplit(urlsplit("sqlite:////p/q/t")) == "sqlite://p/q/t"`. Newer
releases write `//` again in front of a path that starts with `//`.

**Refinement.** `AssetIdentity` has, per slot, a `status` (empty,
registered, refused, published, failed), the declared `resource` and the
`published` identity. It says:

* only a resource of no documented shape may be refused;
* a valid resource is published under `Identity(resource)`;
* only an invalid resource may fail.

`AssetLifecycle` instantiates it as `Abs` with this mapping:

* `resource <- intent` and `published <- dataset`;
* `status` is the stage renamed: stored is registered, rejected is
  refused, emitted is published, crashed is failed;
* `Identity <- Convention` and `IsValid <- ValidIntent`.

`IdentityRefinement == Abs!Spec` is checked as a property. `ReadBack` maps to
a stutter step, so a read-back that rejected a stored asset would violate it.

**BigQueryFacets.** A table is a record with its `reference`, its `schema`
(a sequence of fields with `name`, `field_type` and `description`) and its
`description`. `str(table.reference)` is `project.dataset_id.table_id`. The
column-lineage dict is a function on the column names. The job's state is:

* `phase`: idle, fetched or emitted;
* the fetched `table`;
* the `selected` fields;
* the emitted `input` dataset and `output` facets.

`FetchTable` is the hook's `get_table`. `EmitLineage` calls both helpers, as
the operator's `get_openlineage_facets_on_complete` does in the test.
`Rerun` starts the next run. The job is modelled from the test because the
operator's source is not in the repository.

## 3. Runs

| run | cfg | expect | what it shows |
|---|---|---|---|
| lifecycle | `MC_AssetLifecycle.cfg` | pass | `TypeOK`, `DefaultPortFilled` (mssql), `DatasetFollowsConvention`, `StorageDatasetFromFields`, `NameJoinsPathSegments`, `LineageInjective` (two slots), `ReadBackStable` and `IdentityRefinement` hold for every create_asset call of the inputs and for the tests' hand-written URIs, including the boundary cases |
| lineage_total | `MC_LineageTotal.cfg` | violation | `create_asset(table="")` or `mssql://h/a/b/` passes mssql's 4-piece check, then `convert` raises `IndexError` |
| wasb_scheme | `MC_WasbScheme.cfg` | violation | `create_asset(scheme="wasb")` is emitted under `wasbs://` |
| teradata_port | `MC_TeradataPort.cfg` | violation | `teradata://h/a/b` is stored without the 1025 that `create_asset` would write |
| sqlite_collision | `MC_SqliteCollision.cfg` | violation | `path="p/q"` and `path="/p/q"` get the same namespace `sqlite:/p/q` |
| kafka_port | `MC_KafkaPort.cfg` | violation | `kafka://k:x/t` is accepted |
| unsplit_311 | `MC_Unsplit311.cfg` | violation | on CPython 3.11, the stored `sqlite://p/q/t` converts to namespace `sqlite:/q` |
| adls_relative_path | `MC_AdlsRelativePath.cfg` | violation | `create_asset(path="d/f")` is stored as `...windows.netd/f` and emitted with name `f`. `create_asset(container="")` is emitted under `abfss://@a.dfs.core.windows.net`: the regex `^(.+@[^.]+)` needs a character before the `@`, and falls back to the whole netloc. The inputs allow either trace |
| teradata_segments | `MC_TeradataSegments.cfg` | violation | `teradata://h/a/b/c` is accepted and emitted with name `a.b` |
| pubsub_path | `MC_PubsubPath.cfg` | violation | `pubsub://pr/a` passes `sanitize_uri` and is emitted with name `a`, with no `topics/` segment |
| bq_facets | `MC_BigQueryFacets.cfg` | pass | `TypeOK` and `SelectionRespected` hold for every table of up to two columns and every selection but `[]` |
| empty_selection | `MC_EmptySelection.cfg` | violation | `selected_fields=[]` gives lineage for every column, not for none |

Each property of a passing run has a mutant in `PROJECT.json`, a slip a
developer could plausibly make:

* `port=None` formatted as `"None"` (breaks `TypeOK`);
* `rstrip(":")` dropped (breaks `ReadBackStable`);
* `uri._replace(...)` result not assigned (breaks `DefaultPortFilled`);
* the `lstrip("/")` dropped from kafka's name (breaks
  `DatasetFollowsConvention`);
* adls's `or "/"` for the root dropped (breaks `StorageDatasetFromFields`);
* mssql's database and schema swapped (breaks `NameJoinsPathSegments`);
* kafka's namespace built from `parsed.hostname`, which drops the port
  (breaks `LineageInjective`: `k` and `k:1` merge);
* sqlite's `sanitize_uri` given the other connectors' host check (breaks
  `IdentityRefinement` only);
* `table.description or ""` without the `or ""` (breaks BigQuery `TypeOK`);
* the `selected_fields` filter left out (breaks `SelectionRespected`).

TLC finds each of these.

### Bounds and why they are enough

* **Identifiers.** Two distinct one-token identifiers `a`, `b`, plus the
  empty string where the code treats it specially (mssql/sqlite table).
  Each function looks only at separators, and every separator pattern in
  the inputs is exercised. Distinct identifiers are enough to tell a
  swapped or dropped field apart.
* **Ports.** A port is omitted (`<<>>`) or the explicit token `1`. The
  hand-written URIs add an empty port (`h:`), a non-numeric port (`h:x`)
  and `user@host`. No input has a port above 65535, so the port range
  error is not reached (see below).
* **Paths.** They cover one and two segments, root-only, empty, a path
  with a trailing `/`, and one extra segment.
* **Slots.** The lifecycle pass run and the sqlite collision run have two
  slots, so that `LineageInjective` compares every pair of valid
  create_asset calls. The pair is any two intents, of the same connector
  or of different ones. No state is shared between slots, so a third slot
  adds no new pair. The other violation runs need one slot. Slots are not
  declared a symmetry set, because the pass run also checks temporal
  properties.
  The pass run's sqlite intents use relative paths only. The
  relative-versus-absolute collision is shown by `sqlite_collision`.
* **BigQuery tables.** Every schema of 0, 1 or 2 columns with distinct names
  (BigQuery refuses duplicates), two field types, and a field description
  that is set or None. The table description is None, `""` or set. The
  selections are None, each single column, both columns, and a column the
  table lacks. Two columns are enough to tell "the selected ones" from
  "all". The job's emitted datasets stay in the state after `Rerun`, so
  each emission is checked after every earlier one (51784 states).

### Fairness

No liveness property is stated. Every function terminates on every input,
and nothing in the code waits for anything, so there is no progress
question to ask. The specifications have no fairness conditions. In
`AssetLifecycle`, `Discard` returns every terminal stage to `empty`. In
`BigQueryFacets`, `Rerun` returns the job to `idle`. So deadlock is checked
and does not occur in either.

## 4. Not modelled, and why

* **The unit tests' view of the stored URI.** `test_sqlite.py` asserts
  that `create_asset(path="path/to/my.db", table="mytable").uri` is
  `sqlite:///path/to/my.db/mytable`, unchanged. That holds when the unit
  test's `Asset` does not run the provider's normaliser. `NormalizeUri`
  models the normalising path that the spec describes (split, sanitize,
  re-join), and on it CPython stores `sqlite:/path/to/my.db/mytable`. Only
  `unsplit_311` depends on the re-join.

* **asb's docstring.** It says `namespace=azservicebus://namespace`.
  However, `convert_asset_to_openlineage` and the provider's test both use
  the fully qualified host. The docstring is out of date, and the
  behaviour is not a defect. No run is kept for it.

* Query strings and fragments, and IPv6 bracketed hosts. No asset URI of
  these connectors carries them.
* The `ValueError` message text. Errors are told apart by kind only.
* `SplitResult.port`'s range check (0..65535). Ports are abstract tokens,
  and two of them are never concatenated in the inputs.
* The OpenLineage client objects, extra-metadata dicts, and the ignored
  `lineage_context`.
* The test-only connectors (redshift, samba, sftp, ftp, oracle, presto,
  impala, vertica, exasol, mongo, databricks). Their modules are not in this
  repository; only their tests are. A model written from the spec and
  those tests could only be checked against that same spec, so it would
  show nothing about code. Their shapes are the ones `AssetUris` already
  has: mssql's fixed segments and default port, and kafka's path name.
* The BigQueryToGCS operator's `execute`, hook and GCS side. This is
  external I/O, and its source is not in the repository. Only the lineage
  it emits is modelled, from its test.
* The case of BigQuery column names. BigQuery compares them without regard
  to case, while `field.name in selected_fields` does not. Names are opaque
  values here.

## 5. Plan

1. **Done (sitting 1).** `PyUrl`, `AssetUris` (all 8 connectors under
   `src/`), `AssetLifecycle`, the passing lifecycle run and six violation
   runs, each a disagreement with the spec met while modelling.
2. **Done (sitting 2).** The following were added:
   * `BigQueryFacets`, with its pass run and the empty-selection finding;
   * `AssetIdentity`, and the `IdentityRefinement` of the life cycle;
   * `StorageDatasetFromFields` and the adls relative-path finding;
   * `NameJoinsPathSegments` and the teradata extra-segment finding.
3. **Done (sitting 3).** The following were added:
   * `PubsubPathShape` and the pubsub path finding;
4. **Done (sitting 4).** `LineageInjective` is now checked in the pass
   run, with two slots.
5. **Done (sitting 5).** After review, the following changed:
   * `PubsubPathShape` left the pass run. It stays in its violation run.
   * `ColumnLineageTracesInput` was removed. The job's input name is the
     same `str(table.reference)` expression the helper uses, so the
     property restated line 82.
   * The empty-container fallback of adls's regex was added to the
     `adls_relative_path` run.
6. **Next.**
   * The port range and BigQuery name case stay under "Not modelled" for
     the reasons given there.
