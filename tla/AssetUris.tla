----------------------------- MODULE AssetUris -----------------------------
(***************************************************************************)
(* The per-connector asset modules: for each connector its sanitize_uri   *)
(* (a SplitResult in, a SplitResult or a ValueError out), its create_asset *)
(* (keyword fields in, the URI string out) and its                         *)
(* convert_asset_to_openlineage (the URI string in, a namespace and name   *)
(* out, or an IndexError).  Operators are named <connector>_<function>.    *)
(***************************************************************************)
EXTENDS PyUrl

CONSTANTS
    MssqlPort,      \* the token "1433", mssql's default port
    TeradataPort    \* the token "1025", create_asset's default port for teradata

\* The outcome of sanitize_uri: the normalized SplitResult, or the ValueError.
Ok(u)       == [ok |-> TRUE,  uri |-> u, error |-> "none"]
Fail(u, e)  == [ok |-> FALSE, uri |-> u, error |-> e]

\* The outcome of convert_asset_to_openlineage: a Dataset, or an IndexError.
Dataset(ns, nm) == [ok |-> TRUE,  namespace |-> ns, name |-> nm]
IndexError      == [ok |-> FALSE, namespace |-> <<>>, name |-> <<>>]

\* `not uri.path or uri.path == "/"`
NoPath(u) == u.path \in {<<>>, <<"/">>}

\* `parsed.path.lstrip("/") or "/"`, the name of the path-named connectors.
PathName(path) == IF LStrip(path, "/") = <<>> THEN <<"/">> ELSE LStrip(path, "/")

\* `f"{a}.{b}"`
DotJoin(a, b) == a \o <<".">> \o b

-----------------------------------------------------------------------------
(* sqlite *)

\* Mutant: the `if not uri.netloc` check of the other connectors copied in.
sqlite_sanitize_uri_requires_host(u) ==
    CASE u.netloc = <<>> -> Fail(u, "MissingHost")
      [] NoPath(u)       -> Fail(u, "MissingPath")
      [] OTHER           -> Ok(u)

sqlite_sanitize_uri(u) ==
    IF NoPath(u) THEN Fail(u, "MissingPath") ELSE Ok(u)

sqlite_create_asset(f) ==
    <<"sqlite", ":", "/", "/", "/">> \o f.path \o <<"/">> \o f.table

sqlite_convert_asset_to_openlineage(uri) ==
    LET fullPath == LStrip(UrlSplit(uri).path, "/")
        parts    == RSplit1(fullPath, "/")
        dbPath   == IF Len(parts) > 1 THEN parts[1] ELSE fullPath
        table    == IF Len(parts) > 1 THEN parts[2] ELSE <<>>
    IN  Dataset(<<"sqlite", ":", "/">> \o dbPath, table)

-----------------------------------------------------------------------------
(* mssql: the default port is filled in, after dropping a trailing ":"     *)
(* that leaves an empty port, before the segment count is checked.        *)

\* Mutant: the trailing ":" of "host:" is kept, giving "host::1433".
mssql_sanitize_uri_keeps_colon(u) ==
    LET v == IF PortIsNone(u.netloc)
             THEN [u EXCEPT !.netloc = u.netloc \o <<":", MssqlPort>>]
             ELSE u
    IN  CASE u.netloc = <<>>                 -> Fail(u, "MissingHost")
          [] ~PortIsNumeric(u.netloc)        -> Fail(u, "InvalidPort")
          [] Len(Split(v.path, "/")) # 4     -> Fail(v, "WrongSegmentCount")
          [] OTHER                           -> Ok(v)

\* Mutant: `uri._replace(...)` without `uri = `, the new netloc is dropped.
mssql_sanitize_uri_replace_dropped(u) ==
    CASE u.netloc = <<>>                 -> Fail(u, "MissingHost")
      [] ~PortIsNumeric(u.netloc)        -> Fail(u, "InvalidPort")
      [] Len(Split(u.path, "/")) # 4     -> Fail(u, "WrongSegmentCount")
      [] OTHER                           -> Ok(u)

mssql_sanitize_uri(u) ==
    LET v == IF PortIsNone(u.netloc)
             THEN [u EXCEPT !.netloc = RStrip(u.netloc, ":") \o <<":", MssqlPort>>]
             ELSE u
    IN  CASE u.netloc = <<>>                 -> Fail(u, "MissingHost")
          [] ~PortIsNumeric(u.netloc)        -> Fail(u, "InvalidPort")
          [] Len(Split(v.path, "/")) # 4     -> Fail(v, "WrongSegmentCount")
          [] OTHER                           -> Ok(v)

\* Mutant: `port: int | None = None`, an omitted port formatted as "None".
mssql_create_asset_port_none(f) ==
    LET port == IF f.port = <<>> THEN <<"None">> ELSE f.port
    IN  <<"mssql", ":", "/", "/">> \o f.host \o <<":">> \o port
          \o <<"/">> \o f.database \o <<"/">> \o f.schema \o <<"/">> \o f.table

mssql_create_asset(f) ==
    LET port == IF f.port = <<>> THEN <<MssqlPort>> ELSE f.port
    IN  <<"mssql", ":", "/", "/">> \o f.host \o <<":">> \o port
          \o <<"/">> \o f.database \o <<"/">> \o f.schema \o <<"/">> \o f.table

\* Mutant: `schema, database, table = path_parts[0], ...`, the first two swapped.
mssql_convert_asset_to_openlineage_swapped(uri) ==
    LET parsed == UrlSplit(uri)
        parts  == Split(Strip(parsed.path, "/"), "/")
    IN  IF Len(parts) < 3 THEN IndexError
        ELSE Dataset(SchemePrefix("mssql") \o parsed.netloc,
                     DotJoin(DotJoin(parts[2], parts[1]), parts[3]))

mssql_convert_asset_to_openlineage(uri) ==
    LET parsed == UrlSplit(uri)
        parts  == Split(Strip(parsed.path, "/"), "/")
    IN  IF Len(parts) < 3 THEN IndexError
        ELSE Dataset(SchemePrefix("mssql") \o parsed.netloc,
                     DotJoin(DotJoin(parts[1], parts[2]), parts[3]))

-----------------------------------------------------------------------------
(* adls and wasb: container@account in front of a fixed domain suffix.    *)

\* `re.match(r"^(.+@[^.]+)", netloc)`: the greedy ".+" ends at the last "@"
\* that has a non-"." after it; "[^.]+" then runs up to the next ".".
AccountAuthority(netloc) ==
    LET Ats == {p \in 2..(Len(netloc) - 1) : netloc[p] = "@" /\ netloc[p + 1] # "."}
        at  == Max(Ats)
        Dots == {d \in (at + 1)..Len(netloc) : netloc[d] = "."}
    IN  IF Ats = {} THEN netloc
        ELSE IF Dots = {} THEN netloc ELSE SubSeq(netloc, 1, Min(Dots) - 1)

\* The sanitize_uri of adls and wasb (identical in both modules).
StorageSanitize(u) ==
    CASE u.netloc = <<>> -> Fail(u, "MissingHost")
      [] u.path = <<>>   -> Fail(u, "MissingPath")
      [] OTHER           -> Ok(u)

adls_sanitize_uri(u) == StorageSanitize(u)

wasb_sanitize_uri(u) == StorageSanitize(u)

DfsSuffix  == <<".", "dfs", ".", "core", ".", "windows", ".", "net">>
BlobSuffix == <<".", "blob", ".", "core", ".", "windows", ".", "net">>

adls_create_asset(f) ==
    SchemePrefix(f.scheme) \o f.container \o <<"@">> \o f.account \o DfsSuffix \o f.path

wasb_create_asset(f) ==
    SchemePrefix(f.scheme) \o f.container \o <<"@">> \o f.account \o BlobSuffix \o f.path

\* Mutant: `name=parsed.path.lstrip("/")`, the `or "/"` for the root dropped.
adls_convert_asset_to_openlineage_no_root(uri) ==
    LET parsed == UrlSplit(uri)
    IN  Dataset(SchemePrefix(parsed.scheme) \o AccountAuthority(parsed.netloc),
                LStrip(parsed.path, "/"))

adls_convert_asset_to_openlineage(uri) ==
    LET parsed == UrlSplit(uri)
    IN  Dataset(SchemePrefix(parsed.scheme) \o AccountAuthority(parsed.netloc),
                PathName(parsed.path))

\* The namespace is written with "wasbs://" whatever the URI's scheme.
wasb_convert_asset_to_openlineage(uri) ==
    LET parsed == UrlSplit(uri)
    IN  Dataset(SchemePrefix("wasbs") \o AccountAuthority(parsed.netloc),
                PathName(parsed.path))

-----------------------------------------------------------------------------
(* asb, pubsub, kafka and teradata: a required authority and a path that *)
(* is neither empty nor "/"; no port is read and no default is filled in. *)

\* The sanitize_uri of asb, pubsub, kafka and teradata (identical but for
\* the message).
HostPathSanitize(u) ==
    CASE u.netloc = <<>> -> Fail(u, "MissingHost")
      [] NoPath(u)       -> Fail(u, "MissingPath")
      [] OTHER           -> Ok(u)

asb_sanitize_uri(u)      == HostPathSanitize(u)
pubsub_sanitize_uri(u)   == HostPathSanitize(u)
kafka_sanitize_uri(u)    == HostPathSanitize(u)
teradata_sanitize_uri(u) == HostPathSanitize(u)

asb_create_asset(f) ==
    SchemePrefix("azservicebus") \o f.namespace \o <<"/">> \o f.queue_or_topic

pubsub_create_asset(f) ==
    SchemePrefix("pubsub") \o f.project_id \o <<"/", "topics", "/">> \o f.topic

kafka_create_asset(f) ==
    SchemePrefix("kafka") \o f.server \o <<"/">> \o f.topic

teradata_create_asset(f) ==
    LET port == IF f.port = <<>> THEN <<TeradataPort>> ELSE f.port
    IN  SchemePrefix("teradata") \o f.host \o <<":">> \o port
          \o <<"/">> \o f.database \o <<"/">> \o f.table

\* asb, pubsub and kafka: namespace scheme://netloc, name the path.
PathNamedConvert(scheme, uri) ==
    LET parsed == UrlSplit(uri)
    IN  Dataset(SchemePrefix(scheme) \o parsed.netloc, PathName(parsed.path))

asb_convert_asset_to_openlineage(uri)    == PathNamedConvert("azservicebus", uri)
pubsub_convert_asset_to_openlineage(uri) == PathNamedConvert("pubsub", uri)
\* Mutant: `name=parsed.path or "/"`, the leading "/" kept in the name.
kafka_convert_asset_to_openlineage_keeps_slash(uri) ==
    LET parsed == UrlSplit(uri)
    IN  Dataset(SchemePrefix("kafka") \o parsed.netloc,
                IF parsed.path = <<>> THEN <<"/">> ELSE parsed.path)

\* Mutant: `namespace=f"kafka://{parsed.hostname}"`, the port left out.
kafka_convert_asset_to_openlineage_hostname(uri) ==
    LET parsed == UrlSplit(uri)
        host   == HostInfo(parsed.netloc)
        i      == Find(host, ":")
    IN  Dataset(SchemePrefix("kafka") \o (IF i = 0 THEN host ELSE SubSeq(host, 1, i - 1)),
                PathName(parsed.path))

kafka_convert_asset_to_openlineage(uri)  == PathNamedConvert("kafka", uri)

\* Only the first two path segments are read; a missing one is "".
teradata_convert_asset_to_openlineage(uri) ==
    LET parsed == UrlSplit(uri)
        parts  == Split(Strip(parsed.path, "/"), "/")
        table  == IF Len(parts) > 1 THEN parts[2] ELSE <<>>
    IN  Dataset(SchemePrefix("teradata") \o parsed.netloc, DotJoin(parts[1], table))

=============================================================================
