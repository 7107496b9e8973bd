--------------------------- MODULE AssetLifecycle ---------------------------
(***************************************************************************)
(* The life of an asset URI: Constructor -> (stored) -> Sanitizer on       *)
(* read-back -> Lineage Mapper.  An Asset is built from a create_asset     *)
(* call or from a URI written by hand; building it splits the URI, runs    *)
(* the sanitize_uri registered for its scheme and stores the re-joined     *)
(* result (or rejects the URI with the ValueError).  A stored asset can be *)
(* read back, which runs the same normalization again, and its lineage    *)
(* dataset can be emitted with the scheme's convert_asset_to_openlineage.  *)
(* Each slot is one independent asset.                                     *)
(***************************************************************************)
EXTENDS AssetUris

CONSTANTS
    Slots,          \* the assets being tracked
    Intents,        \* create_asset calls: records with the connector in .conn
    WrittenUris,    \* URIs handed to Asset(uri=...) directly
    Tokens,         \* every token a URI of the model is made of
    NoIntent,       \* intent of an asset whose URI was written by hand
    DefaultPortOf   \* scheme -> the port a URI of that scheme must end up with
                    \* when it names none (spec: "fixed default port P")

VARIABLES
    stage,      \* slot -> "empty" | "stored" | "rejected" | "emitted" | "crashed"
    intent,     \* slot -> the create_asset call that built it, or NoIntent
    raw,        \* slot -> the URI string handed to Asset()
    uri,        \* slot -> the stored, normalized URI
    dataset     \* slot -> the emitted OpenLineage dataset

vars == <<stage, intent, raw, uri, dataset>>

Stages == {"empty", "stored", "rejected", "emitted", "crashed"}

NoDataset == [ok |-> FALSE, namespace |-> <<>>, name |-> <<>>]

-----------------------------------------------------------------------------
(* The scheme registry: which module's functions serve which scheme.      *)

CreateAsset(i) ==
    CASE i.conn = "sqlite"   -> sqlite_create_asset(i)
      [] i.conn = "mssql"    -> mssql_create_asset(i)
      [] i.conn = "adls"     -> adls_create_asset(i)
      [] i.conn = "wasb"     -> wasb_create_asset(i)
      [] i.conn = "asb"      -> asb_create_asset(i)
      [] i.conn = "pubsub"   -> pubsub_create_asset(i)
      [] i.conn = "kafka"    -> kafka_create_asset(i)
      [] i.conn = "teradata" -> teradata_create_asset(i)

SanitizeUri(u) ==
    CASE u.scheme = "sqlite"               -> sqlite_sanitize_uri(u)
      [] u.scheme = "mssql"                -> mssql_sanitize_uri(u)
      [] u.scheme \in {"abfss", "abfs"}    -> adls_sanitize_uri(u)
      [] u.scheme \in {"wasbs", "wasb"}    -> wasb_sanitize_uri(u)
      [] u.scheme = "azservicebus"         -> asb_sanitize_uri(u)
      [] u.scheme = "pubsub"               -> pubsub_sanitize_uri(u)
      [] u.scheme = "kafka"                -> kafka_sanitize_uri(u)
      [] u.scheme = "teradata"             -> teradata_sanitize_uri(u)

ConvertAsset(s) ==
    LET scheme == UrlSplit(s).scheme
    IN  CASE scheme = "sqlite"             -> sqlite_convert_asset_to_openlineage(s)
          [] scheme = "mssql"              -> mssql_convert_asset_to_openlineage(s)
          [] scheme \in {"abfss", "abfs"}  -> adls_convert_asset_to_openlineage(s)
          [] scheme \in {"wasbs", "wasb"}  -> wasb_convert_asset_to_openlineage(s)
          [] scheme = "azservicebus"       -> asb_convert_asset_to_openlineage(s)
          [] scheme = "pubsub"             -> pubsub_convert_asset_to_openlineage(s)
          [] scheme = "kafka"              -> kafka_convert_asset_to_openlineage(s)
          [] scheme = "teradata"           -> teradata_convert_asset_to_openlineage(s)

\* Asset(uri=s): split, sanitize by scheme, re-join; a ValueError rejects s.
NormalizeUri(s) ==
    LET r == SanitizeUri(UrlSplit(s))
    IN  [ok |-> r.ok, uri |-> IF r.ok THEN UrlUnsplit(r.uri) ELSE <<>>]

-----------------------------------------------------------------------------
Init ==
    /\ stage   = [s \in Slots |-> "empty"]
    /\ intent  = [s \in Slots |-> NoIntent]
    /\ raw     = [s \in Slots |-> <<>>]
    /\ uri     = [s \in Slots |-> <<>>]
    /\ dataset = [s \in Slots |-> NoDataset]

\* Building the Asset of slot s from the URI string r.
Build(s, r) ==
    LET n == NormalizeUri(r)
    IN  /\ raw' = [raw EXCEPT ![s] = r]
        /\ \/ /\ n.ok
              /\ stage' = [stage EXCEPT ![s] = "stored"]
              /\ uri' = [uri EXCEPT ![s] = n.uri]
           \/ /\ ~n.ok
              /\ stage' = [stage EXCEPT ![s] = "rejected"]
              /\ UNCHANGED uri

\* create_asset(**fields), which builds Asset(uri=f"...").
CreateFromFields(s, i) ==
    /\ stage[s] = "empty"
    /\ intent' = [intent EXCEPT ![s] = i]
    /\ Build(s, CreateAsset(i))
    /\ UNCHANGED dataset

\* Asset(uri=w) with a URI written by hand.
WriteUri(s, w) ==
    /\ stage[s] = "empty"
    /\ Build(s, w)
    /\ UNCHANGED <<intent, dataset>>

\* Reading a stored asset back builds Asset(uri=<stored uri>) again.
ReadBack(s) ==
    LET n == NormalizeUri(uri[s])
    IN  /\ stage[s] = "stored"
        /\ stage' = [stage EXCEPT ![s] = IF n.ok THEN "stored" ELSE "rejected"]
        /\ uri' = [uri EXCEPT ![s] = IF n.ok THEN n.uri ELSE uri[s]]
        /\ UNCHANGED <<intent, raw, dataset>>

\* convert_asset_to_openlineage on the stored asset.
EmitLineage(s) ==
    LET d == ConvertAsset(uri[s])
    IN  /\ stage[s] = "stored"
        /\ \/ /\ d.ok
              /\ stage' = [stage EXCEPT ![s] = "emitted"]
              /\ dataset' = [dataset EXCEPT ![s] = d]
           \/ /\ ~d.ok
              /\ stage' = [stage EXCEPT ![s] = "crashed"]
              /\ UNCHANGED dataset
        /\ UNCHANGED <<intent, raw, uri>>

\* The slot is reused for another asset.
Discard(s) ==
    /\ stage[s] \in {"rejected", "emitted", "crashed"}
    /\ stage'   = [stage EXCEPT ![s] = "empty"]
    /\ intent'  = [intent EXCEPT ![s] = NoIntent]
    /\ raw'     = [raw EXCEPT ![s] = <<>>]
    /\ uri'     = [uri EXCEPT ![s] = <<>>]
    /\ dataset' = [dataset EXCEPT ![s] = NoDataset]

Next ==
    \E s \in Slots :
        \/ \E i \in Intents : CreateFromFields(s, i)
        \/ \E w \in WrittenUris : WriteUri(s, w)
        \/ ReadBack(s)
        \/ EmitLineage(s)
        \/ Discard(s)

Spec == Init /\ [][Next]_vars

-----------------------------------------------------------------------------
(* Properties *)

\* Every URI, stored URI and dataset is made of the model's tokens.
TypeOK ==
    /\ stage \in [Slots -> Stages]
    /\ intent \in [Slots -> Intents \cup {NoIntent}]
    /\ raw \in [Slots -> Seq(Tokens)]
    /\ uri \in [Slots -> Seq(Tokens)]
    /\ \A s \in Slots : dataset[s].namespace \in Seq(Tokens) /\ dataset[s].name \in Seq(Tokens)

\* Reading a stored asset back (sanitize_uri run again on the re-joined URI,
\* e.g. mssql's default-port rewrite of "host:") neither rejects it nor
\* changes it: normalization is idempotent.
ReadBackStable ==
    [][\A s \in Slots : ReadBack(s) => stage'[s] = "stored" /\ uri'[s] = uri[s]]_vars

\* The stored authority of a scheme with a default port P names a numeric
\* port: P when the URI handed to Asset() named none (mssql's "host" and
\* "host:"), the URI's own port otherwise.  Reached only through the
\* _replace in sanitize_uri and the re-join after it.
DefaultPortFilled ==
    \A s \in Slots :
        LET r == UrlSplit(raw[s])
            v == UrlSplit(uri[s])
        IN  stage[s] \in {"stored", "emitted", "crashed"} /\ r.scheme \in DOMAIN DefaultPortOf
              => /\ ~PortIsNone(v.netloc)
                 /\ PortIsNumeric(v.netloc)
                 /\ PortText(v.netloc) = IF PortIsNone(r.netloc)
                                         THEN <<DefaultPortOf[r.scheme]>>
                                         ELSE PortText(r.netloc)

-----------------------------------------------------------------------------
(* The documented naming convention (spec sections 4.3 and 8), written     *)
(* from the create_asset fields, independently of the convert functions.  *)

\* An identifier without separators; a relative and an absolute path.
Word(x)    == x # <<>> /\ \A k \in DOMAIN x : x[k] \notin Seps
RelPath(x) == \A k \in DOMAIN Split(x, "/") : Word(Split(x, "/")[k])
AbsPath(x) == x # <<>> /\ Head(x) = "/" /\ RelPath(Tail(x))

\* Field values of the shape the tests use: nothing for the constructor to
\* escape (the unescaped separators are a known sharp edge, spec section 9).
ValidIntent(i) ==
    CASE i.conn \in {"mssql", "teradata"} ->
            Word(i.host) /\ Word(i.database) /\ Word(i.table)
            /\ (i.conn = "mssql" => Word(i.schema))
      [] i.conn = "sqlite"   -> (RelPath(i.path) \/ AbsPath(i.path)) /\ Word(i.table)
      [] i.conn \in {"adls", "wasb"} ->
            Word(i.container) /\ Word(i.account) /\ AbsPath(i.path)
      [] i.conn = "asb"      -> Word(i.namespace) /\ Word(i.queue_or_topic)
      [] i.conn = "pubsub"   -> Word(i.project_id) /\ Word(i.topic)
      [] i.conn = "kafka"    -> i.server # <<>> /\ "/" \notin ToSet(i.server) /\ Word(i.topic)

PortOr(port, default) == IF port = <<>> THEN <<default>> ELSE port

\* namespace scheme://authority (sqlite: "sqlite:/" + database path), name
\* the path joined by "." for databases and by "/" for the others.
Convention(i) ==
    CASE i.conn = "mssql" ->
            Dataset(SchemePrefix("mssql") \o i.host \o <<":">> \o PortOr(i.port, MssqlPort),
                    DotJoin(DotJoin(i.database, i.schema), i.table))
      [] i.conn = "teradata" ->
            Dataset(SchemePrefix("teradata") \o i.host \o <<":">> \o PortOr(i.port, TeradataPort),
                    DotJoin(i.database, i.table))
      [] i.conn = "sqlite" -> Dataset(<<"sqlite", ":", "/">> \o i.path, i.table)
      [] i.conn \in {"adls", "wasb"} ->
            Dataset(SchemePrefix(i.scheme) \o i.container \o <<"@">> \o i.account, Tail(i.path))
      [] i.conn = "asb"    -> Dataset(SchemePrefix("azservicebus") \o i.namespace, i.queue_or_topic)
      [] i.conn = "pubsub" -> Dataset(SchemePrefix("pubsub") \o i.project_id,
                                      <<"topics", "/">> \o i.topic)
      [] i.conn = "kafka"  -> Dataset(SchemePrefix("kafka") \o i.server, i.topic)

\* Round trip (spec section 3): an asset built by create_asset from valid
\* fields, normalized, read back any number of times and converted, emits
\* the dataset the convention gives for those fields.
DatasetFollowsConvention ==
    \A s \in Slots :
        stage[s] = "emitted" /\ intent[s] # NoIntent /\ ValidIntent(intent[s])
            => dataset[s] = Convention(intent[s])

\* adls and wasb (spec 4.3, and adls's docstring "namespace=abfss://
\* container@account, name=path"): an asset create_asset built for a
\* container, an account and a path is emitted under that container@account
\* and with the whole path, its leading "/" stripped ("/" for the root).
StorageDatasetFromFields ==
    \A s \in Slots :
        stage[s] = "emitted" /\ intent[s].conn \in {"adls", "wasb"}
            => dataset[s] = Dataset(SchemePrefix(intent[s].scheme) \o intent[s].container
                                      \o <<"@">> \o intent[s].account,
                                    PathName(intent[s].path))

\* Spec 4.3, default rule for the network databases (mssql, teradata):
\* "name = path with leading slash stripped, segments joined by '.'".  The
\* emitted name of a stored database URI keeps every segment of its path.
NameJoinsPathSegments ==
    \A s \in Slots :
        LET path == UrlSplit(uri[s]).path
        IN  stage[s] = "emitted" /\ UrlSplit(uri[s]).scheme \in {"mssql", "teradata"}
              => dataset[s].name = ReplaceAll(LStrip(path, "/"), "/", ".")

\* pubsub's sanitize_uri error names the contract of its path: "URI format
\* pubsub:// must contain topics/<topic> or subscriptions/<subscription>".
\* Every pubsub URI an asset is stored with has a path of that shape.
PubsubPathShape ==
    \A s \in Slots :
        LET parts == Split(Tail(UrlSplit(uri[s]).path), "/")
        IN  stage[s] \in {"stored", "emitted", "crashed"} /\ UrlSplit(uri[s]).scheme = "pubsub"
              => /\ Len(parts) = 2
                 /\ parts[1] \in {<<"topics">>, <<"subscriptions">>}
                 /\ Word(parts[2])

\* The Lineage Mapper "operates only on already-sanitized URIs and is total
\* over that domain": no stored asset makes convert_asset_to_openlineage raise.
LineageTotal == \A s \in Slots : stage[s] # "crashed"

\* Two assets built from different valid create_asset calls are never
\* given the same lineage identity (namespace, name): each connector's
\* convert_asset_to_openlineage keeps every field create_asset wrote,
\* the port of the authority included, so two assets' lineage never merges.
LineageInjective ==
    \A s, t \in Slots :
        /\ s # t
        /\ stage[s] = "emitted" /\ stage[t] = "emitted"
        /\ intent[s] # NoIntent /\ intent[t] # NoIntent
        /\ ValidIntent(intent[s]) /\ ValidIntent(intent[t])
        /\ intent[s] # intent[t]
        => dataset[s] # dataset[t]

\* Spec section 8: a non-numeric port is refused "regardless of connector":
\* no stored asset has an authority whose port is not a number.
NonNumericPortRejected ==
    \A s \in Slots : stage[s] \in {"stored", "emitted", "crashed"} => PortIsNumeric(UrlSplit(uri[s]).netloc)

\* Spec section 6: the URI "must round-trip through standard generic URI
\* parsing".  Storing the re-joined URI leaves the dataset it converts to as
\* the handed-in URI gives it (mssql's namespace only gaining the port).
StoredUriKeepsDataset ==
    \A s \in Slots :
        LET before == ConvertAsset(raw[s])
            after  == ConvertAsset(uri[s])
        IN  stage[s] \in {"stored", "emitted"} /\ before.ok
              => /\ after.name = before.name
                 /\ UrlSplit(raw[s]).scheme # "mssql" => after.namespace = before.namespace


-----------------------------------------------------------------------------
(* Refinement: AssetLifecycle implements AssetIdentity.  The resource of  *)
(* an asset is its create_asset call (NoIntent for a hand-written URI), a *)
(* valid one is one of the documented shape, its identity the dataset the *)
(* convention gives; stored, rejected, emitted and crashed are registered, *)
(* refused, published and failed.  ReadBack is a stutter step.            *)

\* Every dataset convert_asset_to_openlineage can give a stored URI of the
\* inputs: what a resource of no documented shape may be published under.
StoredUris ==
    {NormalizeUri(r).uri : r \in {r \in {CreateAsset(i) : i \in Intents} \cup WrittenUris :
                                     NormalizeUri(r).ok}}

EmittedDatasets == {ConvertAsset(u) : u \in StoredUris}

AbstractStatus ==
    [empty |-> "empty", stored |-> "registered", rejected |-> "refused",
     emitted |-> "published", crashed |-> "failed"]

Abs == INSTANCE AssetIdentity
         WITH Resources  <- Intents \cup {NoIntent},
              NoResource <- NoIntent,
              Datasets   <- EmittedDatasets,
              NoId       <- NoDataset,
              Identity   <- Convention,
              IsValid    <- LAMBDA i : i # NoIntent /\ ValidIntent(i),
              status     <- [s \in Slots |-> AbstractStatus[stage[s]]],
              resource   <- intent,
              published  <- dataset

\* The life cycle implements the abstract identity registry: create_asset
\* from fields of the documented shape is never rejected, by Asset() or on
\* read-back, its conversion never raises and it is emitted under the
\* convention's dataset; read-back changes nothing the registry sees.
IdentityRefinement == Abs!Spec

=============================================================================
