------------------------- MODULE MC_AssetLifecycle -------------------------
(***************************************************************************)
(* Inputs for checking AssetLifecycle: the create_asset calls of the unit  *)
(* tests with one- and two-token identifiers, and hand-written URIs taken  *)
(* from the tests' failure cases plus the boundary cases of each sanitize *)
(* (empty port, root-only path, empty path segment).                       *)
(***************************************************************************)
EXTENDS AssetLifecycle

\* Two distinct one-token identifiers; a bare token per other field.
Ids   == {<<"a">>, <<"b">>}
Ports == {<<>>, <<"1">>}            \* <<>>: the caller omits port=

MCIntents ==
       [conn: {"mssql"}, host: {<<"h">>}, port: Ports, database: Ids,
        schema: {<<"a">>}, table: Ids \cup {<<>>}]
  \cup [conn: {"teradata"}, host: {<<"h">>}, port: Ports, database: Ids, table: Ids]
  \cup [conn: {"sqlite"}, path: {<<"p">>, <<"p", "/", "q">>}, table: Ids \cup {<<>>}]
  \cup [conn: {"adls"}, scheme: {"abfss", "abfs"}, container: {<<"c">>},
        account: {<<"a">>}, path: {<<"/", "f">>, <<"/", "d", "/", "f">>, <<"/">>, <<>>}]
  \cup [conn: {"wasb"}, scheme: {"wasbs"}, container: {<<"c">>},
        account: {<<"a">>}, path: {<<"/", "f">>, <<"/">>}]
  \cup [conn: {"asb"}, namespace: {<<"n">>}, queue_or_topic: Ids]
  \cup [conn: {"pubsub"}, project_id: {<<"pr">>}, topic: Ids]
  \cup [conn: {"kafka"}, server: {<<"k">>, <<"k", ":", "1">>}, topic: Ids]

\* scheme://netloc followed by the path tokens
U(scheme, netloc, path) == SchemePrefix(scheme) \o netloc \o path

MCWrittenUris == {
    U("mssql", <<"h">>, <<"/", "a", "/", "b", "/", "c">>),             \* default port
    U("mssql", <<"h", ":">>, <<"/", "a", "/", "b", "/", "c">>),        \* empty port
    U("mssql", <<"u", "@", "h">>, <<"/", "a", "/", "b", "/", "c">>),   \* user@host
    U("mssql", <<"h", ":", "x">>, <<"/", "a", "/", "b", "/", "c">>),   \* port "x"
    U("mssql", <<>>, <<"/", "a", "/", "b", "/", "c">>),                \* no host
    U("mssql", <<"h">>, <<"/", "a", "/", "b">>),                       \* missing component
    U("mssql", <<"h">>, <<"/", "a", "/", "b", "/">>),                  \* empty table
    U("mssql", <<"h">>, <<"/", "a", "/", "b", "/", "c", "/", "d">>),   \* extra component
    U("kafka", <<"k">>, <<>>),                                         \* no topic
    U("kafka", <<"k">>, <<"/">>),                                      \* root only
    U("teradata", <<"h">>, <<"/", "a", "/", "b">>),                    \* no port
    U("pubsub", <<"pr">>, <<"/", "subscriptions", "/", "a">>),        \* subscription
    U("sqlite", <<>>, <<>>),                                           \* blank
    U("abfss", <<>>, <<"/", "f">>),                                    \* no container
    U("wasbs", <<"c", "@", "a">> \o BlobSuffix, <<>>)                  \* no path
}

MCTokens ==
    Seps \cup {"a", "b", "c", "d", "f", "h", "k", "n", "p", "q", "u", "x", "pr",
               "1", "1433", "1025", "dfs", "blob", "core", "windows", "net", "topics",
               "sqlite", "mssql", "abfss", "abfs", "wasbs", "wasb", "azservicebus",
               "pubsub", "kafka", "teradata", "subscriptions"}

MCDigits == {"1", "1433", "1025"}

MCNoIntent == [conn |-> "none"]

\* wasb's create_asset called with scheme="wasb", as test_create_asset_wasb_scheme.
WasbSchemeIntents ==
    MCIntents \cup [conn: {"wasb"}, scheme: {"wasb"}, container: {<<"c">>},
                    account: {<<"a">>}, path: {<<"/", "f">>}]

\* sqlite's create_asset with a relative and an absolute database path, as
\* test_basic and test_absolute_path.
SqlitePathIntents ==
    [conn: {"sqlite"}, path: {<<"p", "/", "q">>, <<"/", "p", "/", "q">>}, table: {<<"t">>}]

\* adls's create_asset with a path written without its leading "/", as a
\* caller used to sqlite's relative paths would.
AdlsRelativePathIntents ==
    [conn: {"adls"}, scheme: {"abfss"}, container: {<<"c">>}, account: {<<"a">>},
     path: {<<"d", "/", "f">>}]

\* adls's create_asset with an empty container: the netloc
\* "@a.dfs.core.windows.net" has nothing before the "@" for the regex's ".+".
AdlsEmptyContainerIntents ==
    AdlsRelativePathIntents \cup
    [conn: {"adls"}, scheme: {"abfss"}, container: {<<>>}, account: {<<"a">>},
     path: {<<"/", "f">>}]

\* A teradata URI with a third path segment, as the extra-component URIs the
\* other database connectors' tests refuse.
ExtraSegmentUris == MCWrittenUris \cup {U("teradata", <<"h">>, <<"/", "a", "/", "b", "/", "c">>)}

\* A pubsub URI written without the topics/ segment.
BarePubsubUris == MCWrittenUris \cup {U("pubsub", <<"pr">>, <<"/", "a">>)}

\* A Kafka authority whose port is not a number.
BadPortUris == MCWrittenUris \cup {U("kafka", <<"k", ":", "x">>, <<"/", "t">>)}

\* mssql: sanitize_uri fills in 1433.  Teradata's create_asset defaults the
\* port to 1025 but its sanitize_uri fills in nothing.
MssqlDefaultPort    == "mssql" :> "1433"
DatabaseDefaultPort == ("mssql" :> "1433") @@ ("teradata" :> "1025")

=============================================================================
