--------------------------- MODULE MCProfileProject ---------------------------
(***************************************************************************)
(* A warehouse, a dashboard, an orchestrator, a transformation job and a   *)
(* reverse proxy, cut down from modules/warehouse/postgres, bi/superset,   *)
(* orchestration/dagster, transformation/dbt and integration/traefik (with *)
(* a Kubernetes form, and the expectations of identity/keycloak and a mail *)
(* relay outside the chart for the dashboard), and a profile that extends  *)
(* two others.                                                             *)
(***************************************************************************)
EXTENDS ProfileProject

MCFiles == {"profile", "left", "right", "base", "production", "composed"}

MCParts ==
    [i \in {"postgres", "superset", "dagster", "dbt", "traefik"} |-> <<i>>]
    @@ ("postgres-backup" :> <<"postgres", "backup">>)
    @@ ("postgres-data" :> <<"postgres", "data">>)
    @@ ("postgres-repo" :> <<"postgres", "repo">>)
    @@ ("superset-init" :> <<"superset", "init">>)
    @@ ("user-code" :> <<"user", "code">>)
    @@ ("dagster-webserver" :> <<"dagster", "webserver">>)
    @@ ("dagster-daemon" :> <<"dagster", "daemon">>)
    @@ ("dagster-grpc-socket" :> <<"dagster", "grpc", "socket">>)
    @@ ("dbt-run" :> <<"dbt", "run">>)
    @@ ("dbt-docs" :> <<"dbt", "docs">>)
    @@ ("dbt-target" :> <<"dbt", "target">>)
    @@ ("analytics-db" :> <<"analytics", "db">>)

MCConfigPaths ==
    {"port", "tls", "driver", "passwordFrom", "storage.enabled", "healthcheck.enabled", "backup.enabled", "backup.encryptionKeyFrom",
     "authentication.hostAuth", "metadataDatabase", "mail.relay", "webServer.mode", "image.variant", "image.tag", "image.source",
     "storage.runStorage", "webPort", "daemon.enabled", "warehouseType", "targetDatabase", "docs.enabled", "routes"}

MCCredentialPaths == {"passwordFrom"}
MCUnsupported == {}

(***************************************************************************)
(* Module definitions                                                      *)
(***************************************************************************)
Flags == {Flag(TRUE), Flag(FALSE)}
Field(allowed, required) == [allowed |-> allowed, required |-> required, byEnvironment |-> Nothing]
Preset(allowed, default) ==
    [allowed |-> allowed, required |-> FALSE, byEnvironment |-> Nothing, default |-> default]

References == {Binding(<<m, n>>) : m \in {"postgres", "analytics-db", "superset", "dbt", "ghost"},
                                   n \in {"sql-database", "http-service", "docs-service", "backup-target"}}

Consume(name, kind, from, required, gate) ==
    [name |-> name, kind |-> kind, from |-> from, required |-> required, requiredIf |-> gate,
     tls |-> FALSE, engineFrom |-> NoPath]

Service(gate, needs, mounts) ==
    [production |-> "any", gate |-> gate, override |-> Nothing, healthGate |-> NoGate,
     healthy |-> TRUE, profiled |-> FALSE, needs |-> needs, mounts |-> mounts]
Own(volume) == [volume |-> volume, binding |-> NoPath, gate |-> NoGate, production |-> "any"]
Always == [production |-> "any", gate |-> NoGate]

Base(category, name) ==
    [kindOk |-> TRUE, schemaOk |-> TRUE, name |-> name, key |-> NoKey, category |-> category,
     markers |-> {}, targets |-> {"docker-compose", "kubernetes"}]

Workload(containers, init, stateful, ports, waitFor) ==
    [gate |-> NoGate, containers |-> containers, init |-> init, stateful |-> stateful,
     service |-> [type |-> "ClusterIP", ports |-> ports], serviceName |-> NoPath,
     waitFor |-> waitFor, egress |-> {}]
Outbound(to, port) == [to |-> to, ports |-> {port}]

Postgres ==
    [schema |-> "port" :> [Preset({Port(5432), Port(5433)}, Port(5432)) EXCEPT !.required = TRUE]
                @@ "passwordFrom" :> Field({Secret("db"), Secret("gone")}, TRUE)
                @@ "storage.enabled" :> Preset(Flags, Flag(TRUE))
                @@ "healthcheck.enabled" :> Preset(Flags, Flag(TRUE))
                @@ "backup.enabled" :> Preset(Flags, Flag(FALSE))
                @@ "backup.encryptionKeyFrom" :> Field({Secret("key")}, FALSE)
                @@ "tls" :> Preset(Flags, Flag(FALSE))
                @@ "authentication.hostAuth" :>
                     Preset({Text("scram-sha-256"), Text("trust")}, Text("scram-sha-256")),
     provides |-> <<[name |-> "sql-database", kind |-> "sql-database",
                     spec |-> "host" :> ServiceDns @@ "port" :> FromConfig("port")
                              @@ "engine" :> Literal(Text("postgres"))
                              @@ "tls" :> FromConfig("tls")
                              @@ "authentication" :> FromConfig("authentication.hostAuth")],
                    [name |-> "backup-target", kind |-> "backup-target",
                     spec |-> "encrypted" :> Literal(Flag(TRUE))
                              @@ "supportsRestoreVerification" :> Literal(Flag(TRUE))]>>,
     consumes |-> <<>>,
     services |-> "postgres" :> [Service(NoGate, Nothing, {Own("postgres-data")})
                                   EXCEPT !.healthGate = Switch("healthcheck.enabled")]
                  @@ "postgres-backup" :>
                       [Service(Switch("backup.enabled"), "postgres" :> "service_healthy",
                                {Own("postgres-data"), Own("postgres-repo")})
                        EXCEPT !.production = "only"],
     volumes |-> "postgres-data" :> [production |-> "any", gate |-> Switch("storage.enabled")]
                 @@ "postgres-repo" :> [production |-> "only", gate |-> Switch("backup.enabled")],
     workloads |-> "postgres" :> Workload({"postgres"}, {}, TRUE,
                                          {[port |-> Literal(Port(5432)), target |-> 5432]}, {})]
    @@ Base("warehouse", "postgres")

Superset ==
    [schema |-> "metadataDatabase" :> Field(References, TRUE)
                @@ "mail.relay" :> Preset({Address("192.0.2.7"), Text("relay")}, Address("192.0.2.7"))
                @@ "driver" :> Preset({Text("postgres"), Text("mysql")}, Text("postgres"))
                @@ "webServer.mode" :> Preset({Text("production"), Text("development")}, Text("production"))
                @@ "image.tag" :> Preset({Tag("base", "6")}, Tag("base", "6"))
                @@ "image.source" :> Preset({Text("build"), Text("registry")}, Text("build")),
     provides |-> <<[name |-> "http-service", kind |-> "http-service",
                     spec |-> "host" :> ServiceDns @@ "port" :> Literal(Port(80))]>>,
     consumes |-> <<[Consume("metadata-database", "sql-database", "metadataDatabase", TRUE, NoGate)
                     EXCEPT !.tls = TRUE, !.engineFrom = "driver"]>>,
     services |-> "superset" :> Service(NoGate, "superset-init" :> "service_completed_successfully", {})
                  @@ "superset-init" :> [Service(NoGate, Nothing, {}) EXCEPT !.healthy = FALSE],
     volumes |-> Nothing,
     workloads |-> "superset" :> [Workload({"superset"}, {"superset-init"}, FALSE,
                        {[port |-> Literal(Port(80)), target |-> 8088]},
                        {[host |-> GateOnBinding("metadata-database"), port |-> Blank],
                         [host |-> GateOnHost(FromConfig("mail.relay")), port |-> Port(25)]})
                        EXCEPT !.egress = {Outbound(FromConfig("mail.relay"), Port(25))}]]
    @@ Base("bi", "superset")

RunStorage == [host |-> GateOnBinding("run-storage"), port |-> Blank]
CodeServer == [host |-> GateOnWorkload("user-code"), port |-> Port(4000)]

Dagster ==
    [schema |-> "storage.runStorage" :> Field(References, TRUE)
                @@ "webPort" :> [Preset({Port(3000)}, Port(3000)) EXCEPT !.required = TRUE]
                @@ "daemon.enabled" :> Preset(Flags, Flag(TRUE))
                @@ "image.variant" :> [Preset({Text("base"), Text("hardened")}, Text("base")) EXCEPT
                                         !.byEnvironment = "production" :> Text("hardened")]
                @@ "image.tag" :> Preset({Tag("base", "1"), Tag("hardened", "1"), Tag("base", "2")},
                                         Tag("base", "1"))
                @@ "image.source" :> Preset({Text("build"), Text("registry")}, Text("build")),
     provides |-> <<[name |-> "http-service", kind |-> "http-service",
                     spec |-> "host" :> ServiceHost @@ "port" :> FromConfig("webPort")
                              @@ "serviceName" :> Literal(Text("dagster-webserver"))]>>,
     consumes |-> <<Consume("run-storage", "sql-database", "storage.runStorage", TRUE, NoGate)>>,
     services |-> "user-code" :> Service(NoGate, Nothing, {Own("dagster-grpc-socket")})
                  @@ "dagster-webserver" :> Service(NoGate, "user-code" :> "service_healthy",
                                                    {Own("dagster-grpc-socket")})
                  @@ "dagster-daemon" :> Service(Switch("daemon.enabled"),
                                                 "user-code" :> "service_healthy",
                                                 {Own("dagster-grpc-socket")}),
     volumes |-> "dagster-grpc-socket" :> Always,
     workloads |->
         "user-code" :> Workload({"user-code"}, {}, FALSE,
                                 {[port |-> Literal(Port(4000)), target |-> 4000]}, {RunStorage})
         @@ "webserver" :> Workload({"dagster-webserver"}, {}, FALSE,
                                    {[port |-> FromConfig("webPort"), target |-> 3000]},
                                    {RunStorage, CodeServer})
         @@ "daemon" :> [Workload({"dagster-daemon"}, {}, FALSE, {}, {RunStorage, CodeServer})
                         EXCEPT !.service = NoService]]
    @@ Base("orchestration", "dagster")

Dbt ==
    [schema |-> "warehouseType" :> Preset({Text("postgres"), Text("duckdb")}, Text("postgres"))
                @@ "targetDatabase" :> Preset(References \cup {Blank}, Blank)
                @@ "docs.enabled" :> Preset(Flags, Flag(TRUE)),
     provides |-> <<[name |-> "docs-service", kind |-> "http-service",
                     spec |-> "host" :> ServiceHost @@ "port" :> Literal(Port(8090))
                              @@ "serviceName" :> Literal(Text("dbt-docs"))]>>,
     consumes |-> <<Consume("target-database", "sql-database", "targetDatabase", FALSE,
                            Equals("warehouseType", Text("postgres")))>>,
     services |-> "dbt-run" :> [Service(NoGate, Nothing, {Own("dbt-target")}) EXCEPT !.healthy = FALSE]
                  @@ "dbt-docs" :> Service(Switch("docs.enabled"),
                                           "dbt-run" :> "service_completed_successfully",
                                           {Own("dbt-target")}),
     volumes |-> "dbt-target" :> Always,
     workloads |-> Nothing]
    @@ [Base("transformation", "dbt") EXCEPT !.targets = {"docker-compose"}]

Traefik ==
    [schema |-> "routes" :> Field({Bindings(<<>>), Bindings(<< <<"superset", "http-service">> >>),
                                   Bindings(<< <<"superset", "http-service">>, <<"dbt", "docs-service">> >>)},
                                  FALSE),
     provides |-> <<[name |-> "reverse-proxy", kind |-> "reverse-proxy",
                     spec |-> "host" :> ServiceDns @@ "tls" :> Literal(Flag(TRUE))]>>,
     consumes |-> <<Consume("routes", "http-service", "routes", FALSE, NoGate)>>,
     services |-> "traefik" :> Service(NoGate, Nothing, {}),
     volumes |-> Nothing,
     workloads |-> "traefik" :> Workload({"traefik"}, {}, FALSE,
                                         {[port |-> Literal(Port(443)), target |-> 8443]}, {})]
    @@ Base("integration", "traefik")

MCCatalog ==
    "postgres" :> Postgres @@ "superset" :> Superset @@ "dagster" :> Dagster @@ "dbt" :> Dbt
    @@ "traefik" :> Traefik
    @@ "broken" :> Unreadable

(***************************************************************************)
(* The files                                                               *)
(***************************************************************************)
Doc(extends, sections, modules) == [extends |-> extends, sections |-> sections, modules |-> modules]
Entry(id, fields) == [id |-> id, fields |-> fields]
On(source) == "source" :> source @@ "enabled" :> TRUE

BaseFile ==
    Doc(NoExtends,
        "metadata" :> ("environment" :> "local")
        @@ "secrets" :> ("db" :> [env |-> "DB", required |-> TRUE]
                         @@ "key" :> [env |-> "KEY", required |-> TRUE]),
        <<Entry("postgres", On("postgres") @@ "port" :> Port(5432)
                            @@ "tls" :> Flag(TRUE) @@ "passwordFrom" :> Secret("db"))>>)

LeftFile ==
    Doc(<<"base">>, Nothing,
        <<Entry("superset", On("superset") @@ "dependsOn" :> <<"postgres">>
                            @@ "metadataDatabase" :> Binding(<<"postgres", "sql-database">>)),
          Entry("dagster", On("dagster") @@ "dependsOn" :> <<"postgres">>
                           @@ "webPort" :> Port(3000)
                           @@ "storage.runStorage" :> Binding(<<"postgres", "sql-database">>))>>)

\* The transformation job with its documentation server, switched on.
BusyRightFile ==
    Doc(NoExtends, Nothing,
        <<Entry("dbt", On("dbt") @@ "warehouseType" :> Text("postgres") @@ "dependsOn" :> <<"superset">>
                       @@ "targetDatabase" :> Binding(<<"postgres", "sql-database">>))>>)

RightFile ==
    Doc(NoExtends, "outputs" :> ("url" :> <<"superset", "http-service">>),
        <<Entry("dbt", [On("dbt") EXCEPT !["enabled"] = FALSE])>>)

ProfileFile ==
    Doc(<<"left", "right">>, Nothing,
        <<Entry("traefik", On("traefik") @@ "routes" :> Bindings(<< <<"superset", "http-service">> >>))>>)

ProductionFile ==
    Doc(NoExtends,
        "metadata" :> ("environment" :> "production")
        @@ "backup" :> ("encryption" :> "key" @@ "target" :> <<"postgres", "backup-target">>
                        @@ "policies" :> <<[class |-> "configuration", restoreVerified |-> TRUE],
                                           [class |-> "warehouse", restoreVerified |-> TRUE],
                                           [class |-> "orchestration-metadata", restoreVerified |-> TRUE],
                                           [class |-> "bi-metadata", restoreVerified |-> TRUE]>>),
        <<Entry("postgres", "authentication.hostAuth" :> Text("scram-sha-256"))>>)

\* A profile that extends nothing, for compose-profile --write.
PlainFile == Doc(NoExtends, BaseFile.sections, BaseFile.modules)

MCInitialDisk ==
    "profile" :> ProfileFile @@ "left" :> LeftFile @@ "right" :> RightFile @@ "base" :> BaseFile
    @@ "production" :> ProductionFile @@ "composed" :> Absent

MCFieldEdits ==
    {<<"profile", "postgres", "port", Port(5433)>>,
     <<"left", "postgres", "port", Port(5433)>>,
     <<"base", "postgres", "storage.enabled", Flag(FALSE)>>,
     <<"base", "postgres", "healthcheck.enabled", Flag(FALSE)>>,
     <<"production", "postgres", "backup.enabled", Flag(TRUE)>>,
     <<"production", "postgres", "backup.encryptionKeyFrom", Secret("key")>>,
     <<"left", "superset", "dependsOn", <<"postgres", "traefik">> >>,
     <<"profile", "traefik", "dependsOn", <<"superset">> >>,
     <<"profile", "traefik", "dependsOn", <<"traefik">> >>,
     <<"profile", "traefik", "enabled", FALSE>>,
     <<"profile", "traefik", "routes",
       Bindings(<< <<"superset", "http-service">>, <<"dbt", "docs-service">> >>)>>,
     <<"right", "dbt", "enabled", TRUE>>,
     <<"right", "dbt", "warehouseType", Text("postgres")>>,
     <<"right", "dbt", "targetDatabase", Binding(<<"postgres", "sql-database">>)>>,
     <<"right", "dbt", "docs.enabled", Flag(FALSE)>>,
     <<"left", "superset", "metadataDatabase", Binding(<<"postgres", "backup-target">>)>>,
     <<"left", "superset", "metadataDatabase", Absent>>,
     <<"left", "superset", "driver", Text("mysql")>>,
     <<"left", "superset", "mail.relay", Text("relay")>>,
     <<"base", "postgres", "tls", Flag(FALSE)>>,
     <<"base", "postgres", "enabled", FALSE>>,
     <<"base", "postgres", "source", "broken">>,
     <<"base", "postgres", "passwordFrom", Secret("gone")>>,
     <<"base", "postgres", "authentication.hostAuth", Text("trust")>>,
     <<"production", "dagster", "image.variant", Text("base")>>,
     <<"left", "dagster", "image.tag", Tag("base", "2")>>,
     <<"left", "dagster", "image.source", Text("registry")>>,
     <<"left", "dagster", "daemon.enabled", Flag(FALSE)>>,
     <<"production", "superset", "webServer.mode", Text("development")>>}

MCSectionEdits ==
    {<<"profile", "outputs", "url", <<"dbt", "docs-service">> >>,
     <<"base", "metadata", "environment", "production">>,
     <<"production", "metadata", "environment", "staging">>,
     <<"production", "backup", "encryption", Absent>>}

MCExtendsEdits ==
    {<<"right", <<"base">> >>, <<"base", <<"profile">> >>, <<"profile", <<"right", "left">> >>,
     <<"left", <<Outside>> >>, <<"right", BadExtends>>, <<"right", <<>> >>}

MCContentEdits ==
    {<<"profile", PlainFile>>, <<"base", Absent>>, <<"production", Unreadable>>,
     <<"right", BusyRightFile>>,
     <<"right", [RightFile EXCEPT !.modules = BadModules]>>,
     <<"right", [RightFile EXCEPT !.modules = @ \o @]>>}

Ask(source, id, config, bindings) ==
    [source |-> source, id |-> id, enabled |-> TRUE, dependsOn |-> <<>>, config |-> config,
     bindings |-> bindings, secretEnvs |-> "new" :> "NEW"]

MCRequests ==
    {Ask("superset", NoId, Nothing, Nothing),
     Ask("postgres", "analytics-db", "port" :> Port(5432) @@ "passwordFrom" :> Secret("new"), Nothing),
     Ask("dbt", "dbt", Nothing, "target-database" :> <<"analytics-db", "sql-database">>),
     Ask("dbt", "dbt", Nothing, "target-database" :> <<"postgres", "sql-database">>)}

MCOptionSets ==
    {[hardened |-> FALSE, imageSource |-> Absent, env |-> {"DB", "KEY", "NEW"}, allowMissing |-> FALSE],
     [hardened |-> TRUE, imageSource |-> "registry", env |-> {}, allowMissing |-> TRUE]}

=============================================================================
