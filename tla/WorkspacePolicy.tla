-------------------------- MODULE WorkspacePolicy --------------------------
(***************************************************************************)
(* cargo xtask verify-architecture: which dependency graphs the workspace  *)
(* check accepts. Pure operators. A graph is a set of dependencies         *)
(* [from, to, kind, exact, git, outside]; the check looks at one           *)
(* dependency at a time, the promise it serves is about whole paths.       *)
(***************************************************************************)
EXTENDS Naturals, FiniteSets

\* The classes of architecture/dependency-rules.json.
domain == {"tenancy-domain", "provisioning-domain", "auth-context", "audit-domain", "message-domain"}
application == {"platform-application", "cell-application", "routing-application"}
platform_binary == {"platform-api", "platform-worker", "tenant-router"}
cell_binary == {"cell-api", "cell-worker"}
deployable_binary == platform_binary \cup cell_binary \cup {"db-migrator", "nats-provisioner"}
composition_support == {"runtime-config", "process-lifecycle"}
secret_adapter == {"secret-resolution"}
postgres_provider == {"postgres-runtime", "platform-postgres", "cell-postgres", "postgres-message-store"}
migration_adapter == {"platform-migrations", "cell-migrations"}
qualification_tool == {"postgres-qualification", "message-store-qualification", "nats-qualification"}
authority_message_runtime == {"platform-message-runtime", "cell-message-runtime"}

Package == domain \cup application \cup deployable_binary \cup composition_support
  \cup secret_adapter \cup postgres_provider \cup migration_adapter \cup qualification_tool
  \cup authority_message_runtime \cup
  {"test-support", "xtask", "message-codec-json", "runtime-identity", "transport-probe-contracts",
   "nats-jetstream", "nats-jetstream-admin"}

\* External crates that a rule names.
External == {"sqlx", "async-nats", "secrecy", "serde", "anyhow", "getrandom", "tempfile", "tokio",
             "rdkafka"}

----------------------------------------------------------------------------
(* The explicit lists of dependency-rules.json.                            *)

\* Normal dependencies that allowed_workspace_edges lists.
Normal(p) ==
  LET both == {"postgres-runtime", "secret-resolution", "runtime-config", "process-lifecycle"}
      runtime == {"message-codec-json", "message-domain", "nats-jetstream", "postgres-message-store",
                  "process-lifecycle", "runtime-identity", "transport-probe-contracts"}
      domains == {"tenancy-domain", "provisioning-domain", "auth-context", "audit-domain"}
  IN
  CASE p \in {"provisioning-domain", "auth-context", "runtime-config", "message-domain"} -> {"tenancy-domain"}
    [] p = "audit-domain" -> {"auth-context", "tenancy-domain"}
    [] p \in {"platform-application", "cell-application", "test-support"} -> domains
    [] p = "routing-application" -> {"tenancy-domain", "auth-context"}
    [] p \in {"message-codec-json", "nats-jetstream"} -> {"message-domain", "tenancy-domain"}
    [] p = "secret-resolution" -> {"runtime-config"}
    [] p = "platform-postgres" -> {"postgres-runtime", "message-domain", "postgres-message-store"}
    [] p = "cell-postgres" -> {"postgres-runtime", "message-domain", "postgres-message-store",
                               "tenancy-domain", "cell-application"}
    [] p \in {"postgres-message-store", "runtime-identity", "transport-probe-contracts"} -> {"message-domain"}
    [] p = "platform-migrations" -> {"postgres-runtime"}
    [] p = "cell-migrations" -> {"postgres-runtime", "tenancy-domain"}
    [] p = "platform-api" -> both \cup {"platform-application", "platform-postgres"}
    [] p = "cell-api" -> both \cup {"cell-application", "cell-postgres"}
    [] p = "platform-worker" -> both \cup {"platform-application", "platform-postgres",
                                  "platform-message-runtime", "nats-jetstream", "runtime-identity"}
    [] p = "cell-worker" -> both \cup {"cell-application", "cell-postgres", "cell-message-runtime",
                              "nats-jetstream", "runtime-identity", "tenancy-domain"}
    [] p = "tenant-router" -> {"routing-application", "runtime-config", "process-lifecycle"}
    [] p = "db-migrator" -> migration_adapter \cup {"postgres-runtime", "secret-resolution", "runtime-config"}
    [] p = "platform-message-runtime" -> runtime \cup {"platform-postgres"}
    [] p = "cell-message-runtime" -> runtime \cup {"cell-postgres"}
    [] p = "nats-jetstream-admin" -> {"nats-jetstream", "tenancy-domain"}
    [] p = "nats-provisioner" -> {"nats-jetstream", "nats-jetstream-admin", "runtime-config", "secret-resolution"}
    [] p = "postgres-qualification" -> (postgres_provider \ {"postgres-message-store"}) \cup migration_adapter
         \cup {"tenancy-domain", "cell-application", "secret-resolution", "test-support"}
    [] p = "message-store-qualification" -> postgres_provider \cup migration_adapter
         \cup {"message-domain", "message-codec-json", "secret-resolution", "tenancy-domain", "cell-application"}
    [] p = "nats-qualification" -> postgres_provider \cup
         {"message-codec-json", "message-domain", "nats-jetstream", "nats-jetstream-admin",
          "secret-resolution", "tenancy-domain", "transport-probe-contracts"}
    [] OTHER -> {}

Dev(p) ==
  CASE p \in domain \cup application \cup composition_support
               \cup (deployable_binary \ {"nats-provisioner"}) \cup {"message-codec-json"} -> {"test-support"}
    [] p = "transport-probe-contracts" -> {"message-codec-json", "tenancy-domain"}
    [] p = "platform-message-runtime" -> {"tenancy-domain"}
    [] OTHER -> {}

allowed_workspace_edges(d) ==
  \/ d.kind = "normal" /\ d.to \in Normal(d.from)
  \/ d.kind = "dev" /\ d.to \in Dev(d.from)

Importers(crate) ==
  CASE crate = "sqlx" -> postgres_provider \cup migration_adapter \cup qualification_tool
    [] crate = "async-nats" -> {"nats-jetstream", "nats-jetstream-admin", "nats-qualification"}
    [] crate = "secrecy" -> migration_adapter \cup secret_adapter \cup
         {"postgres-runtime", "postgres-qualification", "nats-jetstream", "nats-jetstream-admin",
          "nats-qualification"}
    [] crate = "serde" -> qualification_tool \cup {"message-codec-json", "nats-jetstream",
         "nats-jetstream-admin", "runtime-config", "transport-probe-contracts", "xtask"}
    [] crate = "anyhow" -> deployable_binary \cup qualification_tool \cup {"xtask"}
    [] crate = "getrandom" -> {"runtime-identity", "xtask"}
    [] crate = "tokio" -> deployable_binary \cup qualification_tool \cup authority_message_runtime
         \cup {"nats-jetstream", "nats-jetstream-admin", "process-lifecycle"}
    [] OTHER -> {}

allowed_external_dependencies(d) ==
  \/ d.kind = "normal" /\ d.from \in Importers(d.to)
  \/ d.kind = "dev" /\ d.to = "tempfile" /\ d.from = "secret-resolution"

----------------------------------------------------------------------------
(* The checks of one dependency. Each set is a rule's packages that may    *)
(* not be depended on.                                                     *)

CellAuthority == {"cell-postgres", "cell-migrations", "cell-message-runtime", "cell-application"}
PlatformAuthority == {"platform-postgres", "platform-migrations", "platform-message-runtime",
                      "platform-application"}
CellPackages == CellAuthority \cup {"cell-api", "cell-worker"}
PlatformPackages == PlatformAuthority \cup {"platform-api", "platform-worker"}

Outward == application \cup composition_support \cup secret_adapter \cup postgres_provider
  \cup migration_adapter \cup qualification_tool \cup deployable_binary \cup {"xtask"}

\* Layers and authorities: who may look outward or across.
forbidden_across(from) ==
  (IF from \in domain THEN Outward ELSE {})
  \cup (IF from \in application THEN application ELSE {})
  \cup (IF from = "transport-probe-contracts"
        THEN authority_message_runtime \cup {"nats-jetstream", "nats-jetstream-admin"} ELSE {})
  \cup (IF from \in platform_binary THEN CellAuthority ELSE {})
  \cup (IF from \in cell_binary THEN PlatformAuthority ELSE {})
  \cup (IF from = "tenant-router"
        THEN secret_adapter \cup postgres_provider \cup migration_adapter \cup
             {"message-domain", "message-codec-json", "nats-jetstream", "nats-jetstream-admin"} ELSE {})
  \cup (IF from = "platform-postgres" THEN CellPackages ELSE {})
  \cup (IF from = "cell-postgres" THEN PlatformPackages ELSE {})
  \cup (IF from = "postgres-message-store" THEN {"platform-postgres", "cell-postgres"} ELSE {})

\* Packages with a short list of users: migrations, tools, providers.
forbidden_use(from, kind) ==
  (IF from \notin {"db-migrator", "postgres-qualification", "message-store-qualification"}
        THEN migration_adapter ELSE {})
  \cup qualification_tool
  \cup (IF from \notin {"nats-provisioner", "nats-qualification"} THEN {"nats-jetstream-admin"} ELSE {})
  \cup (IF from = "platform-message-runtime" THEN {"cell-postgres", "cell-message-runtime"} ELSE {})
  \cup (IF from = "cell-message-runtime" THEN {"platform-postgres", "platform-message-runtime"} ELSE {})
  \cup (IF from \in domain \cup application
        THEN secret_adapter \cup {"message-codec-json", "postgres-message-store"} ELSE {})
  \cup (IF from \in deployable_binary
        THEN {"postgres-message-store", "message-store-qualification"} ELSE {})
  \cup (IF from \in deployable_binary /\ kind = "normal" THEN {"test-support"} ELSE {})

forbidden_to(d) == forbidden_across(d.from) \cup forbidden_use(d.from, d.kind)

\* A mutant of validate_workspace_edge: the rules without the explicit list.
validate_workspace_classes(d) == d.to \notin forbidden_to(d)

validate_workspace_edge(d) == allowed_workspace_edges(d) /\ d.to \notin forbidden_to(d)

\* Who may depend on an external crate, apart from the explicit list.
permitted_from(d) ==
  LET inner == domain \cup application
      providers == postgres_provider \cup migration_adapter \cup qualification_tool
      nats == {"nats-jetstream", "nats-jetstream-admin"}
  IN  CASE d.to = "serde" -> Package \ domain
        [] d.to = "tokio" -> Package \ {"message-domain", "message-codec-json"}
        [] d.to = "async-nats" -> nats \cup {"nats-qualification"}
        [] d.to = "rdkafka" -> {}
        [] d.to = "anyhow" /\ d.kind = "normal" -> Package \ inner
        [] d.to = "sqlx" -> providers \ inner
        [] d.to = "secrecy" -> composition_support \cup secret_adapter \cup providers \cup nats
        [] d.to = "getrandom" -> {"xtask", "runtime-identity"}
        [] d.to = "tempfile" /\ d.kind = "normal" -> {}
        [] OTHER -> Package

validate_external_edge(d) == allowed_external_dependencies(d) /\ d.from \in permitted_from(d)

\* A runtime binary has the database adapters of one authority.
one_database_authority(graph) ==
  \A p \in deployable_binary \ {"db-migrator"} :
    LET needs(adapters) == \E d \in graph : d.from = p /\ d.to \in adapters IN
    ~(needs({"platform-postgres", "platform-migrations"}) /\ needs({"cell-postgres", "cell-migrations"}))

validate_graph(graph) ==
  /\ \A d \in graph :
       /\ d.exact /\ ~d.git /\ ~d.outside
       /\ IF d.to \in Package THEN validate_workspace_edge(d) ELSE validate_external_edge(d)
  /\ one_database_authority(graph)

----------------------------------------------------------------------------
(* What a package is built with: its own dependencies, then the normal     *)
(* dependencies of those.                                                  *)

Dependency(from, to, kind) ==
  [from |-> from, to |-> to, kind |-> kind, exact |-> TRUE, git |-> FALSE, outside |-> FALSE]

\* The largest graph that the lists admit.
ListedGraph ==
  {d \in {Dependency(p, q, k) : p \in Package, q \in Package, k \in {"normal", "dev"}} :
     allowed_workspace_edges(d)}
  \cup {d \in {Dependency(p, x, k) : p \in Package, x \in External, k \in {"normal", "dev"}} :
     allowed_external_dependencies(d)}

Direct(graph, P) == {d.to : d \in {e \in graph : e.from \in P /\ e.kind = "normal"}}
Further(graph, P) == P \cup Direct(graph, P)
Twice(graph, P) == Further(graph, Further(graph, P))
\* Eight steps: no path of the listed graph is longer.
Closure(graph, P) == Twice(graph, Twice(graph, Twice(graph, Twice(graph, P))))
BuiltWith(graph, p) == Closure(graph, Direct(graph, {p}))
=============================================================================
