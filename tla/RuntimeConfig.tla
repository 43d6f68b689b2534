--------------------------- MODULE RuntimeConfig ---------------------------
(***************************************************************************)
(* What the processes do with their configuration before they do any       *)
(* work: two sources are merged, validated per service, and the accepted   *)
(* values are handed to the constructors of the database, transport and    *)
(* message runtimes, each of which validates again. Pure operators; a      *)
(* source is a function from fields to values. A text value is named       *)
(* after the class its validator tells apart ("empty", "long", "control"), *)
(* a number that does not parse is -1, times are milliseconds.             *)
(***************************************************************************)
EXTENDS Integers, Sequences, FiniteSets, SequencesExt, TLC

CONSTANTS
  Width,   \* bits of the retry arithmetic (64 in the code)
  Absent   \* a field that a source does not set

shl(n) == 2^n   \* 1_u64.checked_shl(n)
contains(low, high, n) == n \in low..high   \* (low..=high).contains(n)
from_mins(n) == 60000 * n
from_secs(n) == 1000 * n

MAX_SHUTDOWN_GRACE_MS == 300000
MAX_DATABASE_TIMEOUT_MS == 3600000
MAX_MAX_LIFETIME_MS == 86400000
MAX_MIGRATION_TIMEOUT_MS == 3600000
MIN_TRANSPORT_TIMEOUT_MS == 100
MAX_TRANSPORT_TIMEOUT_MS == 300000
MAX_CONSUMER_ACK_WAIT_MS == 30000
MAX_PORT == 65535

\* Shifts grow: a law of arithmetic that the provers do not know.
ASSUME RuntimeConfigAssumption ==
  /\ Width \in Nat /\ Width >= 20
  /\ \A m \in 0..Width : shl(m) \in Nat /\ \A n \in 0..Width : m < n => shl(m) < shl(n)

----------------------------------------------------------------------------
(* Fields, as the raw structures declare them.                             *)

DatabaseTimeouts == <<"database.acquire_timeout_ms", "database.connect_timeout_ms",
  "database.statement_timeout_ms", "database.lock_timeout_ms",
  "database.idle_in_transaction_timeout_ms">>

DatabaseFields == ToSet(DatabaseTimeouts) \cup
  {"database.credential_ref", "database.tls_mode", "database.max_connections",
   "database.min_connections", "database.max_lifetime_ms"}

TransportTimeouts == <<"transport.connect_timeout_ms", "transport.request_timeout_ms",
  "transport.publish_ack_timeout_ms", "transport.startup_timeout_ms">>

TransportIntervals == {"transport.outbox_poll_interval_ms",
  "transport.consumer_fetch_expires_ms", "transport.consumer_nak_delay_ms"}

\* Fields that are read as u16.
TransportSizes == {"transport.outbox_claim_batch_size", "transport.publish_concurrency",
  "transport.consumer_fetch_batch_size", "transport.consumer_max_in_flight"}

TransportTexts == {"transport.credential_ref", "transport.tls_mode",
  "transport.ca_certificate_file", "transport.expected_server_minimum",
  "transport.expected_server_maximum_exclusive"}

TransportFields == ToSet(TransportTimeouts) \cup TransportIntervals \cup TransportSizes
  \cup TransportTexts \cup
  {"transport.servers", "transport.outbox_lease_ms", "transport.retry_base_ms",
   "transport.retry_max_ms", "transport.consumer_handler_timeout_ms"}

NumericFields == ToSet(DatabaseTimeouts \o TransportTimeouts) \cup TransportIntervals
  \cup TransportSizes \cup
  {"shutdown_grace_ms", "migration_timeout_ms", "topology_apply_timeout_ms",
   "database.max_connections", "database.min_connections", "database.max_lifetime_ms",
   "transport.outbox_lease_ms", "transport.retry_base_ms", "transport.retry_max_ms",
   "transport.consumer_handler_timeout_ms"}

RawConfig == {"environment", "log_filter", "shutdown_grace_ms", "cell_id",
  "migration_scope", "migration_timeout_ms", "topology_file",
  "topology_apply_timeout_ms"} \cup DatabaseFields \cup TransportFields

\* "unknown" stands for any key that no structure declares.
Field == RawConfig \cup {"unknown"}

\* unwrap_or(DEFAULT_...) of every optional field that has a default.
Default ==
  [f \in {"database.tls_mode", "transport.tls_mode"} |-> "verify_full"]
  @@ [f \in {"database.max_connections"} |-> 10]
  @@ [f \in {"database.min_connections"} |-> 0]
  @@ [f \in ToSet(DatabaseTimeouts) |->
        CASE f = "database.statement_timeout_ms" -> 30000
          [] f = "database.idle_in_transaction_timeout_ms" -> 15000
          [] OTHER -> 5000]
  @@ [f \in {"database.max_lifetime_ms"} |-> 1800000]
  @@ [f \in {"migration_timeout_ms"} |-> 600000]
  @@ [f \in ToSet(TransportTimeouts) |-> IF f = "transport.startup_timeout_ms" THEN 30000 ELSE 5000]
  @@ [f \in TransportIntervals |->
        CASE f = "transport.outbox_poll_interval_ms" -> 100
          [] f = "transport.consumer_fetch_expires_ms" -> 1000
          [] OTHER -> 5000]
  @@ [f \in TransportSizes |->
        CASE f = "transport.publish_concurrency" -> 16
          [] f = "transport.consumer_max_in_flight" -> 64
          [] OTHER -> 100]
  @@ [f \in {"transport.outbox_lease_ms", "transport.retry_max_ms",
             "topology_apply_timeout_ms", "shutdown_grace_ms"} |-> 30000]
  @@ [f \in {"transport.retry_base_ms"} |-> 250]
  @@ [f \in {"transport.consumer_handler_timeout_ms"} |-> 20000]
  @@ [f \in {"transport.expected_server_minimum"} |-> "2.14.3"]
  @@ [f \in {"transport.expected_server_maximum_exclusive"} |-> "2.15.0"]
  @@ [f \in {"log_filter"} |-> "info"]

Given(raw, f) == raw[f] # Absent
Value(raw, f) == IF Given(raw, f) THEN raw[f] ELSE Default[f]

\* A nested structure is present as soon as one of its fields is.
HasDatabase(raw) == \E f \in DatabaseFields : Given(raw, f)
HasTransport(raw) == \E f \in TransportFields : Given(raw, f)

----------------------------------------------------------------------------
(* Validation: a list of checks, the first that fails is the error.        *)

Check(holds, error) == [holds |-> holds, error |-> error]
InvalidField(f, holds) == Check(holds, <<"InvalidField", f>>)
MissingField(f, holds) == Check(holds, <<"MissingField", f>>)
UnexpectedField(f, present) == Check(~present, <<"UnexpectedField", f>>)

FirstError(checks) ==
  LET failing == {i \in DOMAIN checks : ~checks[i].holds} IN
  IF failing = {} THEN <<"ok">>
  ELSE checks[CHOOSE i \in failing : \A j \in failing : i <= j].error

Each(fields, check(_)) == [i \in DOMAIN fields |-> check(fields[i])]

\* Length bounds and control characters of LogFilter, SecretReference and paths.
Bounded(text) == text \notin {"empty", "long", "control"}

reject_migration_fields(raw) ==
  Each(<<"migration_scope", "migration_timeout_ms">>, LAMBDA f : UnexpectedField(f, Given(raw, f)))

reject_provisioner_fields(raw) ==
  Each(<<"topology_file", "topology_apply_timeout_ms">>, LAMBDA f : UnexpectedField(f, Given(raw, f)))

validate_cell_id(raw) ==
  <<MissingField("cell_id", Given(raw, "cell_id")), InvalidField("cell_id", raw["cell_id"] # "invalid")>>

validate_base(raw) ==
  <<MissingField("environment", Given(raw, "environment")),
    InvalidField("environment", raw["environment"] \in {"dev", "npr", "prd"}),
    InvalidField("log_filter", Bounded(Value(raw, "log_filter"))),
    InvalidField("shutdown_grace_ms", contains(100, MAX_SHUTDOWN_GRACE_MS, Value(raw, "shutdown_grace_ms")))>>

\* TLS may only be switched off in the developer environment.
validate_tls_mode(raw, f) ==
  <<InvalidField(f, Value(raw, f) \in {"disable", "verify_full"}),
    InvalidField(f, Value(raw, f) = "disable" => raw["environment"] = "dev")>>

validate_database(raw) ==
  LET v(f) == Value(raw, f)
      max == v("database.max_connections")
  IN  <<MissingField("database", HasDatabase(raw)),
        MissingField("database.credential_ref", Given(raw, "database.credential_ref")),
        InvalidField("database.credential_ref", Bounded(raw["database.credential_ref"]))>>
      \o validate_tls_mode(raw, "database.tls_mode")
      \o <<InvalidField("database.max_connections", contains(1, 100, max)),
           InvalidField("database.min_connections", v("database.min_connections") <= max)>>
      \o Each(DatabaseTimeouts, LAMBDA f : InvalidField(f, contains(100, MAX_DATABASE_TIMEOUT_MS, v(f))))
      \o <<InvalidField("database.max_lifetime_ms",
                        contains(1000, MAX_MAX_LIFETIME_MS, v("database.max_lifetime_ms")))>>

\* A server is <<scheme, host, port, rest>>; rest is what may not be there.
validate_transport_server(server, tls) ==
  /\ server[1] = (IF tls = "verify_full" THEN "tls" ELSE "nats")
  /\ Bounded(server[2])
  /\ contains(1, MAX_PORT, server[3])
  /\ server[4] = ""

validate_servers(raw) ==
  LET servers == raw["transport.servers"]
      tls == Value(raw, "transport.tls_mode")
      known == IF Given(raw, "transport.servers") THEN servers ELSE <<>>
  IN  <<MissingField("transport.servers", Given(raw, "transport.servers")),
        InvalidField("transport.servers", contains(1, 8, Len(known))),
        InvalidField("transport.servers",
                /\ \A i \in DOMAIN known : validate_transport_server(known[i], tls)
                /\ IsInjective(known))>>

validate_ca_certificate(raw) ==
  LET f == "transport.ca_certificate_file"
      verified == Value(raw, "transport.tls_mode") = "verify_full"
  IN  <<MissingField(f, verified => Given(raw, f)),
        InvalidField(f, verified => Bounded(raw[f])),
        UnexpectedField(f, ~verified /\ Given(raw, f))>>

\* A mutant of validate_transport: the timeouts of the outbox are validated one by one.
validate_outbox_apart(raw) ==
  LET v(f) == Value(raw, f) IN
  <<InvalidField("transport.outbox_lease_ms",
            contains(1000, MAX_TRANSPORT_TIMEOUT_MS, v("transport.outbox_lease_ms")))>>

\* The lease outlives one publish acknowledgment and is a whole number of seconds.
validate_outbox_lease(raw) ==
  LET v(f) == Value(raw, f) IN
  <<InvalidField("transport.outbox_lease_ms",
            /\ contains(1000, MAX_TRANSPORT_TIMEOUT_MS, v("transport.outbox_lease_ms"))
            /\ v("transport.outbox_lease_ms") % 1000 = 0),
    InvalidField("transport.outbox_lease_ms",
            v("transport.outbox_lease_ms") > v("transport.publish_ack_timeout_ms"))>>

validate_transport(raw) ==
  LET v(f) == Value(raw, f)
      size(f, max) == InvalidField(f, contains(1, max, v(f)))
  IN  <<MissingField("transport", HasTransport(raw))>>
      \o validate_tls_mode(raw, "transport.tls_mode")
      \o validate_servers(raw)
      \o <<MissingField("transport.credential_ref", Given(raw, "transport.credential_ref")),
           InvalidField("transport.credential_ref", Bounded(raw["transport.credential_ref"]))>>
      \o validate_ca_certificate(raw)
      \o Each(TransportTimeouts, LAMBDA f :
           InvalidField(f, contains(MIN_TRANSPORT_TIMEOUT_MS, MAX_TRANSPORT_TIMEOUT_MS, v(f))))
      \o <<InvalidField("transport.startup_timeout_ms",
                   v("transport.startup_timeout_ms") >= v("transport.connect_timeout_ms")),
           size("transport.outbox_poll_interval_ms", MAX_TRANSPORT_TIMEOUT_MS),
           size("transport.outbox_claim_batch_size", 500)>>
      \o validate_outbox_lease(raw)
      \o <<size("transport.publish_concurrency", 128),
           size("transport.retry_base_ms", MAX_TRANSPORT_TIMEOUT_MS),
           InvalidField("transport.retry_max_ms",
                   contains(v("transport.retry_base_ms"), MAX_TRANSPORT_TIMEOUT_MS,
                            v("transport.retry_max_ms"))),
           size("transport.consumer_fetch_batch_size", 500),
           size("transport.consumer_fetch_expires_ms", MAX_TRANSPORT_TIMEOUT_MS),
           size("transport.consumer_handler_timeout_ms", MAX_CONSUMER_ACK_WAIT_MS - 1),
           size("transport.consumer_nak_delay_ms", MAX_TRANSPORT_TIMEOUT_MS),
           size("transport.consumer_max_in_flight", 1024),
           InvalidField("transport.expected_server_minimum",
                   v("transport.expected_server_minimum") = "2.14.3"),
           InvalidField("transport.expected_server_maximum_exclusive",
                   v("transport.expected_server_maximum_exclusive") = "2.15.0")>>

----------------------------------------------------------------------------
(* One loader per kind of service.                                         *)

accepts_platform_config(s) == s \in {"platform-api", "platform-worker"}
accepts_cell_config(s) == s \in {"cell-api", "cell-worker"}
Service == {"platform-api", "platform-worker", "cell-api", "cell-worker", "tenant-router",
            "db-migrator", "nats-provisioner"}

\* Lengths of the texts that names are put together from, which the provers
\* do not compute.
ASSUME NameLengths ==
  /\ Len("edtech-") = 7 /\ \A e \in {"dev", "npr", "prd"} : Len(e) = 3
  /\ \A s \in Service : Len(s) \in 1..16

\* Workers need a transport, the APIs must not have one.
TransportOf(s, raw) ==
  IF s \in {"platform-worker", "cell-worker"} THEN validate_transport(raw)
  ELSE <<UnexpectedField("transport", HasTransport(raw))>>

load_platform(s, raw) ==
  <<Check(accepts_platform_config(s), <<"ServiceMismatch">>)>>
    \o reject_migration_fields(raw) \o reject_provisioner_fields(raw)
    \o <<UnexpectedField("cell_id", Given(raw, "cell_id"))>>
    \o validate_base(raw) \o validate_database(raw) \o TransportOf(s, raw)

load_cell(s, raw) ==
  <<Check(accepts_cell_config(s), <<"ServiceMismatch">>)>>
    \o reject_migration_fields(raw) \o reject_provisioner_fields(raw)
    \o validate_cell_id(raw)
    \o validate_base(raw) \o validate_database(raw) \o TransportOf(s, raw)

load_router(raw) ==
  reject_migration_fields(raw) \o reject_provisioner_fields(raw)
    \o <<UnexpectedField("cell_id", Given(raw, "cell_id")),
         UnexpectedField("database", HasDatabase(raw)), UnexpectedField("transport", HasTransport(raw))>>
    \o validate_base(raw)

load_migrator(raw) ==
  LET scope == raw["migration_scope"] IN
  <<UnexpectedField("transport", HasTransport(raw))>>
    \o reject_provisioner_fields(raw)
    \o <<MissingField("migration_scope", Given(raw, "migration_scope")),
         InvalidField("migration_scope", scope \in {"platform", "cell"}),
         UnexpectedField("cell_id", scope = "platform" /\ Given(raw, "cell_id"))>>
    \o (IF scope = "cell" THEN validate_cell_id(raw) ELSE <<>>)
    \o validate_base(raw) \o validate_database(raw)
    \o <<InvalidField("migration_timeout_ms",
                    contains(1000, MAX_MIGRATION_TIMEOUT_MS, Value(raw, "migration_timeout_ms")))>>

load_nats_provisioner(raw) ==
  reject_migration_fields(raw)
    \o <<UnexpectedField("database", HasDatabase(raw)), UnexpectedField("cell_id", Given(raw, "cell_id"))>>
    \o validate_base(raw) \o validate_transport(raw)
    \o <<MissingField("topology_file", Given(raw, "topology_file")),
         InvalidField("topology_file", Bounded(raw["topology_file"])),
         InvalidField("topology_apply_timeout_ms",
                 contains(MIN_TRANSPORT_TIMEOUT_MS, MAX_TRANSPORT_TIMEOUT_MS,
                          Value(raw, "topology_apply_timeout_ms")))>>

----------------------------------------------------------------------------
(* The two sources. Which of several bad keys is reported first depends on *)
(* the order of the keys and is not modelled.                              *)

Parses(f, v) ==
  f \in NumericFields /\ v # Absent =>
    v >= 0 /\ (f \in TransportSizes => v < 2^16)

\* A piece of the comma-separated list that is empty.
EmptyServer == <<"", "", 0, "">>
parse_environment_servers(servers) ==
  servers = Absent \/ \A i \in DOMAIN servers : servers[i] # EmptyServer

\* A mutant of merge: the file has the last word.
merge_file_last(env, file) == [f \in Field |-> IF file[f] # Absent THEN file[f] ELSE env[f]]

\* Environment variables override the file.
merge(env, file) == [f \in Field |-> IF env[f] # Absent THEN env[f] ELSE file[f]]

deserialize_sources(env, file) ==
  <<MissingField("environment", env["environment"] # Absent),
    Check(env["unknown"] = Absent, <<"UnknownField">>),
    Check(\A f \in Field : Parses(f, env[f]), <<"InvalidField", "number">>),
    InvalidField("transport.servers", parse_environment_servers(env["transport.servers"])),
    Check(/\ file["unknown"] = Absent
          /\ \A f \in Field : Parses(f, merge(env, file)[f]), <<"InvalidSource">>)>>

\* The loader that the main function of each service calls.
load(s, env, file) ==
  LET raw == merge(env, file) IN
  FirstError(deserialize_sources(env, file) \o
    (IF accepts_platform_config(s) THEN load_platform(s, raw)
     ELSE IF accepts_cell_config(s) THEN load_cell(s, raw)
     ELSE IF s = "tenant-router" THEN load_router(raw)
     ELSE IF s = "db-migrator" THEN load_migrator(raw)
     ELSE load_nats_provisioner(raw)))

Accepted(s, env, file) == load(s, env, file) = <<"ok">>

----------------------------------------------------------------------------
(* The constructors that the accepted values are handed to.                *)

PoolSettings_new(raw) ==
  LET v(f) == Value(raw, f) IN
  /\ v("database.max_connections") # 0
  /\ v("database.min_connections") <= v("database.max_connections")
  /\ \A f \in ToSet(DatabaseTimeouts) \cup {"database.max_lifetime_ms"} : v(f) # 0

\* edtech-<service>-<environment>[-<cell>]; a valid cell identifier has at
\* most 63 characters of the alphabet that the name admits.
CellIdLength(id) == IF id = "longest" THEN 63 ELSE Len(id)
ApplicationName_compose(s, raw) ==
  LET cell == IF Given(raw, "cell_id") THEN 1 + CellIdLength(raw["cell_id"]) ELSE 0 IN
  Len("edtech-") + Len(s) + 1 + Len(raw["environment"]) + cell <= 128

validate_server_url(server, tls) ==
  /\ tls = "verify_full" => server[1] = "tls"
  /\ tls = "disable" => server[1] = "nats"
  /\ Bounded(server[2]) /\ contains(1, MAX_PORT, server[3]) /\ server[4] = ""

MIN_TIMEOUT == 100
MAX_TIMEOUT == from_mins(5)
NatsConnectionConfig_new(s, raw) ==
  LET v(f) == Value(raw, f)
      servers == raw["transport.servers"]
      verified == v("transport.tls_mode") = "verify_full"
  IN  /\ contains(1, 64, Len(s)) /\ contains(1, 16, Len(raw["environment"]))
      /\ contains(1, 8, Len(servers))
      /\ \A f \in ToSet(TransportTimeouts) : contains(MIN_TIMEOUT, MAX_TIMEOUT, v(f))
      /\ v("transport.startup_timeout_ms") >= v("transport.connect_timeout_ms")
      /\ verified <=> Given(raw, "transport.ca_certificate_file")
      /\ \A i \in DOMAIN servers : validate_server_url(servers[i], v("transport.tls_mode"))
      /\ IsInjective(servers)

ClaimBatchSize_new(n) == contains(1, 500, n)
LeaseDuration_new(ms) == ms % 1000 = 0 /\ contains(1, 300, ms \div 1000)
RetryDelay_new(seconds) == seconds <= 86400

PublisherSettings_new(raw) ==
  LET v(f) == Value(raw, f) IN
  /\ v("transport.outbox_poll_interval_ms") # 0
  /\ contains(1, 128, v("transport.publish_concurrency"))
  /\ v("transport.retry_base_ms") # 0
  /\ v("transport.retry_max_ms") >= v("transport.retry_base_ms")
  /\ v("transport.retry_max_ms") <= from_mins(5)
  /\ ClaimBatchSize_new(v("transport.outbox_claim_batch_size"))
  /\ LeaseDuration_new(v("transport.outbox_lease_ms"))

ConsumerSettings_new(raw) ==
  LET v(f) == Value(raw, f) IN
  /\ contains(1, 500, v("transport.consumer_fetch_batch_size"))
  /\ v("transport.consumer_fetch_expires_ms") # 0
  /\ v("transport.consumer_fetch_expires_ms") <= from_secs(5)
  /\ v("transport.consumer_handler_timeout_ms") # 0
  /\ v("transport.consumer_handler_timeout_ms") < from_secs(30)
  /\ v("transport.consumer_nak_delay_ms") # 0
  /\ v("transport.consumer_nak_delay_ms") <= from_mins(5)
  /\ contains(1, 1024, v("transport.consumer_max_in_flight"))

\* What main builds in run mode before the first task is spawned.
UsesDatabase(s) == s \notin {"tenant-router", "nats-provisioner"}
UsesTransport(s) == s \in {"platform-worker", "cell-worker", "nats-provisioner"}
RunsMessages(s) == s \in {"platform-worker", "cell-worker"}

Starts(s, raw) ==
  /\ UsesDatabase(s) => PoolSettings_new(raw) /\ ApplicationName_compose(s, raw)
  /\ UsesTransport(s) => NatsConnectionConfig_new(s, raw)
  /\ RunsMessages(s) => PublisherSettings_new(raw) /\ ConsumerSettings_new(raw)

\* What BoundConsumer::fetch asks for, and what the durable's limits grant.
MAX_BATCH == 200
MAX_EXPIRES_MS == 5000
fetch_is_granted(raw) ==
  /\ Value(raw, "transport.consumer_fetch_batch_size") <= MAX_BATCH
  /\ Value(raw, "transport.consumer_fetch_expires_ms") <= MAX_EXPIRES_MS

----------------------------------------------------------------------------
(* plan_retry_delay, on integers of Width bits.                            *)

Top == shl(Width) - 1
saturating_add(a, b) == IF a > Top - b THEN Top ELSE a + b
saturating_sub(a, b) == IF a < b THEN 0 ELSE a - b
saturating_mul(a, b) == IF b # 0 /\ a > Top \div b THEN Top ELSE a * b
Least(a, b) == IF a < b THEN a ELSE b

\* A mutant of retry_cap: the product wraps.
retry_cap_wrapping(attempt, base, max) ==
  Least((base * shl(Least(saturating_sub(attempt, 1), 10))) % 2^16, max)

retry_cap(attempt, base, max) ==
  LET exponent == Least(saturating_sub(attempt, 1), Width - 1)
  IN  Least(saturating_mul(base, shl(exponent)), max)

\* Whole seconds; without entropy the base delay is used.
plan_retry_delay(attempt, base, max, entropy) ==
  LET span == saturating_add(saturating_sub(retry_cap(attempt, base, max), base), 1)
      jittered == IF entropy = Absent THEN base ELSE saturating_add(base, entropy % span)
  IN  saturating_add(jittered, 999) \div 1000
=============================================================================
