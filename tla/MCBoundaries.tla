--------------------------- MODULE MCBoundaries ---------------------------
(***************************************************************************)
(* Boundary values for the Boundaries specification.                       *)
(***************************************************************************)
EXTENDS Boundaries

TlsServer == <<"tls", "nats.internal", 4222, "">>
PlainServer == <<"nats", "localhost", 4222, "">>

With(pairs) == [f \in Field |-> IF f \in DOMAIN pairs THEN pairs[f] ELSE Absent]

DatabaseBase == [environment |-> "prd"] @@ [f \in {"database.credential_ref"} |-> "file:/db"]
TransportBase == [environment |-> "prd"]
  @@ [f \in {"transport.servers"} |-> <<TlsServer>>]
  @@ [f \in {"transport.credential_ref", "transport.ca_certificate_file"} |-> "file:/nats"]
CellBase == [cell_id |-> "alpha"]

MCServices == Service
MCBaseSources == [s \in Service |-> With(
  CASE s = "platform-api" -> DatabaseBase
    [] s = "platform-worker" -> DatabaseBase @@ TransportBase
    [] s = "cell-api" -> DatabaseBase @@ CellBase
    [] s = "cell-worker" -> DatabaseBase @@ TransportBase @@ CellBase
    [] s = "tenant-router" -> [environment |-> "dev"]
    [] s = "db-migrator" -> DatabaseBase @@ CellBase @@ [migration_scope |-> "cell"]
    [] s = "nats-provisioner" -> TransportBase @@ [topology_file |-> "file:/topology"])]

Around(low, high) == {-1, low - 1, low, high, high + 1}

MCFieldValues ==
  [f \in ToSet(DatabaseTimeouts) |-> Around(100, 3600000)]
  @@ [f \in ToSet(TransportTimeouts) |-> Around(100, 300000) \cup {5000, 30000}]
  @@ [f \in {"transport.outbox_poll_interval_ms", "transport.consumer_nak_delay_ms",
             "transport.retry_base_ms", "transport.retry_max_ms"} |-> Around(1, 300000) \cup {250}]
  @@ [f \in {"transport.consumer_fetch_expires_ms"} |-> Around(1, 300000) \cup {5000, 5001}]
  @@ [f \in {"transport.consumer_fetch_batch_size", "transport.outbox_claim_batch_size"} |->
        Around(1, 500) \cup {200, 201, 65536}]
  @@ [f \in {"transport.publish_concurrency"} |-> Around(1, 128)]
  @@ [f \in {"transport.consumer_max_in_flight"} |-> Around(1, 1024)]
  @@ [f \in {"transport.consumer_handler_timeout_ms"} |-> Around(1, 29999)]
  @@ [f \in {"transport.outbox_lease_ms"} |-> Around(1000, 300000) \cup {5000, 6000, 30500}]
  @@ [f \in {"database.max_connections"} |-> Around(1, 100)]
  @@ [f \in {"database.min_connections"} |-> {0, 2, 100}]
  @@ [f \in {"database.max_lifetime_ms"} |-> Around(1000, 86400000)]
  @@ [f \in {"shutdown_grace_ms", "topology_apply_timeout_ms"} |-> Around(100, 300000)]
  @@ [f \in {"migration_timeout_ms"} |-> Around(1000, 3600000)]
  @@ [f \in {"environment"} |-> {Absent, "dev", "npr", "prd", "staging"}]
  @@ [f \in {"database.tls_mode", "transport.tls_mode"} |-> {"disable", "verify_full", "prefer"}]
  @@ [f \in {"transport.servers"} |-> {<<>>, <<TlsServer>>, <<PlainServer>>, <<TlsServer, TlsServer>>,
        <<TlsServer, PlainServer>>, <<EmptyServer>>, <<<<"tls", "nats.internal", 0, "">>>>,
        [i \in 1..9 |-> <<"tls", "nats.internal", i, "">>], [i \in 1..8 |-> <<"tls", "nats.internal", i, "">>]}]
  @@ [f \in {"transport.ca_certificate_file", "transport.credential_ref", "database.credential_ref",
             "log_filter", "topology_file"} |-> {Absent, "empty", "long", "plain"}]
  @@ [f \in {"transport.expected_server_minimum"} |-> {"2.14.3", "2.14.2"}]
  @@ [f \in {"cell_id"} |-> {Absent, "alpha", "longest", "invalid"}]
  @@ [f \in {"migration_scope"} |-> {Absent, "platform", "cell", "both"}]
  @@ [f \in {"unknown"} |-> {"plain"}]

\* Fields that one check, or one source override, relates.
MCCoupled(f, g) ==
  \/ f = g
  \/ \E group \in {{"environment", "database.tls_mode"},
                   {"environment", "transport.tls_mode", "transport.servers", "transport.ca_certificate_file"},
                   {"transport.outbox_lease_ms", "transport.publish_ack_timeout_ms"},
                   {"transport.retry_base_ms", "transport.retry_max_ms"},
                   {"transport.connect_timeout_ms", "transport.startup_timeout_ms"},
                   {"transport.consumer_fetch_batch_size", "transport.consumer_fetch_expires_ms"},
                   {"database.max_connections", "database.min_connections"},
                   {"cell_id", "migration_scope"}} : {f, g} \subseteq group

----------------------------------------------------------------------------
Long == "aaaaaaaaaaaaaaaaaaaaaaaaaaaaaaaaaaaaaaaa"
Platform == Authority("platform", None)
Alpha == Authority("cell", "alpha")
TenantScope == Scope("tenant", "alpha", "t-1", 7)

Message(descriptor, source, scope, target) ==
  [message_id |-> "m-1", descriptor |-> descriptor, emitted_at |-> 1000, source |-> source,
   scope |-> scope, target |-> target, correlation_id |-> "c-1", causation_id |-> None]

\* One message on every route, and the two that have none.
MCMetadata ==
  {Message(requested_descriptor("cell"), Platform, TenantScope, Alpha),
   Message(observed_descriptor("cell"), Alpha, TenantScope, None),
   Message(requested_descriptor("platform"), Alpha, TenantScope, Platform),
   [Message(requested_descriptor("platform"), Alpha, TenantScope, Platform) EXCEPT !.message_id = "m-2"],
   Message(observed_descriptor("platform"), Platform, Scope("cell", "beta", None, None), None),
   Message(observed_descriptor("platform"), Platform, Scope("platform", None, None, None), None)}

MCMetadataEdits ==
  [message_id |-> {"m-2", "v4"}, kind |-> {"command", "event"},
   name |-> {<<"edtech", "transport", "cell-probe", "v1">>, <<"edtech", "a", "b", Long \o "a">>,
             <<"edtech", "a", "b", Long>>, <<"edtech", "a", "b">>, <<"edtech", Long, Long, Long, "aaaaaaaaaaaaaaaaaaaaaaaaaaaaa">>,
             <<"edtech", Long, Long, Long, "aaaaaaaaaaaaaaaaaaaaaaaaaaaaaa">>, <<"other", "a", "b", "c">>,
             <<"edtech", "a", "two--hyphens", "c">>},
   schema_version |-> {0, 65535, 65536}, emitted_at |-> {-1, 0, 999, 1499, 1500, LastNano, LastNano + 1},
   source |-> {Platform, Alpha, Authority("cell", "beta")},
   scope |-> {Scope("platform", None, None, None), Scope("cell", "alpha", None, None),
              Scope("tenant", "beta", "t-1", 1), Scope("tenant", "alpha", "t-1", MaxEpoch),
              Scope("cell", SubSeq(Long \o Long, 1, 63), None, None)},
   target |-> {None, Platform, Alpha, Authority("cell", SubSeq(Long \o Long, 1, 63))},
   causation_id |-> {"m-1", "m-2"}]

\* The bytes that a message with the payload above has left below the limit.
Room == {MAX_ENCODED_MESSAGE_BYTES - envelope_size(EncodeEnvelope(m, RequestedPayload)) : m \in MCMetadata}
Larger(n) == [RequestedPayload EXCEPT !.size = @ + n]

MCPayloads ==
  {RequestedPayload, [RequestedPayload EXCEPT !.root = "array"]} \cup {Larger(n) : n \in Room}
  \cup {Larger(n + 1) : n \in Room}

\* A cause that is written without hyphens takes 30 bytes more than none.
CAUSE_BYTES == 30

MCEnvelopeEdits ==
  [json |-> {"reordered", "unknown-key", "missing-key", "garbage"}, space |-> Room \cup {n + 1 : n \in Room},
   envelope_version |-> {0, 2},
   message_id |-> {<<"m-2", "hyphenated">>, <<"m-1", "braced">>, <<"m-1", "simple">>, <<"m-1", "unreadable">>, <<"v4", "hyphenated">>},
   message_kind |-> {"command", "event", "query"},
   message_name |-> {ProbeName("cell", "requested"), ProbeName("platform", "requested"),
                     <<"edtech", "a", "b", "v1">>},
   message_schema_version |-> {0, 2, 65535, 65536},
   emitted_at |-> {[spelling |-> s, instant |-> t] :
                     s \in {"micros", "nanos", "offset", "lower-case", "leap"}, t \in {0, 1000, LastNano - 999}},
   source |-> {Platform, Alpha, Authority("platform", "alpha"), Authority("cell", None), Authority("cell", "beta")},
   scope |-> {Scope("tenant", "alpha", <<"t-1", "braced">>, <<7, "zeros">>),
              Scope("tenant", "alpha", <<"t-1", "hyphenated">>, <<0, "plain">>),
              Scope("tenant", "alpha", <<"t-1", "hyphenated">>, <<MaxEpoch + 1, "plain">>),
              Scope("tenant", "alpha", None, <<7, "plain">>), Scope("cell", "alpha", None, None),
              Scope("cell", "beta", None, None), Scope("platform", None, None, None)},
   target |-> {None, Platform, Alpha, Authority("cell", "beta")},
   causation_id |-> {<<"m-1", "hyphenated">>, <<"m-2", "simple">>, <<"v4", "hyphenated">>},
   payload |-> {[RequestedPayload EXCEPT !.keys = @ \cup {"extra"}], [RequestedPayload EXCEPT !.root = "array"],
                [RequestedPayload EXCEPT !.probe_value = 0], [RequestedPayload EXCEPT !.probe_value = 256],
                [RequestedPayload EXCEPT !.probe_value = 257],
                [RequestedPayload EXCEPT !.operation_id = <<"v4", "hyphenated">>]}
               \cup {Larger(n) : n \in Room} \cup {Larger(n - CAUSE_BYTES) : n \in Room}]

MCHeaderEdits ==
  {Header("Nats-Msg-Id", uuid_text("m-2"), 36), Header("NATS-MSG-ID", uuid_text("m-2"), 36),
   Header("Content-Type", "text/plain", 10), Header("content-type", "text/plain", 10),
   Header("Nats-Expected-Stream", "OTHER", 5), Header("Nats-Last-Subject-Sequence", "1", 1),
   Header("Nats-Subject", "x", 513), Header("X-Trace", "1", 1)}
=============================================================================
