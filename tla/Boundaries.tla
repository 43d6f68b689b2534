----------------------------- MODULE Boundaries -----------------------------
(***************************************************************************)
(* The places where the system takes values from outside and hands them    *)
(* on: configuration sources, retry arithmetic, messages in all their      *)
(* forms, the workspace's dependency graph. A behaviour starts             *)
(* from a value that is in order and moves parts of it, one at a time and  *)
(* at most MaxEdits, to the values where a check could be off by one, so   *)
(* that pairs of edits meet.                                               *)
(***************************************************************************)
EXTENDS RuntimeConfig, MessageCodec, WorkspacePolicy

CONSTANTS
  Services,      \* the services whose configuration is edited
  BaseSources,   \* a valid environment of every service
  FieldValues,   \* field -> the values it is set to
  Coupled(_, _), \* pairs of fields that are edited together
  Metadata,      \* message metadata to start from
  MetadataEdits, \* part -> the values it is set to
  Payloads,      \* payloads of these messages
  EnvelopeEdits, \* key of the envelope -> the values it is set to
  HeaderEdits,   \* headers that are added to a delivery
  Delays,        \* base and maximum delays of the retry policy
  Entropies,     \* random numbers, or Absent
  MaxEdits

Operation == "op-1"
Fresh == "fresh"   \* the identifier of an answer: no message has it yet
RequestedPayload == [root |-> "object", size |-> 120, keys |-> {"operation_id", "probe_value"},
                     operation_id |-> uuid_text(Operation), probe_value |-> 1]

\* What the constructors of the parts admit.
Constructed(m) ==
  LET parts == <<uuid_v7(m.message_id), MessageName_new(m.descriptor.name),
                 MessageSchemaVersion_new(m.descriptor.schema_version), EmittedAt_new(m.emitted_at)>>
  IN  IF AnyInvalid(parts) THEN Invalid
      ELSE MessageMetadata_new([m EXCEPT !.emitted_at = EmittedAt_new(@)])

\* The types of the parts of metadata and of the keys of an envelope.
MetadataParts ==
  [message_id |-> STRING, kind |-> {"command", "event"}, name |-> Seq(STRING), schema_version |-> Int,
   emitted_at |-> Int, source |-> Authorities, scope |-> Scopes, target |-> Optional(Authorities),
   causation_id |-> Optional(Uuids)]
EnvelopeParts ==
  [json |-> STRING, space |-> Nat, envelope_version |-> Nat, message_id |-> UuidTexts,
   message_kind |-> STRING, message_name |-> Seq(STRING), message_schema_version |-> Int,
   emitted_at |-> [spelling : STRING, instant : Int], source |-> AuthorityTexts, scope |-> ScopeTexts,
   target |-> Optional(AuthorityTexts), causation_id |-> Optional(UuidTexts), payload |-> PayloadTexts]

\* A cell identifier has at most 63 characters, or it is "invalid".
CellIdFits(id) == id = Absent \/ CellIdLength(id) \in 0..63

ASSUME BoundariesAssumption ==
  /\ Services \subseteq Service /\ DOMAIN FieldValues \subseteq Field
  /\ \A s \in Services : DOMAIN BaseSources[s] = Field /\ CellIdFits(BaseSources[s]["cell_id"])
  /\ "cell_id" \in DOMAIN FieldValues => \A v \in FieldValues["cell_id"] : CellIdFits(v)
  /\ \A d \in Delays : contains(1, MAX_TRANSPORT_TIMEOUT_MS, d)
  /\ Entropies \subseteq Nat \cup {Absent}
  /\ MaxEdits \in Nat \ {0}

\* Messages start in order; edits keep to the types, not to what the
\* constructors ask for.
ASSUME MessagesAssumption ==
  /\ Metadata \subseteq Metadatas /\ Payloads \subseteq PayloadTexts
  /\ \A m \in Metadata : Constructed(m) = m /\ m.message_id # Fresh
  /\ Fresh \in STRING
  /\ DOMAIN MetadataEdits \subseteq DOMAIN MetadataParts
  /\ \A part \in DOMAIN MetadataEdits : MetadataEdits[part] \subseteq MetadataParts[part]
  /\ DOMAIN EnvelopeEdits \subseteq DOMAIN EnvelopeParts
  /\ \A key \in DOMAIN EnvelopeEdits : EnvelopeEdits[key] \subseteq EnvelopeParts[key]
  /\ "message_id" \in DOMAIN EnvelopeEdits => \A text \in EnvelopeEdits["message_id"] : text[1] # Fresh
  /\ HeaderEdits \subseteq Headers

VARIABLES
  input,   \* [about, ...]: what is being looked at
  edits    \* the edits so far

boundary_vars == <<input, edits>>

Nothing == [f \in Field |-> Absent]
BoundaryInit ==
  /\ edits = {}
  /\ \/ \E s \in Services :
          input = [about |-> "config", service |-> s, env |-> BaseSources[s], file |-> Nothing]
     \/ \E base \in Delays, max \in Delays, entropy \in Entropies :
          input = [about |-> "retry", attempt |-> 0, base |-> base, max |-> max, entropy |-> entropy]
     \/ \E m \in Metadata, p \in Payloads :
          input = [about |-> "message", metadata |-> m, payload |-> p]
     \/ \E m \in Metadata :
          /\ encode(m, RequestedPayload) # Invalid
          /\ publish_exact(encode(m, RequestedPayload)) # Invalid
          /\ input = [about |-> "delivery", sent |-> encode(m, RequestedPayload),
                      delivery |-> publish_exact(encode(m, RequestedPayload))]
     \/ input = [about |-> "workspace", added |-> {}]

MayEdit(about, part) ==
  /\ input.about = about /\ part \notin edits /\ Cardinality(edits) < MaxEdits
  /\ edits' = edits \cup {part}

EditSource(source, f, v) ==
  /\ MayEdit("config", <<source, f>>)
  /\ \A e \in edits : Coupled(e[2], f)
  /\ input' = [input EXCEPT ![source][f] = v]

NextAttempt ==
  /\ input.about = "retry" /\ input.attempt < Width + 2
  /\ input' = [input EXCEPT !.attempt = @ + 1]
  /\ UNCHANGED edits

EditMetadata(part, v) ==
  /\ MayEdit("message", part)
  /\ input' = [input EXCEPT !.metadata =
       IF part \in {"kind", "name", "schema_version"} THEN [@ EXCEPT !.descriptor[part] = v]
       ELSE [@ EXCEPT ![part] = v]]

EditEnvelope(key, v) ==
  /\ MayEdit("delivery", key)
  /\ input' = [input EXCEPT !.delivery.payload[key] = v]

AddHeader(h) ==
  /\ MayEdit("delivery", h.name)
  /\ input' = [input EXCEPT !.delivery.headers = Append(@, h)]

\* The columns of one outbox row with the envelope of another.
SwapEnvelope(m) ==
  /\ MayEdit("delivery", "row")
  /\ input' = [input EXCEPT !.delivery.payload = encode(m, RequestedPayload).bytes]

AddDependency(p, q, k) ==
  /\ input.about = "workspace" /\ Cardinality(input.added) < 1
  /\ input' = [input EXCEPT !.added = @ \cup {Dependency(p, q, k)}]
  /\ UNCHANGED edits

BoundaryNext ==
  \/ \E source \in {"env", "file"}, f \in DOMAIN FieldValues :
       \E v \in FieldValues[f] : EditSource(source, f, v)
  \/ NextAttempt
  \/ \E part \in DOMAIN MetadataEdits : \E v \in MetadataEdits[part] : EditMetadata(part, v)
  \/ \E key \in DOMAIN EnvelopeEdits : \E v \in EnvelopeEdits[key] : EditEnvelope(key, v)
  \/ \E h \in HeaderEdits : AddHeader(h)
  \/ \E m \in Metadata : SwapEnvelope(m)
  \/ \E p \in Package, q \in Package \cup External, k \in {"normal", "dev"} : AddDependency(p, q, k)

BoundarySpec == BoundaryInit /\ [][BoundaryNext]_boundary_vars

----------------------------------------------------------------------------
(* Configuration.                                                          *)

Raw == merge(input.env, input.file)
ConfigIsAccepted == input.about = "config" /\ Accepted(input.service, input.env, input.file)

\* Two accepted values that the next layer refuses: a fetch that waits longer
\* than five seconds (ConsumerSettings::new), and a batch of more than 200
\* (the durable's max_batch, seen only as a failing fetch).
RefusedLater(raw) ==
  \/ Value(raw, "transport.consumer_fetch_expires_ms") > MAX_EXPIRES_MS
  \/ Value(raw, "transport.consumer_fetch_batch_size") > MAX_BATCH

\* What --check-config accepts, the constructors in run mode accept too, and
\* the broker grants the fetches of a worker: no process validates its
\* configuration, connects, and then stops on a setting. The two known
\* exceptions are RefusedLater.
AcceptedConfigRuns ==
  ConfigIsAccepted =>
    \/ Starts(input.service, Raw) /\ (RunsMessages(input.service) => fetch_is_granted(Raw))
    \/ RunsMessages(input.service) /\ RefusedLater(Raw)

\* TLS is switched off only by a process whose own environment says dev: no
\* configuration file can move a process of another environment to plain text.
OnlyDevTurnsTlsOff ==
  ConfigIsAccepted /\ input.env["environment"] # "dev" =>
    /\ UsesDatabase(input.service) => Value(Raw, "database.tls_mode") = "verify_full"
    /\ UsesTransport(input.service) =>
         /\ Value(Raw, "transport.tls_mode") = "verify_full"
         /\ \A i \in DOMAIN Raw["transport.servers"] : Raw["transport.servers"][i][1] = "tls"

----------------------------------------------------------------------------
(* Retries.                                                                *)

RoundedUp(ms) == (ms + 999) \div 1000

\* For every attempt and every random number the delay lies between the base
\* and the maximum, the store accepts it, it is never zero, and its upper end
\* never shrinks from one attempt to the next, also where the shift and the
\* product saturate.
RetryDelayIsBounded ==
  input.about = "retry" /\ input.base <= input.max =>
    LET delay == plan_retry_delay(input.attempt, input.base, input.max, input.entropy) IN
    /\ delay \in RoundedUp(input.base)..RoundedUp(input.max)
    /\ delay > 0 /\ RetryDelay_new(delay)
    /\ retry_cap(input.attempt, input.base, input.max) <= retry_cap(input.attempt + 1, input.base, input.max)
    /\ input.attempt >= Width => retry_cap(input.attempt, input.base, input.max) = input.max

----------------------------------------------------------------------------
(* Messages.                                                               *)

StoredIn(message) ==
  LET row == DatabaseMetadata_from_message(message) IN
  IF message.metadata.source.kind = "cell" THEN cell_outbox_check(row, message.bytes)
  ELSE platform_outbox_check(row, message.bytes)

\* A message that can be constructed and encoded is stored without breaking a
\* constraint, comes back from its row unchanged, fits the stream with its
\* headers, and is accepted at the other end as exactly the message that was
\* encoded: no step of the path is stricter than the one before it.
StoredMessageIsAccepted ==
  input.about = "message" =>
    LET metadata == Constructed(input.metadata)
        message == encode(metadata, input.payload)
        stored == message_from_row(DatabaseMetadata_from_message(message), message.bytes)
    IN  metadata # Invalid =>
          (message # Invalid =>
             /\ StoredIn(message)
             /\ stored = message
             /\ decode_envelope(message.bytes) = message
             /\ (TransportSubject_derive(metadata) # Invalid =>
                   /\ fits_stream(publish_exact(stored))
                   /\ accept_delivery(publish_exact(stored)) = message))

Respelled(text) == IF text = None THEN None ELSE uuid_text(text[1])
RespelledScope(s) ==
  IF s.kind # "tenant" THEN s
  ELSE Scope("tenant", s.cell_id, Respelled(s.tenant_id), epoch_text(s.assignment_epoch[1]))

\* How the codec writes what an envelope says.
Canonical(bytes) ==
  [bytes EXCEPT
     !.json = "canonical", !.space = 0,
     !.message_id = Respelled(@), !.correlation_id = Respelled(@), !.causation_id = Respelled(@),
     !.scope = RespelledScope(@)]

\* Four identifiers, each four bytes longer with its hyphens than without.
SPELLING_BYTES == 16

\* What an accepted envelope says is said again when it is encoded: only the
\* spelling of identifiers and of the epoch may differ, never a timestamp, and
\* two accepted envelopes with the same metadata differ in nothing else. (The
\* published schema admits the plain spelling of the epoch only; the decoder
\* also takes signs and leading zeros.) An envelope whose identifiers lack their hyphens grows when it is written
\* again; the encoder refuses it then, and only within 16 bytes of the limit.
AcceptedEnvelopeIsCanonical ==
  input.about = "delivery" /\ decode_envelope(input.delivery.payload) # Invalid =>
    LET bytes == input.delivery.payload
        again == encode(parse(bytes), bytes.payload)
    IN  IF envelope_size(Canonical(bytes)) <= MAX_ENCODED_MESSAGE_BYTES
        THEN again # Invalid /\ again.bytes = Canonical(bytes)
        ELSE again = Invalid /\ envelope_size(bytes) > MAX_ENCODED_MESSAGE_BYTES - SPELLING_BYTES

\* A delivery whose headers or subject come from another message than its
\* envelope, as for an outbox row whose columns and bytes disagree, is not
\* handled: what is handled has the identity and the route it was sent with.
HandledAsAddressed ==
  input.about = "delivery" =>
    LET message == accept_delivery(input.delivery)
        sent == input.sent.metadata
    IN  message # Invalid =>
          /\ message.metadata.message_id = sent.message_id
          /\ message.metadata.descriptor.name = sent.descriptor.name
          /\ message.metadata.descriptor.kind = sent.descriptor.kind
          /\ message.metadata.scope.cell_id = sent.scope.cell_id
          /\ message.metadata.source.kind = sent.source.kind

\* A command that the handler of its authority takes always has an answer: its
\* metadata is valid, it encodes, its row is legal and it has a subject. A
\* failure here would end the consumer, for the same command after every
\* restart.
EveryCommandCanBeAnswered ==
  input.about = "delivery" =>
    \A authority \in {"platform", "cell"} :
      LET message == accept_delivery(input.delivery)
          cell == message.metadata.scope.cell_id
          handled == handle_command(message, authority, cell, Fresh, 1500)
      IN  message # Invalid /\ message.metadata.descriptor.kind = "command"
            /\ handled.result # "Rejected" =>
              /\ handled.result = "Enqueue"
              /\ StoredIn(handled.answer)
              /\ publish_exact(handled.answer) # Invalid

----------------------------------------------------------------------------
(* The workspace.                                                          *)

\* Every graph that the check accepts keeps the authorities apart on whole
\* paths, though the check looks at single dependencies: Platform binaries
\* are never built with a Cell's database packages nor the reverse, the
\* router with neither database nor broker, domain and application code with
\* no SQLx, NATS or Tokio, only the migrator with the migrations and only the
\* provisioner with the administration of NATS.
IsolationIsTransitive ==
  LET graph == ListedGraph \cup input.added
      with(p) == BuiltWith(graph, p)
  IN  input.about = "workspace" /\ validate_graph(graph) =>
        /\ \A p \in platform_binary : with(p) \cap CellAuthority = {}
        /\ \A p \in cell_binary : with(p) \cap PlatformAuthority = {}
        /\ with("tenant-router") \cap (postgres_provider \cup {"sqlx", "async-nats", "secrecy"}) = {}
        /\ \A p \in domain \cup application :
             with(p) \cap {"sqlx", "async-nats", "tokio", "serde", "secrecy"} = {}
        /\ \A p \in deployable_binary \ {"db-migrator"} : with(p) \cap migration_adapter = {}
        /\ \A p \in deployable_binary \ {"nats-provisioner"} : "nats-jetstream-admin" \notin with(p)
        /\ \A p \in {"platform-api", "cell-api"} : "async-nats" \notin with(p)
        /\ \A p \in deployable_binary : with(p) \cap (qualification_tool \cup {"test-support"}) = {}
=============================================================================
