---------------------------- MODULE MessageCodec ----------------------------
(***************************************************************************)
(* A message on its way: metadata, canonical envelope, outbox row, NATS    *)
(* publication, delivery, typed payload, answer. Pure operators; a         *)
(* constructor that fails returns Invalid.                                 *)
(*   - A UUID text is <<uuid, spelling>>: Uuid::parse_str reads several    *)
(*     spellings, Display writes one. The uuid "v4" is of version 4.       *)
(*   - A timestamp is a number of nanoseconds, its text has a spelling.    *)
(*   - A name is the sequence of its segments, a subject of its tokens.    *)
(*   - A cell, tenant or epoch key that is missing and one that is null    *)
(*     are both None, as serde reads them.                                 *)
(***************************************************************************)
EXTENDS Integers, Sequences, FiniteSets

CONSTANTS
  None,      \* Option::None
  Invalid,   \* Result::Err
  LastNano,  \* the last nanosecond of the year 9999
  MaxEpoch   \* u64::MAX

ASSUME MessageCodecAssumption ==
  LastNano \in Nat /\ LastNano > 1999 /\ LastNano % 1000 = 999 /\ MaxEpoch \in Nat \ {0}

AnyInvalid(parts) == \E i \in DOMAIN parts : parts[i] = Invalid

----------------------------------------------------------------------------
(* Identifiers and values of the message domain.                           *)

uuid_v7(uuid) == IF uuid = "v4" THEN Invalid ELSE uuid
uuid_text(uuid) == <<uuid, "hyphenated">>
uuid_from_str(text) == IF text[2] = "unreadable" THEN Invalid ELSE uuid_v7(text[1])

\* Representatives of what the grammar of cell and message names forbids.
MalformedTokens == {"", "Upper", "-edge", "edge-", "two--hyphens", "star*", "white space"}

CellIds == {id \in STRING : Len(id) \in 3..63 /\ id \notin MalformedTokens}
CellId_new(id) == IF id \in CellIds THEN id ELSE Invalid

AssignmentEpoch_new(n) == IF n = 0 THEN Invalid ELSE n
\* parse::<u64> reads a plus sign and leading zeros; Display writes neither.
epoch_text(n) == <<n, "plain">>
epoch_from_str(text) ==
  IF text[2] = "unreadable" \/ text[1] > MaxEpoch THEN Invalid ELSE AssignmentEpoch_new(text[1])

Total(sizes) ==
  LET sum[i \in 0..Len(sizes)] == IF i = 0 THEN 0 ELSE sum[i - 1] + sizes[i] IN sum[Len(sizes)]
\* The segments and a separator between any two of them.
NameLength(name) == Total([i \in DOMAIN name |-> Len(name[i]) + 1]) - 1
is_version_suffix(segment) == segment \in {"v1", "version-2"}
MessageName_new(name) ==
  IF /\ NameLength(name) \in 10..160
     /\ Len(name) >= 4 /\ name[1] = "edtech"
     /\ \A i \in DOMAIN name : Len(name[i]) \in 1..40 /\ name[i] \notin MalformedTokens
     /\ ~is_version_suffix(name[Len(name)])
  THEN name ELSE Invalid

MAX_SCHEMA_VERSION == 65535
MessageSchemaVersion_new(n) == IF 1 <= n /\ n <= MAX_SCHEMA_VERSION THEN n ELSE Invalid

\* A mutant of EmittedAt_new: rounded to the nearest microsecond.
EmittedAt_rounded(t) ==
  IF t \in 0..LastNano THEN ((t + 500) \div 1000) * 1000 ELSE Invalid

\* Truncated to microseconds, never rounded.
EmittedAt_new(t) == IF t \in 0..LastNano THEN (t \div 1000) * 1000 ELSE Invalid

ContractDescriptor(kind, name, version) == [kind |-> kind, name |-> name, schema_version |-> version]

\* source and target are [kind, cell_id], a scope also has a tenant and an epoch.
MessageMetadata_new(m) ==
  IF /\ m.descriptor.kind = "command" <=> m.target # None
     /\ m.causation_id # m.message_id
     /\ m.source.kind = "cell" => m.scope.kind # "platform" /\ m.scope.cell_id = m.source.cell_id
     /\ m.target # None /\ m.target.kind = "cell" => m.scope.cell_id = m.target.cell_id
  THEN m ELSE Invalid

----------------------------------------------------------------------------
(* The length of an envelope. It follows from what is written in it and    *)
(* how: an identifier has four spellings of different lengths, an epoch    *)
(* any number of zeros. space counts the bytes that no encoder writes:     *)
(* white space, escapes, the null of an absent identifier.                 *)

uuid_size(text) ==
  CASE text[2] = "simple" -> 32
    [] text[2] = "braced" -> 38
    [] text[2] = "urn" -> 45
    [] OTHER -> 36

\* In groups of nine digits, up to the twenty of u64::MAX.
extra_digits(n) == Cardinality({k \in 1..8 : 10^k <= n})
digits(n) ==
  IF n < 10^9 THEN 1 + extra_digits(n)
  ELSE IF n \div 10^9 < 10^9 THEN 10 + extra_digits(n \div 10^9)
  ELSE 19 + extra_digits((n \div 10^9) \div 10^9)
epoch_size(text) ==
  digits(text[1]) + CASE text[2] = "plus" -> 1 [] text[2] = "zeros" -> 2 [] OTHER -> 0

\* The braces, keys and quotes of an authority, and of what a scope adds to it.
authority_size(a) == 11 + Len(a.kind) + (IF a.cell_id = None THEN 0 ELSE 13 + Len(a.cell_id))
scope_size(s) ==
  authority_size(s)
    + (IF s.tenant_id = None THEN 0 ELSE 15 + uuid_size(s.tenant_id))
    + (IF s.assignment_epoch = None THEN 0 ELSE 22 + epoch_size(s.assignment_epoch))

\* The twelve keys, the version, the timestamp and all punctuation.
FRAME_BYTES == 219
envelope_size(b) ==
  FRAME_BYTES + uuid_size(b.message_id) + Len(b.message_kind) + NameLength(b.message_name)
    + digits(b.message_schema_version) + authority_size(b.source) + scope_size(b.scope)
    + (IF b.target = None THEN 4 ELSE authority_size(b.target))
    + uuid_size(b.correlation_id)
    + (IF b.causation_id = None THEN 4 ELSE 2 + uuid_size(b.causation_id))
    + b.payload.size + b.space

MIN_ENCODED_MESSAGE_BYTES == 2
MAX_ENCODED_MESSAGE_BYTES == 262144
EncodedMessage_new(metadata, bytes) ==
  IF MIN_ENCODED_MESSAGE_BYTES <= envelope_size(bytes) /\ envelope_size(bytes) <= MAX_ENCODED_MESSAGE_BYTES
  THEN [metadata |-> metadata, bytes |-> bytes] ELSE Invalid

----------------------------------------------------------------------------
(* The JSON envelope.                                                      *)

decode_kind(text) == IF text \in {"command", "event"} THEN text ELSE Invalid

Authority(kind, cell_id) == [kind |-> kind, cell_id |-> cell_id]

\* decode_source, and decode_optional_target for a target that is not null.
decode_authority(a) ==
  CASE a.kind = "platform" /\ a.cell_id = None -> Authority("platform", None)
    [] a.kind = "cell" /\ a.cell_id # None /\ CellId_new(a.cell_id) # Invalid ->
         Authority("cell", a.cell_id)
    [] OTHER -> Invalid

decode_optional_target(t) == IF t = None THEN None ELSE decode_authority(t)

Scope(kind, cell_id, tenant_id, epoch) ==
  [kind |-> kind, cell_id |-> cell_id, tenant_id |-> tenant_id, assignment_epoch |-> epoch]

encode_scope(s) ==
  IF s.kind # "tenant" THEN s
  ELSE Scope("tenant", s.cell_id, uuid_text(s.tenant_id), epoch_text(s.assignment_epoch))

decode_scope(s) ==
  LET cell == s.cell_id # None /\ CellId_new(s.cell_id) # Invalid
      plain == s.tenant_id = None /\ s.assignment_epoch = None
  IN  CASE s.kind = "platform" /\ s.cell_id = None /\ plain -> s
        [] s.kind = "cell" /\ cell /\ plain -> s
        [] /\ s.kind = "tenant" /\ cell /\ s.tenant_id # None /\ s.assignment_epoch # None
           /\ ~AnyInvalid(<<uuid_from_str(s.tenant_id), epoch_from_str(s.assignment_epoch)>>) ->
             Scope("tenant", s.cell_id, uuid_from_str(s.tenant_id),
                   epoch_from_str(s.assignment_epoch))
        [] OTHER -> Invalid

decode_optional_message_id(text) == IF text = None THEN None ELSE uuid_from_str(text)

format_emitted_at(t) == [spelling |-> "micros", instant |-> t]

\* Rfc3339 as the time crate reads it: a leap second is the last nanosecond of its minute.
rfc3339(text) ==
  IF text.spelling = "leap" THEN text.instant + 999 ELSE text.instant

\* A mutant of parse_emitted_at: what was read is not written back and compared.
parse_emitted_at_once(text) ==
  IF text.spelling \in {"nanos", "offset"} THEN Invalid ELSE EmittedAt_new(rfc3339(text))

\* 27 bytes with six digits and a Z, and the canonical spelling of what they denote.
parse_emitted_at(text) ==
  LET emitted == EmittedAt_new(rfc3339(text)) IN
  IF \/ text.spelling \in {"nanos", "offset"}
     \/ emitted = Invalid \/ format_emitted_at(emitted) # text
  THEN Invalid ELSE emitted

ENVELOPE_VERSION == 1

\* The canonical bytes.
EncodeEnvelope(metadata, payload) ==
  [json |-> "canonical", space |-> 0,
   envelope_version |-> ENVELOPE_VERSION,
   message_id |-> uuid_text(metadata.message_id),
   message_kind |-> metadata.descriptor.kind,
   message_name |-> metadata.descriptor.name,
   message_schema_version |-> metadata.descriptor.schema_version,
   emitted_at |-> format_emitted_at(metadata.emitted_at),
   source |-> metadata.source, scope |-> encode_scope(metadata.scope),
   target |-> metadata.target,
   correlation_id |-> uuid_text(metadata.correlation_id),
   causation_id |-> IF metadata.causation_id = None THEN None ELSE uuid_text(metadata.causation_id),
   payload |-> payload]

encode(metadata, payload) ==
  LET bytes == EncodeEnvelope(metadata, payload) IN
  IF payload.root # "object" \/ envelope_size(bytes) > MAX_ENCODED_MESSAGE_BYTES THEN Invalid
  ELSE EncodedMessage_new(metadata, bytes)

\* serde refuses unknown, missing and repeated keys; it takes keys in any order.
DecodeEnvelope(bytes) == bytes.json \in {"canonical", "reordered"}

parse(bytes) ==
  LET id == uuid_from_str(bytes.message_id)
      kind == decode_kind(bytes.message_kind)
      name == MessageName_new(bytes.message_name)
      version == MessageSchemaVersion_new(bytes.message_schema_version)
      emitted_at == parse_emitted_at(bytes.emitted_at)
      source == decode_authority(bytes.source)
      scope == decode_scope(bytes.scope)
      target == decode_optional_target(bytes.target)
      correlation_id == uuid_from_str(bytes.correlation_id)
      causation_id == decode_optional_message_id(bytes.causation_id)
  IN  IF \/ ~DecodeEnvelope(bytes)
         \/ bytes.envelope_version # ENVELOPE_VERSION
         \/ bytes.payload.root # "object"
         \/ AnyInvalid(<<id, kind, name, version, emitted_at, source, scope, target,
                         correlation_id, causation_id>>)
      THEN Invalid
      ELSE MessageMetadata_new(
             [message_id |-> id, descriptor |-> ContractDescriptor(kind, name, version),
              emitted_at |-> emitted_at, source |-> source, scope |-> scope, target |-> target,
              correlation_id |-> correlation_id, causation_id |-> causation_id])

decode_envelope(bytes) ==
  IF envelope_size(bytes) > MAX_ENCODED_MESSAGE_BYTES \/ parse(bytes) = Invalid THEN Invalid
  ELSE EncodedMessage_new(parse(bytes), bytes)

\* readable: the Deserialize of the typed payload accepts it.
decode_typed(message, expected, readable) ==
  LET metadata == parse(message.bytes) IN
  IF \/ metadata = Invalid
     \/ metadata # message.metadata
     \/ metadata.descriptor # expected
     \/ ~readable
  THEN Invalid ELSE message.bytes.payload

----------------------------------------------------------------------------
(* The four probe contracts. A payload names the keys it has; probe_value  *)
(* is its number of Unicode scalars.                                       *)

MAX_PROBE_SCALARS == 256

ProbeName(authority, suffix) ==
  <<"edtech", "transport", IF authority = "cell" THEN "cell-probe" ELSE "platform-probe", suffix>>
requested_descriptor(authority) == ContractDescriptor("command", ProbeName(authority, "requested"), 1)
observed_descriptor(authority) == ContractDescriptor("event", ProbeName(authority, "observed"), 1)

operation_id_is_valid(payload) ==
  "operation_id" \in payload.keys /\ uuid_from_str(payload.operation_id) # Invalid

requested_payload(payload) ==
  /\ payload.keys = {"operation_id", "probe_value"} /\ operation_id_is_valid(payload)
  /\ payload.probe_value \in 1..MAX_PROBE_SCALARS

observed_payload(payload) ==
  /\ payload.keys = {"operation_id", "accepted"} /\ operation_id_is_valid(payload)

\* An accepted flag, a tag and an identifier: far below any bound.
observed_new(operation_id) ==
  [root |-> "object", size |-> 80, keys |-> {"operation_id", "accepted"},
   operation_id |-> uuid_text(operation_id), probe_value |-> 0]

----------------------------------------------------------------------------
(* The outbox row.                                                         *)

\* The columns hold the metadata; the epoch is stored as text.
DatabaseMetadata_from_message(message) ==
  [message.metadata EXCEPT !.scope.assignment_epoch = IF @ = None THEN None ELSE epoch_text(@)]

column_ranges(row, bytes) ==
  /\ row.emitted_at >= 0 /\ 1 <= row.descriptor.schema_version /\ row.descriptor.schema_version <= 65535
  /\ 2 <= envelope_size(bytes) /\ envelope_size(bytes) <= 262144

\* CHECK constraints of cell_messaging.outbox_message ...
cell_outbox_check(row, bytes) ==
  /\ row.source.kind = "cell" /\ row.scope.kind # "platform"
  /\ row.source.cell_id = row.scope.cell_id
  /\ row.target # None /\ row.target.kind = "cell" => row.target.cell_id = row.scope.cell_id
  /\ (row.descriptor.kind = "command") <=> (row.target # None)
  /\ row.causation_id # row.message_id
  /\ column_ranges(row, bytes)

\* ... and of platform_messaging.outbox_message.
platform_outbox_check(row, bytes) ==
  /\ row.source.kind = "cell" => row.scope.kind # "platform" /\ row.source.cell_id = row.scope.cell_id
  /\ row.target # None /\ row.target.kind = "cell" =>
       row.scope.kind # "platform" /\ row.target.cell_id = row.scope.cell_id
  /\ (row.descriptor.kind = "command") <=> (row.target # None)
  /\ row.causation_id # row.message_id
  /\ column_ranges(row, bytes)

\* The metadata comes from the columns alone, the bytes are not parsed.
message_from_row(row, bytes) ==
  LET epoch == IF row.scope.assignment_epoch = None THEN None
               ELSE epoch_from_str(row.scope.assignment_epoch)
      emitted_at == EmittedAt_new(row.emitted_at)
      metadata == MessageMetadata_new([row EXCEPT !.scope.assignment_epoch = epoch,
                                                  !.emitted_at = emitted_at])
  IN  IF AnyInvalid(<<epoch, emitted_at, metadata>>) THEN Invalid
      ELSE EncodedMessage_new(metadata, bytes)

----------------------------------------------------------------------------
(* Publication and delivery.                                               *)

stream_name(kind) == IF kind = "command" THEN "EDTECH_COMMANDS_V1" ELSE "EDTECH_EVENTS_V1"

MAX_SUBJECT_BYTES == 512
validate_concrete_subject(tokens) ==
  /\ NameLength(tokens) \in 1..MAX_SUBJECT_BYTES
  /\ \A i \in DOMAIN tokens : tokens[i] \notin {"", "star*", "white space"}

Subject(direction, m, cell_id) ==
  LET tokens == <<"edtech", "v1", m.descriptor.kind, direction, cell_id>> \o Tail(m.descriptor.name)
  IN  IF validate_concrete_subject(tokens) THEN tokens ELSE Invalid

\* Only the four routes between Platform and a Cell have a subject.
TransportSubject_derive(m) ==
  LET towards(t) == IF m.descriptor.kind = "event" THEN m.target = None
                    ELSE m.target # None /\ m.target.kind = t
  IN  IF m.scope.kind = "platform" THEN Invalid
      ELSE IF /\ m.source.kind = "platform" /\ towards("cell")
              /\ m.target # None => m.target.cell_id = m.scope.cell_id
        THEN Subject("platform-to-cell", m, m.scope.cell_id)
      ELSE IF m.source.kind = "cell" /\ towards("platform") /\ m.source.cell_id = m.scope.cell_id
        THEN Subject("cell-to-platform", m, m.source.cell_id)
      ELSE Invalid

MESSAGE_CONTENT_TYPE == "application/vnd.edtech.message+json;version=1"

Header(name, value, bytes) == [name |-> name, value |-> value, bytes |-> bytes]
publish_headers(m) ==
  LET stream == stream_name(m.descriptor.kind) IN
  <<Header("Nats-Msg-Id", uuid_text(m.message_id), 36),
    Header("Nats-Expected-Stream", stream, Len(stream)),
    Header("Content-Type", MESSAGE_CONTENT_TYPE, Len(MESSAGE_CONTENT_TYPE))>>

publish_exact(message) ==
  LET m == message.metadata
      subject == TransportSubject_derive(m)
  IN  IF subject = Invalid THEN Invalid
      ELSE [subject |-> subject, stream |-> stream_name(m.descriptor.kind),
            headers |-> publish_headers(m), payload |-> message.bytes]

\* A stream counts the header block, with its version line and separators.
MAX_MESSAGE_SIZE == 270336
fits_stream(publication) ==
  LET line(h) == Len(h.name) + h.bytes + 4 IN
  Len("NATS/1.0") + 4 + Total([i \in DOMAIN publication.headers |-> line(publication.headers[i])])
    + envelope_size(publication.payload) <= MAX_MESSAGE_SIZE

InboundHeaderSet_from_pairs(headers) ==
  /\ Len(headers) <= 32
  /\ \A i \in DOMAIN headers : Len(headers[i].name) \in 1..128 /\ headers[i].bytes <= 512

\* Of the spellings of a header name, three stand for all.
to_ascii_lowercase(name) ==
  CASE name \in {"Nats-Msg-Id", "NATS-MSG-ID"} -> "nats-msg-id"
    [] name \in {"Nats-Expected-Stream", "NATS-EXPECTED-STREAM"} -> "nats-expected-stream"
    [] name \in {"Content-Type", "CONTENT-TYPE"} -> "content-type"
    [] name \in {"Nats-Stream", "NATS-STREAM"} -> "nats-stream"
    [] name \in {"Nats-Sequence", "NATS-SEQUENCE"} -> "nats-sequence"
    [] name \in {"Nats-Time-Stamp", "NATS-TIME-STAMP"} -> "nats-time-stamp"
    [] name \in {"Nats-Subject", "NATS-SUBJECT"} -> "nats-subject"
    [] name \in {"Nats-Last-Sequence", "NATS-LAST-SEQUENCE"} -> "nats-last-sequence"
    [] name \in {"Nats-Last-Subject-Sequence", "NATS-LAST-SUBJECT-SEQUENCE"} -> "nats-last-subject-sequence"
    [] name \in {"Nats-Pending-Messages", "NATS-PENDING-MESSAGES"} -> "nats-pending-messages"
    [] name \in {"Nats-Pending-Bytes", "NATS-PENDING-BYTES"} -> "nats-pending-bytes"
    [] OTHER -> name

\* Names are compared without regard to case here and with it below.
is_known_delivery_header(name) ==
  to_ascii_lowercase(name) \in
    {"nats-msg-id", "nats-expected-stream", "content-type", "nats-stream", "nats-sequence",
     "nats-time-stamp", "nats-subject", "nats-last-sequence", "nats-last-subject-sequence",
     "nats-pending-messages", "nats-pending-bytes"}

Named(headers, name) == {i \in DOMAIN headers : headers[i].name = name}
exactly_one(headers, name) == \E i \in DOMAIN headers : Named(headers, name) = {i}
optional_one(headers, name) == Named(headers, name) = {} \/ exactly_one(headers, name)

\* A mutant of validate_headers: the message identifier is read, not compared.
validate_headers_unmatched(headers, message, stream) ==
  /\ \A i \in DOMAIN headers : is_known_delivery_header(headers[i].name)
  /\ exactly_one(headers, "Nats-Msg-Id") /\ exactly_one(headers, "Content-Type")

validate_headers(headers, message, stream) ==
  /\ \A i \in DOMAIN headers : is_known_delivery_header(headers[i].name)
  /\ exactly_one(headers, "Nats-Msg-Id")
  /\ \A i \in Named(headers, "Nats-Msg-Id") : uuid_from_str(headers[i].value) = message.metadata.message_id
  /\ exactly_one(headers, "Content-Type")
  /\ \A i \in Named(headers, "Content-Type") : headers[i].value = MESSAGE_CONTENT_TYPE
  /\ optional_one(headers, "Nats-Expected-Stream")
  /\ \A i \in Named(headers, "Nats-Expected-Stream") : headers[i].value = stream

\* process_delivery_inner up to the handler: the message, or a rejection.
accept_delivery(delivery) ==
  LET message == decode_envelope(delivery.payload) IN
  IF \/ ~InboundHeaderSet_from_pairs(delivery.headers)
     \/ message = Invalid
     \/ ~validate_headers(delivery.headers, message, delivery.stream)
     \/ TransportSubject_derive(message.metadata) = Invalid
     \/ TransportSubject_derive(message.metadata) # delivery.subject
     \/ stream_name(message.metadata.descriptor.kind) # delivery.stream
  THEN Invalid ELSE message

----------------------------------------------------------------------------
(* The handlers that answer.                                               *)

valid_platform_to_cell_command(m, cell) ==
  /\ m.source.kind = "platform"
  /\ m.scope.kind = "tenant" /\ m.scope.cell_id = cell
  /\ m.target = Authority("cell", cell)

valid_cell_to_platform_command(m) ==
  m.source.kind = "cell" /\ m.scope.kind = "tenant" /\ m.target = Authority("platform", None)

\* A mutant of answer_metadata: the answer keeps the identifier of its command.
answer_metadata_reused(command, id, now, descriptor, source) ==
  MessageMetadata_new(
    [message_id |-> command.message_id, descriptor |-> descriptor,
     emitted_at |-> EmittedAt_new(now), source |-> source, scope |-> command.scope,
     target |-> None, correlation_id |-> command.correlation_id,
     causation_id |-> command.message_id])

\* The metadata of the answer: its cause is the command, its scope the command's.
answer_metadata(command, id, now, descriptor, source) ==
  MessageMetadata_new(
    [message_id |-> id, descriptor |-> descriptor, emitted_at |-> EmittedAt_new(now),
     source |-> source, scope |-> command.scope, target |-> None,
     correlation_id |-> command.correlation_id, causation_id |-> command.message_id])

\* handle_cell_command and handle_platform_command: "Rejected", or the answer to enqueue.
handle_command(message, authority, cell, id, now) ==
  LET m == message.metadata
      valid == IF authority = "cell" THEN valid_platform_to_cell_command(m, cell)
               ELSE valid_cell_to_platform_command(m)
      payload == decode_typed(message, requested_descriptor(authority),
                              requested_payload(message.bytes.payload))
      source == Authority(authority, IF authority = "cell" THEN cell ELSE None)
      answer == answer_metadata(m, id, now, observed_descriptor(authority), source)
  IN  CASE ~valid -> [result |-> "Rejected", answer |-> None]
        [] valid /\ payload = Invalid -> [result |-> "Rejected", answer |-> None]
        [] OTHER ->
             LET encoded == IF AnyInvalid(<<EmittedAt_new(now), answer>>) THEN Invalid
                            ELSE encode(answer, observed_new(uuid_from_str(payload.operation_id)))
             IN  [result |-> IF encoded = Invalid THEN "Fatal" ELSE "Enqueue", answer |-> encoded]

----------------------------------------------------------------------------
(* What the types of the code admit, before any constructor looks at it.   *)

Optional(S) == S \cup {None}
Uuids == STRING \ {"v4"}   \* of version 7
UuidTexts == STRING \X STRING

Descriptors == [kind : {"command", "event"}, name : Seq(STRING), schema_version : Int]
Authorities == [kind : {"platform"}, cell_id : {None}] \cup [kind : {"cell"}, cell_id : CellIds]
Scopes ==
  [kind : {"platform"}, cell_id : {None}, tenant_id : {None}, assignment_epoch : {None}]
  \cup [kind : {"cell"}, cell_id : CellIds, tenant_id : {None}, assignment_epoch : {None}]
  \cup [kind : {"tenant"}, cell_id : CellIds, tenant_id : Uuids, assignment_epoch : 1..MaxEpoch]
Metadatas ==
  [message_id : STRING, descriptor : Descriptors, emitted_at : Int, source : Authorities,
   scope : Scopes, target : Optional(Authorities), correlation_id : Uuids,
   causation_id : Optional(Uuids)]

\* JSON values of the right shape.
AuthorityTexts == [kind : STRING, cell_id : Optional(STRING)]
ScopeTexts == [kind : STRING, cell_id : Optional(STRING), tenant_id : Optional(UuidTexts),
               assignment_epoch : Optional(Nat \X STRING)]
PayloadTexts == [root : STRING, size : Nat, keys : SUBSET STRING, operation_id : UuidTexts,
                 probe_value : Nat]
Envelopes ==
  [json : STRING, space : Nat, envelope_version : Nat, message_id : UuidTexts,
   message_kind : STRING, message_name : Seq(STRING), message_schema_version : Int,
   emitted_at : [spelling : STRING, instant : Int], source : AuthorityTexts, scope : ScopeTexts,
   target : Optional(AuthorityTexts), correlation_id : UuidTexts,
   causation_id : Optional(UuidTexts), payload : PayloadTexts]

Headers == [name : STRING, value : UuidTexts \cup STRING, bytes : Nat]
EncodedMessages == [metadata : Metadatas, bytes : Envelopes]
Publications == [subject : Seq(STRING), stream : STRING, headers : Seq(Headers), payload : Envelopes]

\* None and Invalid are no values of any type.
ASSUME Distinct ==
  /\ None \notin STRING /\ None \notin Int /\ None \notin UuidTexts /\ None \notin Nat \X STRING
  /\ None \notin AuthorityTexts
  /\ Invalid # None /\ Invalid \notin STRING /\ Invalid \notin Int /\ Invalid \notin Seq(STRING)
  /\ Invalid \notin AuthorityTexts /\ Invalid \notin Scopes /\ Invalid \notin Metadatas
  /\ Invalid \notin EncodedMessages /\ Invalid \notin Publications

\* Literals are strings, and those that subjects and headers are put together
\* from are short: what the provers do not compute.
ASSUME Literals ==
  /\ {"hyphenated", "plain", "micros", "canonical", "object", "command", "event", "platform", "cell", "tenant",
      "platform-to-cell", "cell-to-platform", "edtech", "v1", "transport", "cell-probe", "platform-probe",
      "observed", "op-1", "operation_id", "probe_value", "accepted", "Nats-Msg-Id", "Nats-Expected-Stream", "Content-Type",
      stream_name("command"), stream_name("event"), MESSAGE_CONTENT_TYPE} \subseteq STRING
  /\ \A text \in {"NATS/1.0", "Nats-Msg-Id", "Nats-Expected-Stream", "Content-Type",
                  stream_name("command"), stream_name("event"), MESSAGE_CONTENT_TYPE} : Len(text) \in 1..50
  /\ \A token \in {"edtech", "event", "platform-to-cell", "cell-to-platform", "transport",
                   "cell-probe", "platform-probe", "observed"} : Len(token) \in 5..20
  /\ \A kind \in {"command", "event", "platform", "cell", "tenant"} : Len(kind) \in 4..8
  /\ Len("v1") = 2
=============================================================================
