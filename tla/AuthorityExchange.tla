------------------------- MODULE AuthorityExchange -------------------------
(***************************************************************************)
(* The Platform and its Cells exchanging messages: metadata rules, subject *)
(* derivation, outbox and inbox authority checks, durable bindings and the *)
(* handlers of the four transport probes, composed end to end.             *)
(*                                                                         *)
(* Leases, redelivery and transactions are modelled in OutboxPublisher and *)
(* InboxConsumer; here a publication and a delivery are single steps that  *)
(* keep what those two leave possible: a stored message whose row is not   *)
(* marked, a committed receipt whose acknowledgment is lost, duplicates    *)
(* and any order.                                                          *)
(***************************************************************************)
EXTENDS Integers, FiniteSets

CONSTANTS
  Cell,            \* logical Cells that the topology manifest declares
  Undeclared,      \* other valid CellIds: no process and no durable is theirs
  Platform, None,
  Requests,        \* metadata that applications try to enqueue, without id
  Registered(_),   \* assignment epochs a Cell has registered and enabled
  MaxMessages      \* bound: message identities issued in a behaviour

Authority == Cell \cup {Platform}
CellId == Cell \cup Undeclared
Kind == {"command", "event"}

\* MessageScope: Platform, Cell and Tenant, the last with its epoch.
PlatformScope == [kind |-> "platform", cell |-> None, epoch |-> 0]
CellScope(c) == [kind |-> "cell", cell |-> c, epoch |-> 0]
TenantScope(c, n) == [kind |-> "tenant", cell |-> c, epoch |-> n]

ASSUME ExchangeAssumption ==
  /\ Cell \cap Undeclared = {}
  /\ Platform \notin CellId /\ None \notin CellId \cup {Platform}
  /\ MaxMessages \in Nat
  /\ \A r \in Requests : r.kind \in Kind /\ r.source \in CellId \cup {Platform}
                         /\ r.target \in CellId \cup {Platform, None}
                         /\ r.scope.cell \in CellId \cup {None}

VARIABLES
  outbox,     \* committed outbox rows of each authority
  published,  \* identities of rows with a published_at
  batch,      \* identities claimed by the running publisher
  stream,     \* messages waiting in the two streams
  inbox,      \* committed receipts of each authority
  issued      \* number of message identities generated so far

vars == <<outbox, published, batch, stream, inbox, issued>>

----------------------------------------------------------------------------
(* Metadata, routes and authority checks.                                  *)

\* MessageMetadata::new
MetadataValid(m) ==
  /\ (m.kind = "command") <=> (m.target # None)
  /\ m.cause # m.id
  /\ m.source \in CellId => m.scope.cell = m.source
  /\ m.target \in CellId => m.scope.cell = m.target

\* Direction tokens of the four routes, "none" where derive reports Subject.
Direction(m) ==
  LET cell == m.scope.cell
      down == m.source = Platform /\ (m.kind = "command" => m.target = cell)
      up == m.source = cell /\ (m.kind = "command" => m.target = Platform)
  IN  IF cell # None /\ down THEN "platform-to-cell"
      ELSE IF cell # None /\ up THEN "cell-to-platform"
      ELSE "none"

\* TransportSubject::derive; the kind also selects the stream.
Subject(m) == [kind |-> m.kind, direction |-> Direction(m), cell |-> m.scope.cell]
Routable(m) == Direction(m) # "none"

\* A mutant of Filter: every Cell's durables match the subjects of all Cells.
FilterAnyCell(a, k) ==
  [kind : {k}, direction : {IF a = Platform THEN "cell-to-platform" ELSE "platform-to-cell"},
   cell : CellId]

\* Filter subjects of the durables of authority a; the Platform's end in ">".
Filter(a, k) ==
  IF a = Platform
  THEN [kind : {k}, direction : {"cell-to-platform"}, cell : CellId]
  ELSE [kind : {k}, direction : {"platform-to-cell"}, cell : {a}]

\* authorize_publish of the worker's role.
AuthorizePublish(a, m) == m.source = a

\* validate_platform_source
PlatformSource(m) == m.source = Platform

\* validate_cell_outbound
CellOutbound(c, m) == m.source = c /\ m.scope.cell = c

\* tenant_scope_status for the scope of a message in Cell c
TenantActive(c, m) == m.scope.kind = "tenant" => m.scope.epoch \in Registered(c)

\* validate_platform_inbound
PlatformInbound(m) == IF m.kind = "command" THEN m.target = Platform ELSE m.target = None

\* validate_cell_inbound
CellInbound(c, m) ==
  m.scope.cell = c /\ (IF m.kind = "command" THEN m.target = c ELSE m.target = None)

----------------------------------------------------------------------------
(* The handlers of the transport probes.                                   *)

\* A mutant of CellToPlatform: the scope of the message is not looked at.
CellToPlatformUnscoped(k, m) ==
  m.source \in CellId /\ m.target = (IF k = "command" THEN Platform ELSE None)

\* valid_cell_to_platform_command and valid_cell_to_platform_event
CellToPlatform(k, m) ==
  /\ m.source \in CellId /\ m.scope.kind = "tenant"
  /\ m.target = (IF k = "command" THEN Platform ELSE None)

\* valid_platform_to_cell_command and valid_platform_to_cell_event
PlatformToCell(c, k, m) ==
  /\ m.source = Platform /\ m.scope.kind = "tenant" /\ m.scope.cell = c
  /\ m.target = (IF k = "command" THEN c ELSE None)

\* Descriptors the typed decoders demand of each durable's handler.
HandlerContract(a, k) ==
  IF k = "command"
  THEN IF a = Platform THEN "platform-probe-requested" ELSE "cell-probe-requested"
  ELSE IF a = Platform THEN "cell-probe-observed" ELSE "platform-probe-observed"

\* A mutant of Observed: the answer is scoped to the Cell, not to the tenant.
ObservedUnscoped(a, m) ==
  [id |-> issued + 1, kind |-> "event",
   contract |-> IF a = Platform THEN "platform-probe-observed" ELSE "cell-probe-observed",
   source |-> a, scope |-> CellScope(m.scope.cell), target |-> None,
   correlation |-> m.correlation, cause |-> m.id]

\* The derived event: fresh identity, own source, the scope and correlation of
\* the command, and the command as its direct cause.
Observed(a, m) ==
  [id |-> issued + 1, kind |-> "event",
   contract |-> IF a = Platform THEN "platform-probe-observed" ELSE "cell-probe-observed",
   source |-> a, scope |-> m.scope, target |-> None,
   correlation |-> m.correlation, cause |-> m.id]

----------------------------------------------------------------------------

Rows(a) == {m.id : m \in outbox[a]}
Message == UNION {outbox[a] : a \in Authority}

TypeOK ==
  /\ \A a \in Authority : \A m \in outbox[a] : m.id \in 1..issued /\ m.source = a
  /\ \A a \in Authority : published[a] \subseteq Rows(a) /\ batch[a] \subseteq Rows(a)
  /\ stream \subseteq Message
  /\ inbox \in [Authority -> SUBSET (1..issued)]
  /\ issued \in 0..MaxMessages

Init ==
  /\ outbox = [a \in Authority |-> {}]
  /\ published = [a \in Authority |-> {}]
  /\ batch = [a \in Authority |-> {}]
  /\ stream = {}
  /\ inbox = [a \in Authority |-> {}]
  /\ issued = 0

\* An application's message: constructed, checked by its authority, committed.
NewMessage(r) ==
  [id |-> issued + 1, kind |-> r.kind, contract |-> r.contract, source |-> r.source,
   scope |-> r.scope, target |-> r.target, correlation |-> issued + 1, cause |-> 0]

Insert(a, m) ==
  /\ outbox' = [outbox EXCEPT ![a] = @ \cup {m}]
  /\ issued' = m.id

EnqueuePlatform(r) ==
  LET m == NewMessage(r) IN
  /\ issued < MaxMessages
  /\ MetadataValid(m)
  /\ PlatformSource(m)
  /\ Insert(Platform, m)
  /\ UNCHANGED <<published, batch, stream, inbox>>

EnqueueCell(c, r) ==
  LET m == NewMessage(r) IN
  /\ issued < MaxMessages
  /\ MetadataValid(m)
  /\ CellOutbound(c, m)
  /\ TenantActive(c, m)
  /\ Insert(c, m)
  /\ UNCHANGED <<published, batch, stream, inbox>>

\* The publisher claims rows; which ones depends on leases and availability.
Claim(a, S) ==
  /\ batch[a] = {}
  /\ S # {}
  /\ S \subseteq Rows(a) \ published[a]
  /\ batch' = [batch EXCEPT ![a] = S]
  /\ UNCHANGED <<outbox, published, stream, inbox, issued>>

\* publish_one to the end: stored and marked.  Outside the duplicate window a
\* message that was handled before is stored again.
Publish(a, m) ==
  /\ m.id \in batch[a]
  /\ AuthorizePublish(a, m)
  /\ Routable(m)
  /\ stream' = stream \cup {m}
  /\ published' = [published EXCEPT ![a] = @ \cup {m.id}]
  /\ batch' = [batch EXCEPT ![a] = @ \ {m.id}]
  /\ UNCHANGED <<outbox, inbox, issued>>

\* Stored, but the worker ends before the marker and drops its batch.
PublishUnmarked(a, m) ==
  /\ m.id \in batch[a]
  /\ AuthorizePublish(a, m)
  /\ Routable(m)
  /\ stream' = stream \cup {m}
  /\ batch' = [batch EXCEPT ![a] = {}]
  /\ UNCHANGED <<outbox, published, inbox, issued>>

\* Authorization and Subject are not transient: the publisher task ends, with
\* it the worker, and the row is neither rescheduled nor marked.
PublishFatal(a, m) ==
  /\ m.id \in batch[a]
  /\ ~AuthorizePublish(a, m) \/ ~Routable(m)
  /\ batch' = [batch EXCEPT ![a] = {}]
  /\ UNCHANGED <<outbox, published, stream, inbox, issued>>

\* A mutant of Receive: a duplicate is answered a second time.
ReceiveTwice(a, m) ==
  /\ inbox' = [inbox EXCEPT ![a] = @ \cup {m.id}]
  /\ IF m.kind = "command"
     THEN issued < MaxMessages /\ Insert(a, Observed(a, m))
     ELSE UNCHANGED <<outbox, issued>>

\* record_inbox_and_enqueue: receipt and answer, or nothing for a duplicate.
Receive(a, m) ==
  IF m.id \in inbox[a]
  THEN UNCHANGED <<outbox, inbox, issued>>
  ELSE /\ inbox' = [inbox EXCEPT ![a] = @ \cup {m.id}]
       /\ IF m.kind = "command"
          THEN issued < MaxMessages /\ Insert(a, Observed(a, m))
          ELSE UNCHANGED <<outbox, issued>>

\* The durable hands out m, and its subject and kind match the binding.
Delivered(a, k, m) == m \in stream /\ Subject(m) \in Filter(a, k)

\* Delivery on the Platform.  What the guards turn away gets a delayed NAK and
\* stays in the stream.
HandlePlatform(k, m) ==
  /\ Delivered(Platform, k, m)
  /\ CellToPlatform(k, m)
  /\ m.contract = HandlerContract(Platform, k)
  /\ PlatformInbound(m)
  /\ m.kind = "command" => PlatformSource(Observed(Platform, m))
  /\ Receive(Platform, m)
  /\ UNCHANGED <<published, batch>>

\* Delivery in Cell c; the tenant scopes of request and answer are checked.
HandleCell(c, k, m) ==
  /\ Delivered(c, k, m)
  /\ PlatformToCell(c, k, m)
  /\ m.contract = HandlerContract(c, k)
  /\ CellInbound(c, m)
  /\ TenantActive(c, m)
  /\ m.kind = "command" => /\ CellOutbound(c, Observed(c, m))
                           /\ TenantActive(c, Observed(c, m))
  /\ Receive(c, m)
  /\ UNCHANGED <<published, batch>>

Handle(a, k, m) == IF a = Platform THEN HandlePlatform(k, m) ELSE HandleCell(a, k, m)

\* The double acknowledgment removes the message; a lost one leaves it.
HandleAcked(a, k, m) == Handle(a, k, m) /\ stream' = stream \ {m}
HandleUnacked(a, k, m) == Handle(a, k, m) /\ UNCHANGED stream

Next ==
  \/ \E r \in Requests : EnqueuePlatform(r) \/ \E c \in Cell : EnqueueCell(c, r)
  \/ \E a \in Authority :
       \/ \E S \in SUBSET Rows(a) : Claim(a, S)
       \/ \E m \in outbox[a] : Publish(a, m) \/ PublishUnmarked(a, m) \/ PublishFatal(a, m)
       \/ \E k \in Kind, m \in stream : HandleAcked(a, k, m) \/ HandleUnacked(a, k, m)

Spec == Init /\ [][Next]_vars

\* Workers keep claiming and publishing; a marker that is tried for ever is
\* written in the end, and a delivery that stays available is acknowledged.
Fairness ==
  \A a \in Authority :
    /\ WF_vars(\E S \in SUBSET Rows(a) : Claim(a, S))
    /\ WF_vars(\E m \in outbox[a] : Publish(a, m) \/ PublishUnmarked(a, m) \/ PublishFatal(a, m))
    /\ SF_vars(\E m \in outbox[a] : Publish(a, m))
    /\ WF_vars(\E k \in Kind, m \in stream : HandleAcked(a, k, m))

FairSpec == Spec /\ Fairness

----------------------------------------------------------------------------
(* Correctness.                                                            *)

Destination(m) ==
  CASE Direction(m) = "platform-to-cell" -> m.scope.cell
    [] Direction(m) = "cell-to-platform" -> Platform
    [] OTHER -> None

\* An authority handles only tenant work that another authority addressed to
\* it, whatever its durables match.
HandledWhereAddressed ==
  \A a \in Authority : \A m \in Message :
    m.id \in inbox[a] => m.scope.kind = "tenant" /\ Destination(m) = a /\ m.source # a

\* Each stored message is matched by the one durable of the authority its
\* route ends at: the work-queue stream admits no second, and without one
\* nobody would take it.  What the Platform sends to a Cell that the manifest
\* does not declare is stored all the same, and no durable matches it.
ExactlyOneDurable ==
  \A m \in stream :
    LET matching == {d \in Authority \X Kind : Subject(m) \in Filter(d[1], d[2])} IN
    /\ Cardinality(matching) = IF Destination(m) \in Undeclared THEN 0 ELSE 1
    /\ \A d \in matching : d = <<Destination(m), m.kind>>

\* A handled command has one answer, in the workflow and tenant of the command
\* and addressed to the authority that asked, however often it is delivered.
AnsweredOnce ==
  \A a \in Authority : \A m \in Message :
    m.kind = "command" /\ m.id \in inbox[a] =>
      LET answers == {n \in Message : n.cause = m.id} IN
      /\ Cardinality(answers) = 1
      /\ \A n \in answers : /\ n.source = a /\ Destination(n) = m.source
                            /\ n.scope = m.scope /\ n.correlation = m.correlation

\* A row the publisher can only fail on.
Unroutable(a) == \E m \in outbox[a] : ~Routable(m)

\* A command a worker's handler answers.
Supported(m) ==
  /\ m.kind = "command" /\ Routable(m) /\ m.scope.kind = "tenant"
  /\ m.target \in Authority
  /\ m.contract = HandlerContract(m.target, "command")
  /\ m.scope.epoch \in Registered(m.scope.cell)

\* Round trip: a supported command ends as a receipt of its answer at the
\* authority that sent it, unless an unroutable row keeps ending the publisher
\* of one of the two, or the bound on identities is used up.
RoundTrip ==
  \A i \in 1..MaxMessages, a \in Authority :
    (\E m \in outbox[a] : m.id = i /\ Supported(m))
    ~> \/ \E n \in Message : n.cause = i /\ n.id \in inbox[a]
       \/ \E b \in Authority : Unroutable(b)
       \/ issued = MaxMessages /\ ~ \E n \in Message : n.cause = i
============================================================================
