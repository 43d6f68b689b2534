# TLA+ verification of the edtech messaging foundation

The repository is the foundation of a multi-tenant platform: one *Platform* authority and
several *Cells*, each with its own PostgreSQL database, exchanging messages over NATS
JetStream. Business features are still empty shells; what the code has to get right is
delivery (a transactional outbox, a fenced publisher, an idempotent inbox), tenant isolation,
the deployment of schemas and broker topology, processes that start only on what they can run
with and shut down in order, and tools that leave nothing behind. This directory models those
parts, checks them with TLC and proves every safety property that the runs check with TLAPS.

## 1. Inventory

| Component | State it keeps | Operations | Interacts with | What is hard | What makes it correct |
|---|---|---|---|---|---|
| `cell-message-runtime`, `platform-message-runtime`: publisher | claimed batch, lease fence | `run_outbox_publisher`, `publish_one`, `plan_retry_delay` | message store (calls), JetStream (publish / ack) | leases that run out under a slow worker, late acknowledgments, crashes between acceptance and marker | marker only after acceptance; only the holder of the current fence changes a row; every row is published in the end |
| same crates: consumers | fetched batch, open transactions | `run_consumer`, `process_delivery`, handlers | JetStream (pull, ack, NAK), authority database | redelivery while a delivery is being handled, handler timeouts, commits with unknown outcome | one effect per message; acknowledgment only after commit; bad records are rejected |
| `postgres-message-store` | `outbox_message`, `outbox_delivery`, `inbox_receipt` | `enqueue`, `claim_batch`, `mark_published`, `reschedule`, `record_inbox` | PostgreSQL | row locks, `SKIP LOCKED`, `now()` as transaction start | as above |
| `cell-postgres`, `platform-postgres` | role, Cell identity, pool, connection check | `connect`, `enqueue_outbound_message`, `record_inbox_and_enqueue`, canary operations | message store, tenant authority | tenant changes between check and commit, settings on pooled connections, a check that is kept for the life of the process | a message is stored and handled only by the authority it belongs to; tenant rows are touched only while the tenant is served with the caller's epoch |
| `nats-jetstream` | connection, verified topology | `derive`, bindings, `publish_exact`, `fetch`, `double_ack`, `nak_with_delay` | JetStream | errors that are transient and errors that are not | each message has exactly one destination |
| `nats-jetstream-admin`, `nats-provisioner` | none (the broker's configuration) | `plan`, `apply`, `wait_ready` | JetStream management API | overlapping and interrupted runs, drift | nothing is lowered, replaced or deleted; repeating converges |
| `process-lifecycle`, `cell-worker`, `platform-worker` | root token, `JoinSet` | `spawn`, `run_until_shutdown`, `drain`, drop | the three worker tasks, signals | tasks that fail, panic or hang while draining | the process exits and never hides a failure |
| `cell-migrations`, `platform-migrations`, `db-migrator`, `postgres-runtime` | migration history, schema contract, advisory lock | `migrate`, `check_database`, role and server checks | PostgreSQL, every process that connects | concurrent migrators, abandoned sessions, wrong credentials, reports assembled from two reads | one migrator at a time, nothing changed under a wrong credential, a success report is true |
| `runtime-config` | none | merge of file and environment, validation per service | constructors of every runtime | bounds repeated in several layers, a file overriding the environment | what is accepted runs; TLS is off only in dev |
| `message-domain`, `tenancy-domain`, `message-codec-json`, `transport-probe-contracts` | none | constructors, `encode`, `decode_envelope`, `decode_typed`, descriptors | everything above | one message in four representations | no representation is stricter than the one before; what is handled is what was sent |
| `xtask` local environments | directories, state files, Compose projects, evidence | up, down, migrate-local, provision, verify, qualify | Docker, qualification tools | kills and failures between any two steps, two commands at once | nothing is left behind, a running environment is left alone, evidence is kept |
| `xtask verify-architecture` | none | `validate_graph` | the workspace's dependency graph | rules on single edges, promises about paths | authorities stay apart on every path |
| `runtime-identity`, `secret-resolution`, `auth-context`, `audit-domain`, `provisioning-domain`, application shells, qualification tools | - | - | - | - | not modelled, see section 8 |

`PROJECT.json` lists the components with their files, the hazards at the line where they bite,
and, for every definition that models code, the lines it stands for.

## 2. Modules

| Module | Models |
|---|---|
| `TransactionalOutbox` | abstract: commit, then acceptance, then marker |
| `OutboxPublisher` | one authority's outbox rows, its workers and the broker's side of publication |
| `OutboxPublisherProofs` | TLAPS proofs about `OutboxPublisher` |
| `IdempotentInbox` | abstract: receipt and effect once and together, then acknowledgment |
| `InboxConsumer` | one durable, the workers bound to it, the inbox and the tenant row |
| `InboxConsumerProofs` | TLAPS proofs about `InboxConsumer` |
| `AuthorityExchange` | Platform and Cells composed: metadata rules, routes, bindings, authority checks, handlers |
| `AuthorityExchangeProofs` | TLAPS proofs about `AuthorityExchange` |
| `WorkerLifecycle` | task supervisor and shutdown sequence of a worker process |
| `TopologyProvisioner` | provisioner runs against the broker's configuration |
| `TopologyProvisionerProofs` | TLAPS proofs about `TopologyProvisioner` |
| `SchemaDeployment` | migrators and runtime processes around the databases they share |
| `SchemaDeploymentProofs` | TLAPS proofs about `SchemaDeployment` |
| `TenantIsolation` | tenant-scoped calls of a Cell process under a changing tenant authority |
| `TenantIsolationProofs` | TLAPS proofs about `TenantIsolation` |
| `LocalEnvironment` | the xtask commands that create, use and remove local environments |
| `LocalEnvironmentProofs` | TLAPS proofs about `LocalEnvironment` |
| `RuntimeConfig` | operators: sources, validation, constructors, retry delay |
| `MessageCodec` | operators: a message as metadata, envelope, row, publication, delivery, answer |
| `WorkspacePolicy` | operators: the dependency rules and the check of a graph |
| `Boundaries` | the behaviour that drives those three modules to the edges of their checks |
| `ProcessProofs` | TLAPS proofs about `WorkerLifecycle` and `Boundaries`: what a process starts with, exchanges and reports |
| `MC*` | constants for TLC |

`OutboxPublisher` and `InboxConsumer` are the two ends of one hop in full detail.
`AuthorityExchange` composes the hops: there a publication and a delivery are single steps that
keep exactly what the detailed modules leave possible - a stored message whose row is unmarked,
a committed receipt whose acknowledgment is lost, duplicates, any order.

### OutboxPublisher

`row[m]` is the `outbox_delivery` row relative to database time: `due = available_at - now`,
`ttl = leased_until - now`. `Tick` lets time pass, so no clock is needed. Each SQL statement is
one step (its predicate is re-evaluated under the row lock), but `pg_catalog.now()` is the time
the *transaction* began: `Acknowledged` and `PublishTransient` begin the transaction and decide
whether the lease is live, `MarkPublished` and `Reschedule` run the statement later, when only
`published_at IS NULL AND lease_id = $2` is looked at afresh. `task[w]` is `publish_one` per
claimed message (`queued`, `sending`, `stored`, `marking`, `deferring`); `StartPublish` respects
`buffer_unordered(concurrency)`. `Claim` covers the lost commit reply and a claim that took so
long that part of its lease is over. `Crash` stands for process death and for every `Err` that
`publish_one` returns. `BrokerStore` may happen after its sender gave up.

### InboxConsumer

A record of the stream is an `Entry` with an identity, a body, a form (`valid`, `invalid`: fails
decoding, header, subject or contract checks; `unbounded`: headers beyond `from_pairs`' bounds)
and an epoch. `task[w][e]` follows `process_delivery_inner`: checks and tenant fence (`Begin`),
receipt (`RecordInbox`, which waits for an uncommitted receipt with the same key), `Commit`,
`Acknowledge` or `Reject`. `DatabaseFails` includes the commit that was applied although the
client saw an error, `HandlerTimeout` drops the future with its transaction. `Fenced = FALSE` is
the Platform, which has no tenant fence.

### AuthorityExchange

Messages are metadata records. `MetadataValid`, `Direction`, `Filter`, `AuthorizePublish`,
`PlatformSource`, `CellOutbound`, `PlatformInbound`, `CellInbound`, `CellToPlatform` and
`PlatformToCell` are the checks of the code, each under its own name, and `Observed` is the
derived event. `Requests` is what applications try to enqueue; requests outside the rules are
part of it. The guards turn them away, except where the code has none: nothing compares a
`CellId` with the Cells of the topology manifest (`Cell`), so a Platform message for another one
(`Undeclared`) is committed, published and marked.

### WorkerLifecycle

`task` is the future of each task, `joined` the results taken from the `JoinSet`, `phase` where
`main` stands. Tasks may return (only after cancellation), fail, panic or hang in any order.
`holding` are the tasks with a database connection: `PgPool::close` admits no new ones
(`ClosePool`) and ends when all are back (`CloseDatabase`). The calls of the consumers (`Timed`)
end with `handler_timeout` at the latest; the publisher's have only the timeout of the server.

### TopologyProvisioner

An asset's configuration is reduced to what `classify_stream` and `classify_consumer` tell
apart: identity fields, replicas, one capacity bound (which also stands for the duplicate window:
a longer one is refused, a shorter one raised), forbidden features, and the description, which is
replaced whenever it differs. The forbidden features are those that a worker looks at too when it
binds (`inspected`, with the memory storage of a consumer among them) and the rest (`other`). A run reads the broker asset by asset (`ReadAsset`), refuses
on its own plan and again on `apply`'s plan (`Decide`), writes asset by asset (`Apply`), waits
and plans a last time. `stale` is a history variable: runs that met drift after they began the
plan they act on.

### SchemaDeployment

A migrator is one `db-migrator` invocation (`pc`: the statement of `migrate_with_pool` it is at),
a runtime process one API or worker (`rt`: the stage of its start-up). A database is its authority
marker, the rows of the migration history, the schema contract and the owner of
`edtech_migrations`. `Requests` and `Links` are what operators ask for, wrong credentials and
wrong Cells included; the checks that turn them away (`verify_pre_ddl`, `verify_runtime_role`,
`cell_verify_ready`, ...) keep the names of the code. Any statement fails (`StatementFails`),
`MigrationTimeout` leaves an *orphan* session whose last statement may still take effect
(`OrphanStatement`) until the server notices (`SessionEnds`). sqlx's runner is external: each
pending file commits together with its history row. A runtime process reads the contract once
(`KeepContract`) and answers `require_message_store` from that for its whole life (`UseStore`).

### TenantIsolation

A task is one call of `CellDatabase`: argument checks (`Refusal`), a pooled connection (`Begin`),
the transaction-local settings (`SetScope`), `tenant_scope_status` (`CheckStatus`), the statement
under the row policy (`InsertCanary`, `TouchCanary`), the outbox insert (`Enqueue`), the commit
with its unknown outcome. `ChangeAuthority` may run between any two statements, since the check
takes no lock; the policy asks again at each statement, the outbox has no policy.
`since` is a history variable: the scope was active at some moment after the call began. The
module assumes a database at contract 2; `SchemaDeployment` has the processes that are not.

### LocalEnvironment

A command of xtask is the sequence of its steps (`postgres_up`, `run_disposable`,
`verify_integration`, ...); an error replaces the rest by the cleanup of everything whose
destructor is armed (`Fail`), a kill drops it without any (`Killed`). The services have their own
directories but share the names of Compose projects, so a `down` with `--remove-orphans` takes
what the other service runs under the same name (`Swept`). Evidence is looked for when a
qualification starts (`GuardEvidence`) and written at its end (`Publish`). Two assumptions:
operators do not run two commands on the same manual project at once, and the generated name of a
disposable project is fresh.

### RuntimeConfig, MessageCodec, WorkspacePolicy, Boundaries

Three modules of pure operators: what the code computes from a configuration source, from a
message in one of its forms, from a dependency graph. Text is reduced to the classes that a
check tells apart (a UUID and its spelling, a name and its segments, an envelope and its JSON
form), numbers keep their bounds. The length of an envelope is computed from what is written in it
and how: an identifier has 32, 36, 38 or 45 characters, an epoch may have a sign or zeros, and
`space` counts what an encoder never writes. The 64-bit retry arithmetic is computed with `Width` bits,
where it saturates just as it does with 64. `Boundaries` starts from values that are in order
and moves them, one field at a time and at most two, to the edges of the checks. The moves are
what TLC explores; the proofs hold for any values the types allow (section 6). `Descriptors`,
`Scopes`, `Envelopes` and the other sets at the end of `MessageCodec` are those types: the fields
of the structs, before any constructor has looked at them.

## 3. Runs

| Run | Bounds | Shows |
|---|---|---|
| `outbox` | 2 workers, 1 row, leases of 2 ticks | `PublishedImpliesAccepted`, `LiveLeaseIsExclusive`, `StaleFenceChangesNothing`, the refinement `ImplementsOutbox`, and `EventuallyPublished` |
| `inbox_cell` | 2 workers of a Cell; a good record, one that reuses its identity with another body, an invalid one; 2 epochs | `AckedImpliesReceipt`, `OneEffectPerReceipt`, the refinement `ImplementsInbox` |
| `inbox_liveness` | 2 workers, a valid and an invalid record | `EventuallyAcknowledged`, `MalformedIsRejected` |
| `lifecycle` | the three tasks of a worker | `ReportedOutcomeIsTrue`, `EventuallyExits` |
| `topology_overlap` | two overlapping runs with different manifests, every class of drift | `RefusesTheWholeMutation`, `NeverDecreases`, `ConvergedMeansBindable`, `EventuallyConverged` |
| `exchange` | Platform, two Cells and an undeclared one, three message identities | `HandledWhereAddressed`, `ExactlyOneDurable`, `AnsweredOnce`, `RoundTrip` |
| `schema_deployment` | 2 migrators, 1 process, 1 database of either authority at any contract | `MigrationsAreSerial`, `ReportIsTrue`, `OnlyTheMigratorChangesASchema`, `DeployedMeansUsable`, `LockIsReleased` |
| `tenant_isolation` | 2 calls out of 14, 2 connections, 2 tenants, 2 epochs | `TouchedOnlyWhileAuthorized`, `CommittedWorkWasAuthorized`, `CanaryAndMessageTogether` |
| `local_environment` | 2 commands at once, one manual project | `DisposableLeavesNothing`, `ReadyUntilDown`, `EvidenceIsKept` |
| `boundaries` | all services, messages on every route, pairs of edits | `AcceptedConfigRuns`, `OnlyDevTurnsTlsOff`, `RetryDelayIsBounded`, `StoredMessageIsAccepted`, `AcceptedEnvelopeIsCanonical`, `HandledAsAddressed`, `EveryCommandCanBeAnswered`, `IsolationIsTransitive` |

Two runs state a sentence of the repository and are violated by the code; `PROJECT.json` quotes
the sentence and the line:

| Run | What the counterexample shows |
|---|---|
| `inbox_unbounded_headers` | a record with headers beyond the bounds fails the whole fetch and ends the consumer instead of getting a delayed NAK |
| `topology_unlimited` | an unlimited bound (-1) counts as smaller and is lowered by a safe update |

Every property of a passing run has a mutant: a plausible bug in one mapped definition under
which TLC finds the property violated. `TypeOK` is not a property of any run; it is the first
conjunct of the invariants that are proved (section 6).

## 4. Bounds

- `outbox`: two workers compete for one row; a lease of 2 ticks separates a live lease, one that
  is about to end and one that is over. Lease names are finite and reused only when no row and
  no worker remembers them (`FreshLease`), which is what a new UUIDv7 guarantees. `MaxAge` merges
  rows that have been available for long. The proofs cover any number of rows and workers; that
  a row is not starved by older ones (`ORDER BY available_at`) is beyond this bound.
- `inbox_*`: two workers and a batch of two, so that deliveries share a batch, wait for the same
  receipt key and are redelivered while handled. Two epochs make a moved tenant.
- `exchange`: two Cells, one of them without a registered tenant, and a third that is not
  declared; three identities are a command,
  its answer and one more message that may interfere.
- `topology_overlap`: one stream and one durable, two manifests.
- `schema_deployment`: two migration files, as in the repository, and databases left at contract
  0 to 3, one more than this release knows. Two migrators are the least for a race, also between
  a migrator and the orphan of another; the process starts in each of six ways. Databases do not
  share state, so one of them is enough; it belongs to the Platform or to either Cell.
- `tenant_isolation`: two calls are the least for row locks and for a second statement between
  two of the first; the fourteen calls are every operation for one tenant, a stale epoch, another
  tenant, and each reason for a refusal. The epoch of an assigned tenant never
  decreases (docs/architecture/invariants.md, item 7).
- `local_environment`: one command per slot, two slots; a manual project with a command on it
  beside a disposable one, a manual name used for both services one after the other, or two
  disposable projects that write the same evidence.
- `boundaries`: `MaxEdits = 2`, and two fields of a configuration are edited together only where
  some check relates them (`MCCoupled`). Times and sizes take the values at and beside each bound; `space` fills an envelope up to
  exactly 262144 bytes, also with an identifier that lacks its hyphens.

`CHECK_DEADLOCK FALSE` is used where the system may really stop: an exited process, migrators
and calls that have returned, an exchange whose identities are used up, edits that are done. The
other runs check deadlock.

## 5. Fairness

`calm` (in the outbox, inbox and topology modules) becomes true at some point and then crashes,
lost replies, timeouts, drift and tenant changes stop: a system that is disturbed for ever need
not deliver. Under `calm`, time does not run a lease out under a worker that is not disturbed,
as runtime-config demands a lease longer than the acknowledgment timeout.

- Workers, tasks and processes: weak fairness - tokio polls every ready future, and processes are
  restarted by their orchestrator.
- Fetching a given record: strong fairness - the broker serves waiting records in turn, although
  the record is not deliverable between a fetch and its redelivery.
- `AuthorityExchange` has no `calm`: its markers may be lost for ever except that one that is
  tried again and again is written in the end (strong fairness of `Publish` per authority).
- `WorkerLifecycle`: the supervisor with its grace timer, and the consumers' giving a connection
  back (`Release`), which `handler_timeout` enforces; otherwise tasks owe nothing, and the
  publisher may keep a connection for ever.
- `SchemaDeployment`: weak fairness of each migrator, because every statement ends with a result,
  an error or a session timeout, and of the server's noticing that a client is gone. Runtime
  processes owe nothing.
- `TenantIsolation`, `LocalEnvironment` and `Boundaries` state safety only.

## 6. Proofs

`OutboxPublisherProofs` proves, for every set of workers, messages and lease names and all
bounds that satisfy `OutboxAssumption`:

| Theorem | Property |
|---|---|
| `TypeCorrect` | `TypeOK` |
| `MarkerFollowsAcceptance` | `PublishedImpliesAccepted` |
| `FencesAreUnique` | `FenceNamesOneWorker` |
| `LeasesExclude` | `LiveLeaseIsExclusive` |
| `StaleWorkersAreHarmless` | `StaleFenceChangesNothing` |
| `PublicationIsFinal` | `PublishedIsFinal` |
| `ImplementsTransactionalOutbox` | `ImplementsOutbox` |

Most of these are not inductive alone. `SafetyInv` adds what they rest on: tasks, publications on
the wire and stored messages belong to committed rows (`WorkIsCommitted`); a task in `stored` or
`marking` was told the truth about acceptance (`StoredIsAccepted`); a row never enqueued is blank
and a published one carries no lease (`RowsAreConsistent`). The `...Effect` lemmas say what each statement does to the rows;
`SafetyStep` shows that `SafetyInv` is inductive, one step per action; `RowStep` classifies what
any step may do to a row, from which the three action properties follow. The refinement maps
`committed` to `outbox` and `marked` to the published rows, and needs the same invariant:
without it a marking step could mark what the broker never accepted.

`FencesAreUnique` and `PublicationIsFinal` need no run of their own: the first is what
`LiveLeaseIsExclusive` rests on, the second follows from `ImplementsOutbox`.

`SchemaDeploymentProofs` proves, for every set of migrators, processes, databases and Cells, any
number of migration files and any requests and links that satisfy `DeploymentAssumption`:

| Theorem | Property |
|---|---|
| `DeploymentIsSafe` | the inductive invariant `DeploymentInv` |
| `MigrationsSerialize` | `MigrationsAreSerial` |
| `ReportsAreTrue` | `ReportIsTrue` |
| `OnlyAdmittedSessionsMigrate` | `OnlyTheMigratorChangesASchema` |

`DeploymentInv` adds to the types: a session executing a statement between lock and unlock, also
one whose client is gone, holds the lock of its database (`DdlHoldsTheLock`); sessions past
`verify_pre_ddl` are of the right authority and role (`CheckedBeforeDdl`); history and contract
agree, and a history once complete stays so (`HistoryIsComplete`, the reason why a report joined
from two reads is true); what a process keeps is a lower bound of the contract
(`KeptIsLowerBound`). The one fact about steps that all of this rests on is `AppliedGrows`: the
history only grows, and only up to the number of embedded files.

`InboxConsumerProofs`, for any workers, records, identities, bodies, batch sizes and concurrency,
fenced or not:

| Theorem | Property |
|---|---|
| `InboxTypeCorrect` | `TypeOK` |
| `SafetyInvariant` | the inductive invariant `SafetyInv` |
| `AcknowledgedIsHandled` | `AckedImpliesReceipt` |
| `ExactlyOneEffect` | `OneEffectPerReceipt` |
| `ImplementsIdempotentInbox` | `ImplementsInbox` |

That a second delivery cannot apply its effect is not visible in the receipts alone: between
`RecordInbox` and `Commit` a delivery relies on a row nobody else sees. `KeyIsExclusive` says that
one open transaction holds a receipt key, `InsertedIsFirst` that a transaction which inserted has
no committed predecessor, `DoneIsReceived` that every delivery on its way to an acknowledgment has
a committed receipt.

`ProcessProofs` has two parts. About `WorkerLifecycle`, for any set of tasks: `SupervisorInvariant` and from it
`ReportedOutcomeHolds` (`ReportedOutcomeIsTrue`). The exit status is decided long after the results
it is about, so the invariant follows each task: joined results are of tasks that ended
(`TasksAreAccountedFor`), the supervisor goes on only past clean results (`OnlyOkWasJoined`), and
the result fits the phase (`ResultFollowsPhase`).

About `Boundaries`, for any number of edits and any values of the right type in the place of the
ones that the run tries:

| Theorem | Property |
|---|---|
| `RetryDelaysAreBounded` | `RetryDelayIsBounded` |
| `OnlyDevRunsInPlainText` | `OnlyDevTurnsTlsOff` |
| `AcceptedConfigsRun` | `AcceptedConfigRuns` |
| `IsolationHoldsOnPaths` | `IsolationIsTransitive` |
| `DeliveriesAreHandledAsAddressed` | `HandledAsAddressed` |
| `AcceptedEnvelopesAreCanonical` | `AcceptedEnvelopeIsCanonical` |
| `StoredMessagesAreAccepted` | `StoredMessageIsAccepted` |
| `CommandsCanBeAnswered` | `EveryCommandCanBeAnswered` |

The inductive invariants say what edits leave alone: `RetryInput`, `ConfigInput`, `SourcesInput`
and `MessageInput` keep the shape of what is looked at and the service it is for; `DeliveryInput`
also keeps what addresses a delivery, its subject and its first `Nats-Msg-Id` (`Addressed`). The
work is in the lemmas about the operators.

- *Configuration.* A validator is a list of checks and `FirstError` the first that fails.
  `IsChecks` says that no check of a list reports success as its error, `Pass` that all of them
  hold; `NoError` and `ChecksInARow` compose them, so that each validator gets one lemma
  (`Database`, `Servers`, `Transport`, ...) and each loader another, which together make
  `AcceptedIsSound`. `PoolStarts`, `ConnectionStarts`, `PublisherStarts` and `ConsumerStarts`
  compare the result with what the constructors in the other crates ask for. There is no bound on
  the values of a field.
- *Retries.* The proof splits where the product saturates (`ShiftsGrow`); it holds for every
  `Width` from 20 bits on, the 64 of the code included.
- *Dependency paths.* The packages that may reach a forbidden one form a set that no allowed edge
  enters from outside (`CellSideIsClosed`, `InfrastructureIsClosed`, ...; for domain and
  application code a set that none leaves, `InnerIsClosed`). `NothingReached` and `NeverLeft` carry
  that from edges to paths. `AcceptedGraphsAreIsolated` is about any graph that `validate_graph`
  accepts, not only the listed one with one edge added, and closed sets exclude paths of any
  length, though `BuiltWith` follows nine edges.
- *Addresses.* A delivery is taken only if its subject is the one derived from its envelope, so
  `HandledAsAddressed` needs that subjects are injective: `SameSubjectSameRoute` reads contract
  name, kind, Cell and direction back from the tokens.
- *Round trips.* `StoredMessageIsAccepted` and `AcceptedEnvelopeIsCanonical` go through each field:
  what is written is read back, and what is read is written again, the spellings aside
  (`CanonicalParts`). The lengths go the same way: each identifier grows by at most four bytes
  when it is respelled and an epoch never does (`RespelledSizes`, `CanonicalSize`), which is where
  the 16 bytes of the property come from. The timestamp needs that truncation happens once (`Truncated`). The size of a publication is a sum
  over its headers; sums over sequences of any length would need induction, but headers, names and
  subjects have at most eight parts, and `TotalBounds` adds those up one by one.

`TenantIsolationProofs`, for any tenants, Cells, epochs, calls and connections that satisfy
`IsolationAssumption`:

| Theorem | Property |
|---|---|
| `IsolationInvariant` | the inductive invariant `IsolationInv` |
| `CommittedWorkAuthorized` | `CommittedWorkWasAuthorized` |
| `StatementsAreFenced` | `TouchedOnlyWhileAuthorized` |
| `CanaryWithMessage` | `CanaryAndMessageTogether` |

The row policy reads the settings of a *connection*, the properties speak of a *call*.
`ConnectionsAreExclusive` and `ScopeIsSet` join the two (a session carries the scope of its own
call and nothing from the last user of the connection), `SinceIsHonest` carries authorization over
a change of authority, and `StatusMeaning` shows that `tenant_scope_status` and the policy agree.

`AuthorityExchangeProofs`, for any Cells, tenants, requests and number of messages that satisfy
`ExchangeAssumption`:

| Theorem | Property |
|---|---|
| `ExchangeInvariant` | the inductive invariant `ExchangeInv` |
| `WorkIsHandledWhereAddressed` | `HandledWhereAddressed` |
| `CommandsAreAnsweredOnce` | `AnsweredOnce` |
| `DurablesPartitionRoutes` | `ExactlyOneDurable` |

Inboxes hold identities and the properties speak of messages, so identities must be unique
(`IdentitiesAreUnique`); a redelivered command finds its answer because nothing is caused by a
message that nobody handled (`CausesWereHandled`), and `Answered` names that answer instead of
counting it. `HandledMessage` is the lemma about the code's checks: a message that passes filter,
guard and handler of an authority is tenant work of another authority, and its answer is routable
back.

`TopologyProvisionerProofs`, for any streams, consumers, manifests and number of overlapping runs
that satisfy `TopologyAssumption`:

| Theorem | Property |
|---|---|
| `TopologyInvariant` | the inductive invariant `TopologyInv` |
| `WholeMutationRefused` | `RefusesTheWholeMutation` |
| `NothingDecreases` | `NeverDecreases`, if no drift leaves a bound unlimited |
| `ConvergedIsBindable` | `ConvergedMeansBindable` |

A plan is a list of past observations. `PlansStayTrue` says in which sense it is still true when
it is acted on: other runs write nothing but the desired configuration, so what was acceptable or
in order stays so until drift makes the run stale. Consumers of a missing stream are planned
without being read; that this is safe rests on `ConsumersHaveStreams`. The hypothesis of
`NothingDecreases` is exactly what the run `topology_unlimited` violates.

`LocalEnvironmentProofs`, for any number of slots, manual projects and commands:

| Theorem | Property |
|---|---|
| `LocalInvariant` | the inductive invariant `LocalInv` |
| `NothingLeftBehind` | `DisposableLeavesNothing` |
| `ReadyStaysReady` | `ReadyUntilDown` |
| `EvidenceReplacedOnRequest` | `EvidenceIsKept` |

A command is a list of steps, so the argument is about the order in that list, in a form that
every suffix keeps: what is created is removed or handed over later, nothing is built before it is
created, only cleanup follows cleanup, evidence is published after its guard (`WellOrdered`,
`CleansUp`, `Completes`). `ScriptFacts` shows it of each of the eleven scripts and `UnwindSteps` of
the cleanup after an error; the `Tail...` lemmas keep it while a command advances. `LocalInv` joins
the list to the world: `ScriptsInOrder` (what is armed will be released), `DisposableOnTrack` (what
exists is on the list or reported as not removed, and is armed until cleanup begins, so that an
error finds it), `ReadyIsSpared` (a command on a ready environment neither owns nor removes it),
`UpProgresses` (an up without an error has done, or will do, what completes it), `NamedFirst`
(nothing of a service exists under a manual name before an up was asked for it, so that a `down`
finds orphans only where the name is shared), `EvidenceGuarded` (behind its guard a command without
`--replace` meets evidence only if somebody wrote it meanwhile).
`StepMoves` reduces the twelve steps to one description of what a step may change.

Assumptions. Every assumption is about constants, is evaluated by TLC in the runs, and states
what types or constructors of the code guarantee: `None` and the names of authorities, Cells and
scopes are different things, requests name valid Cells, declared or not, streams and consumers are
different assets and a consumer's stream is a stream, limits and counts are natural numbers. For
`Boundaries`: the edits are values of the right type (`BoundariesAssumption`,
`MessagesAssumption`; a Cell name has at most 63 characters where it is valid, a delay lies in the
range that runtime-config admits, an answer's identity is new, as a UUIDv7 is), the last timestamp
is the last nanosecond before a full microsecond (`MessageCodecAssumption`), and `None` and
`Invalid` belong to no type (`Distinct`). `RuntimeConfigAssumption`, `NameLengths` and `Literals`
add facts about literals and numbers that the provers do not compute: that powers of two grow, how
long the names of services, headers and tokens are. The one hypothesis beyond all that is the
condition of `NothingDecreases`.

Writing the proofs changed the models in few places: where a `CASE` had arms that could hold
together (`Direction`, `Refusal`, `TransportSubject_derive`), the code tests in order, and so do the
operators now; bounds that were literals got the names they have in the code; and recursive
operators became recursive functions.

Only model-checked:

- all liveness (`EventuallyPublished`, `EventuallyAcknowledged`, `MalformedIsRejected`,
  `EventuallyExits`, `EventuallyConverged`, `RoundTrip`, `DeployedMeansUsable`, `LockIsReleased`):
  fairness and `ENABLED` are outside what the prover handles.

## 7. Limits of the properties, and divergences seen

Exceptions that a property states in its own text:

- `EventuallyAcknowledged` exempts streams holding a *fatal* record (a reused identity with
  another body, or unbounded headers): such a record ends the consumer and its whole batch on
  each delivery, so its neighbours need not progress. It also exempts records of a tenant that is
  not served with their epoch.
- `RoundTrip` exempts authorities with an unroutable row, for the same reason on the publisher's
  side, and behaviours that used up their identities.
- `RefusesTheWholeMutation`, `NeverDecreases` and `ConvergedMeansBindable` exempt runs that met
  drift after they began their plan: the code has no revision to compare, so an update may
  overwrite what it never read. That overwrite is a listed hazard without a property.
- `CommittedWorkWasAuthorized` says *during the call*, not *at the commit*: the check takes no
  lock, so an epoch revoked while the call runs does not fence it. For the outbox no policy asks
  again.
- `EvidenceIsKept` exempts evidence that another command wrote while the qualification ran
  (`touched`).
- `EventuallyExits` exempts the hung sibling of a drain that returned early; `ReadyUntilDown`
  exempts the containers of an environment whose name was given to the other service too.
  Without these exemptions TLC finds each of the three properties violated (items 4 and 7 below).
- `ExactlyOneDurable` says one durable for a declared authority and none for an undeclared Cell.
- `AcceptedEnvelopeIsCanonical` allows that an accepted envelope cannot be encoded again, where its
  canonical spelling exceeds the byte limit.
- `AcceptedConfigRuns` exempts `RefusedLater` (below): the hazard is documented by it rather than
  caught.
- `IsolationIsTransitive` is, in the run, about the listed graph with one dependency added; the
  theorem is about every graph that the check accepts.

Places where the code and a sentence of the repository, or two layers of the code, disagree.
The ones marked *run* have a run that shows it; the others were met while modelling and are what
the models do:

1. *run* `inbox_unbounded_headers` - see section 3.
2. *run* `topology_unlimited` - see section 3.
3. `cell-postgres/src/lib.rs:610` validates the tenant before `record_inbox` looks for the
   receipt. A redelivery whose receipt is committed is rejected with a delayed NAK for as long as
   its tenant is disabled or has another epoch. `docs/architecture/runtime-message-delivery.md:74-76`
   draws the redelivery without that condition.
4. `process-lifecycle/src/lib.rs:197` returns at the first task that fails while draining, with
   siblings still running; line 136 says "Cancels the root, waits for every registered task, and
   enforces a finite grace period." `main` then awaits `database.close()` without a timeout
   (`cell-worker/src/main.rs:193`), so that a sibling which waits for its statement for ever keeps
   the process alive; it is aborted only when the supervisor is dropped, after that line.
   `docs/checkpoints/04-nats-jetstream-transport.md:33-34`: "Cancellation, retry, delayed NAK, lease,
   fetch, handler, shutdown, and drain work are bounded."
5. `nats-jetstream/src/lib.rs:629` has no route for a Platform-scoped event, which
   `MessageMetadata::new` and the outbox accept; its row ends the publisher on every claim.
   `docs/architecture/message-contracts.md:25`: "Platform may emit Platform-, Cell-, or
   tenant-scoped messages"; `message-delivery-semantics.md:10-11`: "An outbox row means a committed
   message awaits publication."
6. Fetch limits: `runtime-config` accepts `consumer_fetch_expires_ms` up to 300000,
   `ConsumerSettings::new` up to 5000; `runtime-config` and `fetch` accept batches up to 500, the
   durable grants 200. A worker passes `--check-config` and stops at start, or fails every fetch
   with a transient category and retries without a pause.
7. Local environments: a killed `postgres-up` leaves a directory without a state file;
   `postgres-down` then reports the project as already absent, while `postgres-up` refuses and
   says "run postgres-down first" (`postgres.rs:114-119`). The cleanup removes the directory with
   the credentials even when the containers could not be removed. The two services
   share one name space of Compose projects and every `down` removes orphans (`postgres.rs:202`, `nats.rs:325`): with one name for both, a command on one removes the
   containers and volumes of the other. `xtask/src/main.rs:78` and `:84` speak of a NATS cluster and
   of a persistent PostgreSQL pair only; the default names differ. Guard and write of the evidence
   are minutes apart (`nats-qualification/src/main.rs:387` and `:642`, `postgres.rs:471-480`), so
   that the second of two concurrent qualifications replaces the first one's evidence without
   `--replace`; `docs/runbooks/local-nats.md:43-44`: "Full evidence may be replaced only with
   `--replace`", `message-store-qualification.md:38`: "Without `--replace`, existing evidence is
   preserved."
8. Canonical form: `decode_envelope` accepts other spellings of a UUID and of the assignment
   epoch than `encode` writes, and `validate_headers` accepts a second header whose name differs
   only in case. For the epoch `docs/contracts/message-envelope-v1.schema.json:82` demands a first
   digit that is not zero. `AcceptedEnvelopeIsCanonical` states what is left: the metadata is the same, timestamps are never respelled, and only within 16 bytes of the
   limit can the canonical form be too long. The pattern of the schema has gaps of its own: it
   misses some epochs near the end of `u64`, such as 18446744073700000000, which the code writes.
9. Undeclared Cells: `platform-postgres/src/lib.rs:543-551` checks the source of a message, and
   `nats-jetstream/src/lib.rs:605-622` routes any `CellId`. A message to a Cell without durables is
   published and marked, and stays in the stream until its age limit.

## 8. Not modelled, and the plan

Every safety property that a run checks is proved; liveness stays with TLC. What the plan has
left is new code: the business features behind the application shells, and a run for whatever
flow control they need.

Left out, with the reason:

- `runtime-identity`: fresh identities and entropy; they appear as such in every module.
- `secret-resolution`: a bounded read of one file and five checks in a row, without state.
- `auth-context`, `audit-domain`, `provisioning-domain`: value types that no process uses yet.
- Qualification tools and `test-support`: fixed sequences of calls with assertions and reports;
  their scenarios are behaviours of the modules here, their code is not part of the system.
- Source-text, lock-file and manifest checks of xtask, telemetry, credential and URL parsing:
  text processing without control worth a model.
- Flow control of a durable (`max_ack_pending`): the broker's, and nothing in the code counts
  pending deliveries; the hazard is listed without a property.
