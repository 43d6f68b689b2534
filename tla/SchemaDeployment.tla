-------------------------- MODULE SchemaDeployment --------------------------
(***************************************************************************)
(* How a database gets its schema and how processes come to rely on it:    *)
(* db-migrator runs (cell-migrations and platform-migrations), serialized  *)
(* by an advisory lock, next to runtime processes that verify a database   *)
(* once when they connect and then keep what they saw.                     *)
(* An authority is "platform" or the identifier of a Cell.                 *)
(***************************************************************************)
EXTENDS Integers, FiniteSets

CONSTANTS
  Migrator,    \* db-migrator invocations
  Runtime,     \* runtime processes
  Database,
  Cell,        \* Cell identifiers
  Files,       \* number of embedded migration files, 1 .. Files
  Newest,      \* highest contract a database can have been left at
  Requests,    \* migrations operators may ask for, right and wrong ones
  Links,       \* ways in which operators may start a runtime process
  NoOne

Authority == {"platform"} \cup Cell

\* A credential is a database role with the privileges that the profiles look
\* at: "elevated" stands for any attribute both profiles forbid, "create" for
\* CREATE on the database, "owner" for owning or reaching the schemas.
Credential ==
  [role : {"edtech_cell_migrator", "edtech_platform_migrator", "edtech_cell_api",
           "edtech_cell_worker", "edtech_platform_api", "edtech_platform_worker"},
   may : SUBSET {"elevated", "create", "owner"}]

Apps == {"platform-api", "platform-worker", "cell-api", "cell-worker"}

\* What an invocation is given: the server and database its credential
\* reaches, the authority it is configured for, and its mode of operation.
Request == [db : Database, server : Nat, scope : Authority, cred : Credential,
            mode : {"run", "check-database"}]
Link == [db : Database, server : Nat, scope : Authority, cred : Credential, app : Apps,
         mode : {"run", "check-database", "check-runtime"}]

ASSUME DeploymentAssumption ==
  /\ Files \in Nat \ {0} /\ Newest \in Nat /\ Newest >= Files
  /\ NoOne \notin Migrator
  /\ "platform" \notin Cell
  /\ Requests \subseteq Request /\ Requests # {}
  /\ Links \subseteq Link /\ Links # {}
  /\ \A l \in Links : l.scope \in Cell <=> l.app \in {"cell-api", "cell-worker"}

VARIABLES
  marker,     \* edtech_bootstrap.authority_identity of each database
  applied,    \* rows of the migration history with success
  contract,   \* schema_contract: its version, 0 while the table does not exist
  owner,      \* owner of schema edtech_migrations
  lock,       \* session holding the advisory lock of the database
  pc,         \* where each migrator stands
  request,    \* what each migrator was asked to do
  read,       \* history summary read under the lock
  outcome,    \* what each migrator reported
  at,         \* the statement an abandoned session was executing
  rt,         \* where each runtime process stands
  link,       \* binary, database, authority and credential of each process
  seen,       \* contract version each process keeps from its connection check
  missing     \* processes whose store statement met a schema without the store

dbVars == <<marker, applied, contract, owner>>
migVars == <<pc, request, read, outcome, at>>
rtVars == <<rt, link, seen, missing>>
vars == <<dbVars, lock, migVars, rtVars>>

-----------------------------------------------------------------------------
(* The two migration crates and the two database adapters.                 *)

Kind(a) == IF a = "platform" THEN "platform" ELSE "cell"

\* MIGRATION_ROLE, MIGRATION_FILES and SUPPORTED_CONTRACT_VERSION.
cell_migrations == [role |-> "edtech_cell_migrator", supported |-> Files]
platform_migrations == [role |-> "edtech_platform_migrator", supported |-> Files]

Crate(a) == IF Kind(a) = "cell" THEN cell_migrations ELSE platform_migrations

\* A mutant of verify_migration_role: any role that can create is accepted.
any_creating_role(c, expected) == "create" \in c.may

verify_migration_role(c, expected) ==
  c.role = expected /\ "elevated" \notin c.may /\ "create" \in c.may

verify_runtime_role(c, expected) ==
  c.role = expected /\ c.may = {}

\* PostgreSQL 18.4 or newer within major version 18.
verify_server_version(v) == v >= 180004 /\ v < 190000

RoleOf(app) ==
  CASE app = "cell-api" -> "edtech_cell_api"
    [] app = "cell-worker" -> "edtech_cell_worker"
    [] app = "platform-api" -> "edtech_platform_api"
    [] app = "platform-worker" -> "edtech_platform_worker"

IsWorker(p) == link[p].app \in {"cell-worker", "platform-worker"}

verify_cell_marker(d, a) == marker[d] \in Cell /\ marker[d] = a
verify_platform_marker(d) == marker[d] = "platform"

MarkerMatches(d, a) ==
  IF a = "platform" THEN verify_platform_marker(d) ELSE verify_cell_marker(d, a)

\* verify_pre_ddl: "none" or the kind of the refusal.
verify_pre_ddl(q) ==
  IF ~verify_server_version(q.server) THEN "Provider"
  ELSE IF ~MarkerMatches(q.db, q.scope) THEN "AuthorityMismatch"
  ELSE IF ~verify_migration_role(q.cred, Crate(q.scope).role) THEN "PrivilegeMismatch"
  ELSE "none"

\* verify_ready of the adapters up to the contract.
cell_verify_ready(l) ==
  /\ verify_server_version(l.server)
  /\ verify_cell_marker(l.db, l.scope)
  /\ verify_runtime_role(l.cred, RoleOf(l.app))

platform_verify_ready(l) ==
  /\ verify_server_version(l.server)
  /\ verify_platform_marker(l.db)
  /\ verify_runtime_role(l.cred, RoleOf(l.app))

\* The migration crates accept exactly the contract of their own release.
cell_contract_is_current(d) == contract[d] = cell_migrations.supported
platform_contract_is_current(d) == contract[d] = platform_migrations.supported

migration_verify_contract(q) ==
  IF Kind(q.scope) = "cell" THEN cell_contract_is_current(q.db)
  ELSE platform_contract_is_current(q.db)

\* A mutant of cell_validate_contract: the upper bound was not raised.
cell_validate_contract_1(v) == v = 1

\* MIN_SUPPORTED_CONTRACT_VERSION .. MAX_SUPPORTED_CONTRACT_VERSION.
cell_validate_contract(v) == v \in 1..2
platform_validate_contract(v) == v \in 1..2

validate_contract(a, v) ==
  IF Kind(a) = "cell" THEN cell_validate_contract(v) ELSE platform_validate_contract(v)

\* message_store_available of the check kept by CellDatabase and PlatformDatabase.
message_store_available(v) == v >= 2

-----------------------------------------------------------------------------
Report == [latest : 0..Newest, count : 0..Newest]

\* The categories of CellMigrationErrorKind, and the timeout of main.
Errors == {"Provider", "AuthorityMismatch", "PrivilegeMismatch", "Execution",
           "ContractMismatch", "TimedOut"}

\* The statements of migrate_with_pool between which other sessions run.
Statements == {"preDdl", "lock", "schema", "run", "history", "unlock", "contract"}

TypeOK ==
  /\ marker \in [Database -> Authority]
  /\ applied \in [Database -> 0..Newest]
  /\ contract \in [Database -> 0..Newest]
  /\ owner \in [Database -> {"none", "migrator", "other"}]
  /\ lock \in [Database -> Migrator \cup {NoOne}]
  /\ pc \in [Migrator -> {"idle", "closing", "orphan", "ended"} \cup Statements]
  /\ request \in [Migrator -> Requests]
  /\ read \in [Migrator -> Report]
  /\ outcome \in [Migrator -> {"none", "ok"} \cup Errors]
  /\ at \in [Migrator -> {"none"} \cup Statements]
  /\ rt \in [Runtime -> {"idle", "verify", "contract", "transport", "ready", "exited"}]
  /\ link \in [Runtime -> Links]
  /\ seen \in [Runtime -> 0..Newest]
  /\ missing \subseteq Runtime

\* A database is fresh, or was left at some contract by earlier releases or by
\* a newer one; edtech_migrations may have been created by somebody else.
Init ==
  /\ marker \in [Database -> Authority]
  /\ applied \in [Database -> 0..Newest]
  /\ contract = applied
  /\ owner \in [Database -> {"none", "migrator", "other"}]
  /\ \A d \in Database : applied[d] > 0 <=> owner[d] = "migrator"
  /\ lock = [d \in Database |-> NoOne]
  /\ pc = [m \in Migrator |-> "idle"]
  /\ request \in [Migrator -> Requests]
  /\ read = [m \in Migrator |-> [latest |-> 0, count |-> 0]]
  /\ outcome = [m \in Migrator |-> "none"]
  /\ at = [m \in Migrator |-> "none"]
  /\ rt = [p \in Runtime |-> "idle"]
  /\ link \in [Runtime -> Links]
  /\ seen = [p \in Runtime |-> 0]
  /\ missing = {}

-----------------------------------------------------------------------------
(* db-migrator: one invocation, one database.                              *)

Goto(m, next) == pc' = [pc EXCEPT ![m] = next]

\* An error of migrate_with_pool or check_with_pool: the session, and the
\* advisory lock if it has it, stay until migrate closes the pool.
Refuse(m, kind) ==
  /\ outcome' = [outcome EXCEPT ![m] = kind]
  /\ Goto(m, "closing")

\* main resolves the credential and connects; which database and which role it
\* reaches is up to the credential.
Connect(m) ==
  /\ pc[m] = "idle"
  /\ \/ Goto(m, "preDdl") /\ outcome' = outcome
     \/ Goto(m, "ended") /\ outcome' = [outcome EXCEPT ![m] = "Provider"]
  /\ UNCHANGED <<dbVars, lock, request, read, at, rtVars>>

VerifyPreDdl(m) ==
  LET refusal == verify_pre_ddl(request[m]) IN
  /\ pc[m] = "preDdl"
  /\ IF refusal # "none" THEN Refuse(m, refusal)
     ELSE /\ Goto(m, IF request[m].mode = "check-database" THEN "contract" ELSE "lock")
          /\ outcome' = outcome
  /\ UNCHANGED <<dbVars, lock, request, read, at, rtVars>>

\* A mutant of AdvisoryLock: the lock is not waited for.
AdvisoryTryLock(m) ==
  /\ pc[m] = "lock"
  /\ lock' = [lock EXCEPT ![request[m].db] = m]
  /\ Goto(m, "schema")
  /\ UNCHANGED <<dbVars, request, read, outcome, at, rtVars>>

AdvisoryLock(m) ==
  /\ pc[m] = "lock"
  /\ lock[request[m].db] = NoOne
  /\ lock' = [lock EXCEPT ![request[m].db] = m]
  /\ Goto(m, "schema")
  /\ UNCHANGED <<dbVars, request, read, outcome, at, rtVars>>

\* prepare_migration_schema: CREATE SCHEMA IF NOT EXISTS, REVOKE and the
\* ownership check; a schema of another owner may already fail the REVOKE.
PrepareMigrationSchema(m) ==
  LET d == request[m].db IN
  /\ pc[m] = "schema"
  /\ IF owner[d] = "other"
     THEN /\ \E kind \in {"Execution", "PrivilegeMismatch"} : Refuse(m, kind)
          /\ owner' = owner
     ELSE /\ owner' = [owner EXCEPT ![d] = "migrator"]
          /\ Goto(m, "run")
          /\ outcome' = outcome
  /\ UNCHANGED <<marker, applied, contract, lock, request, read, at, rtVars>>

\* One pending migration and its history row commit together; the last
\* statement of a migration writes the contract of its version.
Migrate(d) ==
  /\ applied' = [applied EXCEPT ![d] = @ + 1]
  /\ contract' = [contract EXCEPT ![d] = applied[d] + 1]

\* migrator.run of sqlx: fails when the history names a version it does not
\* embed, applies the pending files in order, then the trailing REVOKE.
RunMigrations(m) ==
  LET d == request[m].db IN
  /\ pc[m] = "run"
  /\ \/ /\ applied[d] > Files
        /\ Refuse(m, "Execution")
        /\ UNCHANGED <<applied, contract>>
     \/ /\ applied[d] < Files
        /\ Migrate(d)
        /\ UNCHANGED <<pc, outcome>>
     \/ /\ applied[d] = Files
        /\ Goto(m, "history")
        /\ UNCHANGED <<applied, contract, outcome>>
  /\ UNCHANGED <<marker, owner, lock, request, read, at, rtVars>>

ReadHistory(m) ==
  /\ pc[m] = "history"
  /\ read' = [read EXCEPT ![m] = [latest |-> applied[request[m].db],
                                  count |-> applied[request[m].db]]]
  /\ Goto(m, "unlock")
  /\ UNCHANGED <<dbVars, lock, request, outcome, at, rtVars>>

AdvisoryUnlock(m) ==
  /\ pc[m] = "unlock"
  /\ lock' = [lock EXCEPT ![request[m].db] = NoOne]
  /\ Goto(m, "contract")
  /\ UNCHANGED <<dbVars, request, read, outcome, at, rtVars>>

\* A mutant of VerifyContract: whatever contract is found is reported.
ReportAnyContract(m) ==
  /\ pc[m] = "contract"
  /\ Refuse(m, "ok")
  /\ UNCHANGED <<dbVars, lock, request, read, at, rtVars>>

\* verify_contract runs on the pool after the lock was given back.
VerifyContract(m) ==
  /\ pc[m] = "contract"
  /\ Refuse(m, IF migration_verify_contract(request[m]) THEN "ok" ELSE "ContractMismatch")
  /\ UNCHANGED <<dbVars, lock, request, read, at, rtVars>>

\* The category a failing statement is reported under: the marker query
\* answers AuthorityMismatch, the other checks before the DDL are mapped from
\* the provider's category.
StatementError(statement) ==
  CASE statement = "preDdl" -> {"Provider", "AuthorityMismatch"}
    [] statement = "contract" -> {"ContractMismatch"}
    [] OTHER -> {"Execution"}

\* Any statement may fail; pg_advisory_lock also when lock_timeout expires.
StatementFails(m) ==
  /\ pc[m] \in Statements
  /\ \E kind \in StatementError(pc[m]) : Refuse(m, kind)
  /\ UNCHANGED <<dbVars, lock, request, read, at, rtVars>>

Release(m) == lock' = [d \in Database |-> IF lock[d] = m THEN NoOne ELSE lock[d]]

\* A mutant of ClosePool: the pool is left open after an error.
ForgetPool(m) ==
  /\ pc[m] = "closing"
  /\ lock' = lock
  /\ Goto(m, "ended")
  /\ UNCHANGED <<dbVars, request, read, outcome, at, rtVars>>

\* pool.close at the end of migrate and check_database ends the session.
ClosePool(m) ==
  /\ pc[m] = "closing"
  /\ Release(m)
  /\ Goto(m, "ended")
  /\ UNCHANGED <<dbVars, request, read, outcome, at, rtVars>>

\* migration_timeout of main, or the death of the process: the client is gone
\* while the server may still execute the statement that was sent.
MigrationTimeout(m) ==
  /\ pc[m] \in Statements
  /\ outcome' = [outcome EXCEPT ![m] = "TimedOut"]
  /\ at' = [at EXCEPT ![m] = pc[m]]
  /\ Goto(m, "orphan")
  /\ UNCHANGED <<dbVars, lock, request, read, rtVars>>

\* The statement of an abandoned session takes effect after all.
OrphanStatement(m) ==
  LET d == request[m].db IN
  /\ pc[m] = "orphan"
  /\ \/ /\ at[m] = "lock" /\ lock[d] = NoOne
        /\ lock' = [lock EXCEPT ![d] = m]
        /\ UNCHANGED dbVars
     \/ /\ at[m] = "schema" /\ owner[d] = "none"
        /\ owner' = [owner EXCEPT ![d] = "migrator"]
        /\ UNCHANGED <<marker, applied, contract, lock>>
     \/ /\ at[m] = "run" /\ applied[d] < Files
        /\ Migrate(d)
        /\ UNCHANGED <<marker, owner, lock>>
     \/ /\ at[m] = "unlock"
        /\ Release(m)
        /\ UNCHANGED dbVars
  /\ at' = [at EXCEPT ![m] = "none"]
  /\ UNCHANGED <<pc, request, read, outcome, rtVars>>

\* The server notices that the client is gone.
SessionEnds(m) ==
  /\ pc[m] = "orphan"
  /\ Release(m)
  /\ Goto(m, "ended")
  /\ UNCHANGED <<dbVars, request, read, outcome, at, rtVars>>

MigratorStep(m) ==
  \/ VerifyPreDdl(m) \/ AdvisoryLock(m) \/ PrepareMigrationSchema(m)
  \/ RunMigrations(m) \/ ReadHistory(m) \/ AdvisoryUnlock(m)
  \/ VerifyContract(m) \/ StatementFails(m) \/ ClosePool(m)

\* cell_migrations and platform_migrations run the same statements.
cell_migrate(m) == Kind(request[m].scope) = "cell" /\ MigratorStep(m)
platform_migrate(m) == Kind(request[m].scope) = "platform" /\ MigratorStep(m)

-----------------------------------------------------------------------------
(* Runtime processes.                                                      *)

At(p, next) == rt' = [rt EXCEPT ![p] = next]

RuntimeConnect(p) ==
  /\ rt[p] = "idle"
  /\ \E next \in {"verify", "exited"} : At(p, next)
  /\ UNCHANGED <<dbVars, lock, migVars, link, seen, missing>>

\* verify_ready up to the contract: server, marker and role; a refusal closes
\* the pool and ends the process.
VerifyReady(p) ==
  LET l == link[p] IN
  /\ rt[p] = "verify"
  /\ \E ready \in {TRUE, FALSE} :   \* FALSE: a query failed
       At(p, IF /\ ready
                /\ IF l.scope = "platform" THEN platform_verify_ready(l) ELSE cell_verify_ready(l)
             THEN "contract" ELSE "exited")
  /\ UNCHANGED <<dbVars, lock, migVars, link, seen, missing>>

\* verify_contract, a statement of its own: migrations may commit before it
\* and after it. Its result is kept for the life of the process.
KeepContract(p) ==
  LET v == contract[link[p].db] IN
  /\ rt[p] = "contract"
  /\ IF validate_contract(link[p].scope, v)
     THEN /\ seen' = [seen EXCEPT ![p] = v]
          /\ At(p, IF link[p].mode = "check-database" THEN "exited"
                   ELSE IF IsWorker(p) THEN "transport" ELSE "ready")
     ELSE At(p, "exited") /\ seen' = seen
  /\ UNCHANGED <<dbVars, lock, migVars, link, missing>>

\* Workers connect the transport next; they close the database if that fails
\* and after --check-runtime, and exit when their settings are refused.
ConnectTransport(p) ==
  /\ rt[p] = "transport"
  /\ \E next \in {"ready", "exited"} :
       /\ next = "ready" => link[p].mode = "run"
       /\ At(p, next)
  /\ UNCHANGED <<dbVars, lock, migVars, link, seen, missing>>

\* require_worker (not for enqueue_outbound_message) and require_message_store.
RequireMessageStore(p, op) ==
  /\ op = "enqueue" \/ IsWorker(p)
  /\ message_store_available(seen[p])

\* The guards answer from the kept check, then the SQL meets the schema as it
\* is now: without contract 2 its tables are missing.
UseStore(p, op) ==
  /\ rt[p] = "ready"
  /\ RequireMessageStore(p, op)
  /\ missing' = IF contract[link[p].db] < 2 THEN missing \cup {p} ELSE missing
  /\ UNCHANGED <<dbVars, lock, migVars, rt, link, seen>>

\* The shutdown signal, the end of the supervised tasks, database.close.
Shutdown(p) ==
  /\ rt[p] = "ready"
  /\ At(p, "exited")
  /\ UNCHANGED <<dbVars, lock, migVars, link, seen, missing>>

\* The composition roots: the same sequence, without the transport for the APIs.
Serve(p) == VerifyReady(p) \/ KeepContract(p) \/ Shutdown(p)
            \/ \E op \in {"enqueue", "claim"} : UseStore(p, op)
cell_api(p) == link[p].app = "cell-api" /\ Serve(p)
platform_api(p) == link[p].app = "platform-api" /\ Serve(p)
cell_worker(p) == link[p].app = "cell-worker" /\ (Serve(p) \/ ConnectTransport(p))
platform_worker(p) == link[p].app = "platform-worker" /\ (Serve(p) \/ ConnectTransport(p))

-----------------------------------------------------------------------------
Next ==
  \/ \E m \in Migrator :
       \/ Connect(m) \/ cell_migrate(m) \/ platform_migrate(m)
       \/ MigrationTimeout(m) \/ OrphanStatement(m) \/ SessionEnds(m)
  \/ \E p \in Runtime :
       \/ RuntimeConnect(p) \/ cell_api(p) \/ platform_api(p) \/ cell_worker(p) \/ platform_worker(p)

\* Every await of a migrator ends (a result, an error or a session timeout),
\* and the server drops the sessions of clients that are gone.
Fairness ==
  \A m \in Migrator : WF_vars(cell_migrate(m) \/ platform_migrate(m)) /\ WF_vars(SessionEnds(m))

Spec == Init /\ [][Next]_vars /\ Fairness

-----------------------------------------------------------------------------
(* Properties.                                                             *)

InDdl(m) == IF pc[m] = "orphan" THEN at[m] \in {"schema", "run", "history", "unlock"}
            ELSE pc[m] \in {"schema", "run", "history", "unlock"}

\* Two sessions never change the schema of one database at the same time, the
\* sessions of migrators that timed out or died included.
MigrationsAreSerial ==
  \A m, n \in Migrator :
    InDdl(m) /\ InDdl(n) /\ request[m].db = request[n].db => m = n

\* What was once established about a database stays true of it. A run that
\* reports success found, after it gave the lock back, the history it read under
\* the lock and the contract of its release, in a database of the authority it
\* was configured for; and no statement of a process meets a schema without the
\* message store after the process kept that capability from its check.
ReportIsTrue ==
  /\ missing = {}
  /\ \A m \in Migrator :
       LET d == request[m].db IN
       outcome[m] = "ok" =>
         /\ marker[d] = request[m].scope
         /\ contract[d] = Files /\ applied[d] = Files
         /\ request[m].mode = "run" => read[m] = [latest |-> Files, count |-> Files]

\* Only a session that was asked to migrate this authority, under the role of
\* its migrations and holding the lock, ever changes a database.
OnlyTheMigratorChangesASchema ==
  [][\A d \in Database :
       <<applied[d], contract[d], owner[d]>>' # <<applied[d], contract[d], owner[d]>> =>
         \E m \in Migrator :
           /\ lock[d] = m
           /\ request[m].db = d /\ request[m].scope = marker[d]
           /\ request[m].mode = "run"
           /\ request[m].cred.role = Crate(marker[d]).role]_vars

\* Once a migrator has reported success, a process that passes the checks on
\* that database is not refused for its contract and has the message store.
DeployedMeansUsable ==
  [][\A p \in Runtime :
       rt[p] = "contract" /\ rt'[p] # "contract" /\ link[p].mode = "run"
         /\ (\E m \in Migrator : outcome[m] = "ok" /\ request[m].db = link[p].db)
       => rt'[p] # "exited" /\ message_store_available(seen'[p])]_vars

\* Whatever fails, the advisory lock of a database becomes free again.
LockIsReleased ==
  \A d \in Database : lock[d] # NoOne ~> lock[d] = NoOne

=============================================================================
