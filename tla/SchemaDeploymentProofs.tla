---------------------- MODULE SchemaDeploymentProofs ----------------------
(***************************************************************************)
(* The safety of schema deployment for every number of migrators, runtime  *)
(* processes, databases, Cells and migration files, and for every request  *)
(* and link an operator may come up with.                                  *)
(***************************************************************************)
EXTENDS SchemaDeployment, TLAPS

\* The statements between lock and unlock.
Guarded == {"schema", "run", "history", "unlock"}

\* The statement a session executes, the one its dead client sent included.
Doing(m) == IF pc[m] = "orphan" THEN at[m] ELSE pc[m]

\* A session inside the DDL holds the lock of its database.
DdlHoldsTheLock == \A m \in Migrator : Doing(m) \in Guarded => lock[request[m].db] = m

\* What verify_pre_ddl established for the sessions that passed it.
Admitted(m) ==
  /\ marker[request[m].db] = request[m].scope
  /\ request[m].cred.role = Crate(request[m].scope).role

CheckedBeforeDdl ==
  \A m \in Migrator :
    /\ Doing(m) \in Guarded \cup {"lock"} => Admitted(m) /\ request[m].mode = "run"
    /\ Doing(m) = "contract" => Admitted(m)
    /\ outcome[m] = "ok" => Admitted(m)

\* History and contract agree, and no step moves them past what a session has
\* seen: a complete history stays complete.
HistoryIsComplete ==
  /\ contract = applied
  /\ \A m \in Migrator :
       LET d == request[m].db
           complete == read[m] = [latest |-> Files, count |-> Files] IN
       /\ pc[m] \in {"history", "unlock"} => applied[d] = Files
       /\ pc[m] = "unlock" => complete
       /\ pc[m] = "contract" /\ request[m].mode = "run" => complete
       /\ outcome[m] = "ok" =>
            applied[d] = Files /\ (request[m].mode = "run" => complete)

\* What a process keeps is a lower bound of the contract.
KeptIsLowerBound ==
  /\ missing = {}
  /\ \A p \in Runtime : seen[p] <= contract[link[p].db]

DeploymentInv ==
  TypeOK /\ DdlHoldsTheLock /\ CheckedBeforeDdl /\ HistoryIsComplete /\ KeptIsLowerBound

-----------------------------------------------------------------------------
(* Requests, links and frames.                                             *)

\* A request that a migrator works on is well formed and names a database.
LEMMA RequestType ==
  ASSUME TypeOK, NEW m \in Migrator
  PROVE  /\ request[m] \in Request
         /\ request[m].db \in Database /\ request[m].scope \in Authority
  BY DeploymentAssumption DEF TypeOK, Request

\* A runtime process is linked to a database.
LEMMA LinkType ==
  ASSUME TypeOK, NEW p \in Runtime
  PROVE  link[p].db \in Database
  BY DeploymentAssumption DEF TypeOK, Link

\* A step of a runtime process.
RuntimeStep(p) ==
  \/ RuntimeConnect(p) \/ VerifyReady(p) \/ KeepContract(p) \/ ConnectTransport(p)
  \/ Shutdown(p) \/ \E op \in {"enqueue", "claim"} : UseStore(p, op)

\* Next is a step of a migrator or of a runtime process.
LEMMA NextIsMigratorOrRuntime ==
  ASSUME Next
  PROVE  \/ \E m \in Migrator : MigratorStep(m) \/ Connect(m) \/ MigrationTimeout(m)
                                  \/ OrphanStatement(m) \/ SessionEnds(m)
         \/ \E p \in Runtime : RuntimeStep(p)
  BY DEF Next, cell_migrate, platform_migrate, RuntimeStep, Serve, cell_api, platform_api,
         cell_worker, platform_worker

\* A runtime process changes no database and no migrator.
LEMMA RuntimeFrame ==
  ASSUME NEW p \in Runtime, RuntimeStep(p)
  PROVE  UNCHANGED <<dbVars, lock, migVars, link>>
  BY DEF RuntimeStep, RuntimeConnect, VerifyReady, KeepContract, ConnectTransport, Shutdown,
         UseStore, dbVars, migVars

\* A migrator changes no runtime process, no marker and no request.
LEMMA MigratorFrame ==
  ASSUME NEW m \in Migrator,
         MigratorStep(m) \/ Connect(m) \/ MigrationTimeout(m) \/ OrphanStatement(m) \/ SessionEnds(m)
  PROVE  UNCHANGED <<rtVars, marker, request>>
  BY
     DEF MigratorStep, VerifyPreDdl, AdvisoryLock, PrepareMigrationSchema, RunMigrations,
         ReadHistory, AdvisoryUnlock, VerifyContract, StatementFails, ClosePool, Connect,
         MigrationTimeout, OrphanStatement, SessionEnds,
         dbVars, migVars, rtVars, Refuse, Goto, Release, Migrate

-----------------------------------------------------------------------------
(* Types.                                                                  *)

\* One more migration file keeps history and contract in their range.
LEMMA MigrateType ==
  ASSUME TypeOK, NEW d \in Database, applied[d] < Files, Migrate(d)
  PROVE  applied' \in [Database -> 0..Newest] /\ contract' \in [Database -> 0..Newest]
<1>1. applied[d] + 1 \in 0..Newest
  BY DeploymentAssumption DEF TypeOK
<1> QED
  BY <1>1 DEF TypeOK, Migrate

\* Refuse leaves the migrator's variables typed.
LEMMA RefuseType ==
  ASSUME TypeOK, NEW m \in Migrator, NEW kind \in {"ok"} \cup Errors, Refuse(m, kind)
  PROVE  /\ pc' \in [Migrator -> {"idle", "closing", "orphan", "ended"} \cup Statements]
         /\ outcome' \in [Migrator -> {"none", "ok"} \cup Errors]
  BY DEF TypeOK, Refuse, Goto

\* No step takes a well-typed state to an ill-typed one.
LEMMA TypeStep ==
  ASSUME TypeOK, [Next]_vars
  PROVE  TypeOK'
<1> USE DEF dbVars, migVars, rtVars
<1>1. ASSUME NEW m \in Migrator, VerifyPreDdl(m) PROVE TypeOK'
  <2>1. verify_pre_ddl(request[m]) \in {"none"} \cup Errors
    BY DEF verify_pre_ddl, Errors
  <2> QED
    BY <1>1, <2>1 DEF TypeOK, Statements, VerifyPreDdl, Refuse, Goto
<1>2. ASSUME NEW m \in Migrator, AdvisoryLock(m) PROVE TypeOK'
  BY <1>2, RequestType, DeploymentAssumption
     DEF TypeOK, Statements, Errors, Report, AdvisoryLock, Goto
<1>3. ASSUME NEW m \in Migrator, PrepareMigrationSchema(m) PROVE TypeOK'
  <2>1. owner' \in [Database -> {"none", "migrator", "other"}]
    BY <1>3, RequestType DEF TypeOK, PrepareMigrationSchema
  <2>2. CASE owner[request[m].db] = "other"
    BY <1>3, <2>1, <2>2, RefuseType DEF TypeOK, PrepareMigrationSchema, Errors
  <2>3. CASE owner[request[m].db] # "other"
    BY <1>3, <2>1, <2>3 DEF TypeOK, PrepareMigrationSchema, Goto, Statements
  <2> QED
    BY <2>2, <2>3
<1>4. ASSUME NEW m \in Migrator, RunMigrations(m) PROVE TypeOK'
  <2>1. CASE Refuse(m, "Execution") /\ UNCHANGED <<applied, contract>>
    BY <1>4, <2>1, RefuseType DEF TypeOK, RunMigrations, Errors
  <2>2. CASE applied[request[m].db] < Files /\ Migrate(request[m].db) /\ UNCHANGED <<pc, outcome>>
    BY <1>4, <2>2, MigrateType, RequestType DEF TypeOK, RunMigrations
  <2>3. CASE Goto(m, "history") /\ UNCHANGED <<applied, contract, outcome>>
    BY <1>4, <2>3 DEF TypeOK, RunMigrations, Goto, Statements
  <2> QED
    BY <1>4, <2>1, <2>2, <2>3 DEF RunMigrations
<1>5. ASSUME NEW m \in Migrator, ReadHistory(m) PROVE TypeOK'
  BY <1>5, RequestType, DeploymentAssumption
     DEF TypeOK, Statements, Errors, Report, ReadHistory, Goto
<1>6. ASSUME NEW m \in Migrator, AdvisoryUnlock(m) PROVE TypeOK'
  BY <1>6, RequestType, DeploymentAssumption
     DEF TypeOK, Statements, Errors, Report, AdvisoryUnlock, Goto
<1>7. ASSUME NEW m \in Migrator, VerifyContract(m) PROVE TypeOK'
  BY <1>7, RequestType, DeploymentAssumption
     DEF TypeOK, Statements, Errors, Report, VerifyContract, Refuse, Goto
<1>8. ASSUME NEW m \in Migrator, StatementFails(m) PROVE TypeOK'
  <2>1. PICK kind \in StatementError(pc[m]) : Refuse(m, kind)
    BY <1>8 DEF StatementFails
  <2>2. kind \in Errors
    BY <2>1 DEF StatementError, Errors
  <2> QED
    BY <1>8, <2>1, <2>2 DEF TypeOK, Errors, StatementFails, Refuse, Goto
<1>9. ASSUME NEW m \in Migrator, ClosePool(m) PROVE TypeOK'
  BY <1>9, RequestType, DeploymentAssumption
     DEF TypeOK, Statements, Errors, Report, ClosePool, Goto, Release
<1>10. ASSUME NEW m \in Migrator, Connect(m) PROVE TypeOK'
  BY <1>10, RequestType, DeploymentAssumption DEF TypeOK, Statements, Errors, Report, Connect, Goto
<1>11. ASSUME NEW m \in Migrator, MigrationTimeout(m) PROVE TypeOK'
  BY <1>11, RequestType, DeploymentAssumption
     DEF TypeOK, Statements, Errors, Report, MigrationTimeout, Goto
<1>12. ASSUME NEW m \in Migrator, OrphanStatement(m) PROVE TypeOK'
  <2>1. /\ at' \in [Migrator -> {"none"} \cup Statements]
        /\ UNCHANGED <<pc, request, read, outcome, rtVars>>
    BY <1>12 DEF TypeOK, OrphanStatement
  <2>2. CASE lock' = [lock EXCEPT ![request[m].db] = m] /\ UNCHANGED dbVars
    BY <2>1, <2>2 DEF TypeOK
  <2>3. CASE owner' = [owner EXCEPT ![request[m].db] = "migrator"]
               /\ UNCHANGED <<marker, applied, contract, lock>>
    BY <2>1, <2>3 DEF TypeOK
  <2>4. CASE applied[request[m].db] < Files /\ Migrate(request[m].db)
               /\ UNCHANGED <<marker, owner, lock>>
    BY <2>1, <2>4, MigrateType, RequestType DEF TypeOK
  <2>5. CASE Release(m) /\ UNCHANGED dbVars
    BY <2>1, <2>5 DEF TypeOK, Release
  <2> QED
    BY <1>12, <2>2, <2>3, <2>4, <2>5 DEF OrphanStatement
<1>13. ASSUME NEW m \in Migrator, SessionEnds(m) PROVE TypeOK'
  BY <1>13, RequestType, DeploymentAssumption
     DEF TypeOK, Statements, Errors, Report, SessionEnds, Goto, Release
<1>14. ASSUME NEW p \in Runtime, RuntimeStep(p) PROVE TypeOK'
  BY <1>14, LinkType DEF TypeOK, RuntimeStep, RuntimeConnect, VerifyReady, KeepContract,
     ConnectTransport, Shutdown, UseStore, At
<1>15. CASE UNCHANGED vars
  BY <1>15 DEF TypeOK, vars
<1> QED
  BY <1>1, <1>2, <1>3, <1>4, <1>5, <1>6, <1>7, <1>8, <1>9, <1>10, <1>11, <1>12, <1>13, <1>14,
     <1>15, NextIsMigratorOrRuntime
     DEF MigratorStep

-----------------------------------------------------------------------------
(* The advisory lock.                                                      *)

\* Every step keeps the sessions inside the DDL in possession of their lock.
LEMMA LockStep ==
  ASSUME TypeOK, DdlHoldsTheLock, [Next]_vars
  PROVE  DdlHoldsTheLock'
<1> USE DEF dbVars, migVars, Guarded, Doing
<1>1. ASSUME NEW m \in Migrator, VerifyPreDdl(m) PROVE DdlHoldsTheLock'
  BY <1>1, RequestType, DeploymentAssumption
     DEF TypeOK, Statements, DdlHoldsTheLock, VerifyPreDdl, Refuse, Goto
<1>2. ASSUME NEW m \in Migrator, AdvisoryLock(m) PROVE DdlHoldsTheLock'
  BY <1>2, RequestType, DeploymentAssumption
     DEF TypeOK, Statements, DdlHoldsTheLock, AdvisoryLock, Goto
<1>3. ASSUME NEW m \in Migrator, PrepareMigrationSchema(m) PROVE DdlHoldsTheLock'
  BY <1>3, RequestType, DeploymentAssumption
     DEF TypeOK, Statements, DdlHoldsTheLock, PrepareMigrationSchema, Refuse, Goto
<1>4. ASSUME NEW m \in Migrator, RunMigrations(m) PROVE DdlHoldsTheLock'
  BY <1>4, RequestType, DeploymentAssumption
     DEF TypeOK, Statements, DdlHoldsTheLock, RunMigrations, Refuse, Goto, Migrate
<1>5. ASSUME NEW m \in Migrator, ReadHistory(m) PROVE DdlHoldsTheLock'
  BY <1>5, RequestType, DeploymentAssumption
     DEF TypeOK, Statements, DdlHoldsTheLock, ReadHistory, Goto
<1>6. ASSUME NEW m \in Migrator, AdvisoryUnlock(m) PROVE DdlHoldsTheLock'
  BY <1>6, RequestType, DeploymentAssumption
     DEF TypeOK, Statements, DdlHoldsTheLock, AdvisoryUnlock, Goto
<1>7. ASSUME NEW m \in Migrator, VerifyContract(m) PROVE DdlHoldsTheLock'
  BY <1>7, RequestType, DeploymentAssumption
     DEF TypeOK, Statements, DdlHoldsTheLock, VerifyContract, Refuse, Goto
<1>8. ASSUME NEW m \in Migrator, StatementFails(m) PROVE DdlHoldsTheLock'
  BY <1>8, RequestType, DeploymentAssumption
     DEF TypeOK, Statements, DdlHoldsTheLock, StatementFails, Refuse, Goto
<1>9. ASSUME NEW m \in Migrator, ClosePool(m) PROVE DdlHoldsTheLock'
  BY <1>9, RequestType, DeploymentAssumption
     DEF TypeOK, Statements, DdlHoldsTheLock, ClosePool, Goto, Release
<1>10. ASSUME NEW m \in Migrator, Connect(m) PROVE DdlHoldsTheLock'
  BY <1>10, RequestType, DeploymentAssumption DEF TypeOK, Statements, DdlHoldsTheLock, Connect, Goto
<1>11. ASSUME NEW m \in Migrator, MigrationTimeout(m) PROVE DdlHoldsTheLock'
  BY <1>11, RequestType, DeploymentAssumption
     DEF TypeOK, Statements, DdlHoldsTheLock, MigrationTimeout, Goto
<1>12. ASSUME NEW m \in Migrator, OrphanStatement(m) PROVE DdlHoldsTheLock'
  BY <1>12, RequestType, DeploymentAssumption
     DEF TypeOK, Statements, DdlHoldsTheLock, OrphanStatement, Migrate, Release
<1>13. ASSUME NEW m \in Migrator, SessionEnds(m) PROVE DdlHoldsTheLock'
  BY <1>13, RequestType, DeploymentAssumption
     DEF TypeOK, Statements, DdlHoldsTheLock, SessionEnds, Goto, Release
<1>14. ASSUME NEW p \in Runtime, RuntimeStep(p) PROVE DdlHoldsTheLock'
  BY <1>14, RuntimeFrame DEF DdlHoldsTheLock
<1>15. CASE UNCHANGED vars
  BY <1>15 DEF DdlHoldsTheLock, vars
<1> QED
  BY <1>1, <1>2, <1>3, <1>4, <1>5, <1>6, <1>7, <1>8, <1>9, <1>10, <1>11, <1>12, <1>13, <1>14,
     <1>15, NextIsMigratorOrRuntime
     DEF MigratorStep

-----------------------------------------------------------------------------
(* The checks before the DDL.                                              *)

\* What verify_pre_ddl accepts is the right authority under the right role.
LEMMA PreDdlAdmits ==
  ASSUME TypeOK, NEW m \in Migrator, verify_pre_ddl(request[m]) = "none"
  PROVE  Admitted(m)
  BY RequestType, DeploymentAssumption
     DEF verify_pre_ddl, MarkerMatches, verify_cell_marker, verify_platform_marker,
         verify_migration_role, Admitted

\* Admission depends on markers and requests alone, which no step changes.
LEMMA AdmittedFrame ==
  ASSUME UNCHANGED <<marker, request>>, NEW m
  PROVE  Admitted(m)' <=> Admitted(m)
  BY DEF Admitted, Crate, Kind, cell_migrations, platform_migrations

\* No step reaches the DDL, or a success report, around verify_pre_ddl.
LEMMA CheckedStep ==
  ASSUME TypeOK, CheckedBeforeDdl, [Next]_vars
  PROVE  CheckedBeforeDdl'
<1> USE DEF dbVars, migVars, Guarded, Doing
<1>1. ASSUME NEW m \in Migrator, VerifyPreDdl(m) PROVE CheckedBeforeDdl'
  <2>1. verify_pre_ddl(request[m]) # "ok"
    BY DEF verify_pre_ddl
  <2>2. request[m].mode \in {"run", "check-database"}
    BY RequestType DEF Request
  <2> QED
    BY <1>1, <2>1, <2>2, PreDdlAdmits, AdmittedFrame
       DEF TypeOK, CheckedBeforeDdl, VerifyPreDdl, Refuse, Goto
<1>2. ASSUME NEW m \in Migrator, AdvisoryLock(m) PROVE CheckedBeforeDdl'
  BY <1>2, RequestType, AdmittedFrame
     DEF TypeOK, Statements, Errors, CheckedBeforeDdl, AdvisoryLock, Goto
<1>3. ASSUME NEW m \in Migrator, PrepareMigrationSchema(m) PROVE CheckedBeforeDdl'
  BY <1>3, RequestType, AdmittedFrame
     DEF TypeOK, Statements, Errors, CheckedBeforeDdl, PrepareMigrationSchema, Refuse, Goto
<1>4. ASSUME NEW m \in Migrator, RunMigrations(m) PROVE CheckedBeforeDdl'
  BY <1>4, RequestType, AdmittedFrame
     DEF TypeOK, Statements, Errors, CheckedBeforeDdl, RunMigrations, Refuse, Goto, Migrate
<1>5. ASSUME NEW m \in Migrator, ReadHistory(m) PROVE CheckedBeforeDdl'
  BY <1>5, RequestType, AdmittedFrame
     DEF TypeOK, Statements, Errors, CheckedBeforeDdl, ReadHistory, Goto
<1>6. ASSUME NEW m \in Migrator, AdvisoryUnlock(m) PROVE CheckedBeforeDdl'
  BY <1>6, RequestType, AdmittedFrame
     DEF TypeOK, Statements, Errors, CheckedBeforeDdl, AdvisoryUnlock, Goto
<1>7. ASSUME NEW m \in Migrator, VerifyContract(m) PROVE CheckedBeforeDdl'
  BY <1>7, RequestType, AdmittedFrame
     DEF TypeOK, Statements, Errors, CheckedBeforeDdl, VerifyContract, Refuse, Goto
<1>8. ASSUME NEW m \in Migrator, StatementFails(m) PROVE CheckedBeforeDdl'
  <2>1. PICK kind \in StatementError(pc[m]) : Refuse(m, kind)
    BY <1>8 DEF StatementFails
  <2>2. kind # "ok"
    BY <2>1 DEF StatementError
  <2> QED
    BY <1>8, <2>1, <2>2, AdmittedFrame DEF TypeOK, CheckedBeforeDdl, StatementFails, Refuse, Goto
<1>9. ASSUME NEW m \in Migrator, ClosePool(m) PROVE CheckedBeforeDdl'
  BY <1>9, RequestType, AdmittedFrame
     DEF TypeOK, Statements, Errors, CheckedBeforeDdl, ClosePool, Goto, Release
<1>10. ASSUME NEW m \in Migrator, Connect(m) PROVE CheckedBeforeDdl'
  BY <1>10, RequestType, AdmittedFrame
     DEF TypeOK, Statements, Errors, CheckedBeforeDdl, Connect, Goto
<1>11. ASSUME NEW m \in Migrator, MigrationTimeout(m) PROVE CheckedBeforeDdl'
  BY <1>11, RequestType, AdmittedFrame
     DEF TypeOK, Statements, Errors, CheckedBeforeDdl, MigrationTimeout, Goto
<1>12. ASSUME NEW m \in Migrator, OrphanStatement(m) PROVE CheckedBeforeDdl'
  BY <1>12, RequestType, AdmittedFrame
     DEF TypeOK, Statements, Errors, CheckedBeforeDdl, OrphanStatement, Migrate, Release
<1>13. ASSUME NEW m \in Migrator, SessionEnds(m) PROVE CheckedBeforeDdl'
  BY <1>13, RequestType, AdmittedFrame
     DEF TypeOK, Statements, Errors, CheckedBeforeDdl, SessionEnds, Goto, Release
<1>14. ASSUME NEW p \in Runtime, RuntimeStep(p) PROVE CheckedBeforeDdl'
  BY <1>14, RuntimeFrame, AdmittedFrame DEF CheckedBeforeDdl
<1>15. CASE UNCHANGED vars
  BY <1>15, AdmittedFrame DEF CheckedBeforeDdl, vars
<1> QED
  BY <1>1, <1>2, <1>3, <1>4, <1>5, <1>6, <1>7, <1>8, <1>9, <1>10, <1>11, <1>12, <1>13, <1>14,
     <1>15, NextIsMigratorOrRuntime
     DEF MigratorStep

-----------------------------------------------------------------------------
(* History and contract.                                                   *)

\* applied only grows, up to Files, and contract goes along.
LEMMA AppliedGrows ==
  ASSUME TypeOK, HistoryIsComplete, [Next]_vars, NEW d \in Database
  PROVE  /\ contract' = applied'
         /\ applied'[d] >= applied[d]
         /\ applied[d] = Files => applied'[d] = Files
         /\ applied'[d] # applied[d] => applied[d] < Files
<1> USE DEF dbVars, migVars, rtVars
<1>1. contract = applied /\ applied \in [Database -> 0..Newest]
  BY DEF HistoryIsComplete, TypeOK
<1>2. ASSUME NEW m \in Migrator, RunMigrations(m) \/ OrphanStatement(m)
      PROVE  \/ UNCHANGED <<applied, contract>>
             \/ applied[request[m].db] < Files /\ Migrate(request[m].db)
  BY <1>2 DEF RunMigrations, OrphanStatement
<1>3. \/ UNCHANGED <<applied, contract>>
      \/ \E m \in Migrator : applied[request[m].db] < Files /\ Migrate(request[m].db)
  <2>1. CASE UNCHANGED vars
    BY <2>1 DEF vars
  <2>2. ASSUME NEW p \in Runtime, RuntimeStep(p) PROVE UNCHANGED <<applied, contract>>
    BY <2>2, RuntimeFrame
  <2>3. ASSUME NEW m \in Migrator,
               VerifyPreDdl(m) \/ AdvisoryLock(m) \/ PrepareMigrationSchema(m) \/ ReadHistory(m)
                 \/ AdvisoryUnlock(m) \/ VerifyContract(m) \/ StatementFails(m) \/ ClosePool(m)
                 \/ Connect(m) \/ MigrationTimeout(m) \/ SessionEnds(m)
        PROVE  UNCHANGED <<applied, contract>>
    BY <2>3 DEF VerifyPreDdl, AdvisoryLock, PrepareMigrationSchema, ReadHistory, AdvisoryUnlock,
                VerifyContract, StatementFails, ClosePool, Connect, MigrationTimeout, SessionEnds
  <2> QED
    BY <2>1, <2>2, <2>3, <1>2, NextIsMigratorOrRuntime DEF MigratorStep
<1>4. CASE UNCHANGED <<applied, contract>>
  BY <1>1, <1>4, DeploymentAssumption
<1>5. ASSUME NEW m \in Migrator, applied[request[m].db] < Files, Migrate(request[m].db)
      PROVE  /\ contract' = applied'
             /\ applied'[d] >= applied[d]
             /\ applied[d] = Files => applied'[d] = Files
             /\ applied'[d] # applied[d] => applied[d] < Files
  BY <1>1, <1>5, RequestType, DeploymentAssumption DEF Migrate
<1> QED
  BY <1>3, <1>4, <1>5

\* A complete history stays complete, also behind a session that read it.
LEMMA HistoryStep ==
  ASSUME TypeOK, HistoryIsComplete, [Next]_vars
  PROVE  HistoryIsComplete'
<1> USE DEF dbVars, migVars
<1>1. ASSUME NEW m \in Migrator, VerifyPreDdl(m) PROVE HistoryIsComplete'
  <2>1. verify_pre_ddl(request[m]) # "ok"
    BY DEF verify_pre_ddl
  <2> QED
    BY <1>1, <2>1 DEF TypeOK, HistoryIsComplete, VerifyPreDdl, Refuse, Goto
<1>2. ASSUME NEW m \in Migrator, AdvisoryLock(m) PROVE HistoryIsComplete'
  BY <1>2, AppliedGrows, RequestType, DeploymentAssumption
     DEF TypeOK, Statements, HistoryIsComplete, AdvisoryLock, Goto
<1>3. ASSUME NEW m \in Migrator, PrepareMigrationSchema(m) PROVE HistoryIsComplete'
  BY <1>3, AppliedGrows, RequestType, DeploymentAssumption
     DEF TypeOK, Statements, HistoryIsComplete, PrepareMigrationSchema, Refuse, Goto
<1>4. ASSUME NEW m \in Migrator, RunMigrations(m) PROVE HistoryIsComplete'
  BY <1>4, AppliedGrows, RequestType, DeploymentAssumption
     DEF TypeOK, Statements, HistoryIsComplete, RunMigrations, Refuse, Goto, Migrate
<1>5. ASSUME NEW m \in Migrator, ReadHistory(m) PROVE HistoryIsComplete'
  BY <1>5, AppliedGrows, RequestType, DeploymentAssumption
     DEF TypeOK, Statements, HistoryIsComplete, ReadHistory, Goto
<1>6. ASSUME NEW m \in Migrator, AdvisoryUnlock(m) PROVE HistoryIsComplete'
  BY <1>6, AppliedGrows, RequestType, DeploymentAssumption
     DEF TypeOK, Statements, HistoryIsComplete, AdvisoryUnlock, Goto
<1>7. ASSUME NEW m \in Migrator, VerifyContract(m) PROVE HistoryIsComplete'
  <2>1. migration_verify_contract(request[m]) <=> contract[request[m].db] = Files
    BY DEF migration_verify_contract, cell_contract_is_current, platform_contract_is_current,
           cell_migrations, platform_migrations
  <2> QED
    BY <1>7, <2>1 DEF TypeOK, HistoryIsComplete, VerifyContract, Refuse, Goto
<1>8. ASSUME NEW m \in Migrator, StatementFails(m) PROVE HistoryIsComplete'
  <2>1. PICK kind \in StatementError(pc[m]) : Refuse(m, kind)
    BY <1>8 DEF StatementFails
  <2>2. kind # "ok"
    BY <2>1 DEF StatementError
  <2> QED
    BY <1>8, <2>1, <2>2 DEF TypeOK, HistoryIsComplete, StatementFails, Refuse, Goto
<1>9. ASSUME NEW m \in Migrator, ClosePool(m) PROVE HistoryIsComplete'
  BY <1>9, AppliedGrows, RequestType, DeploymentAssumption
     DEF TypeOK, Statements, HistoryIsComplete, ClosePool, Goto, Release
<1>10. ASSUME NEW m \in Migrator, Connect(m) PROVE HistoryIsComplete'
  BY <1>10, AppliedGrows, RequestType, DeploymentAssumption
     DEF TypeOK, Statements, HistoryIsComplete, Connect, Goto
<1>11. ASSUME NEW m \in Migrator, MigrationTimeout(m) PROVE HistoryIsComplete'
  BY <1>11, AppliedGrows, RequestType, DeploymentAssumption
     DEF TypeOK, Statements, HistoryIsComplete, MigrationTimeout, Goto
<1>12. ASSUME NEW m \in Migrator, OrphanStatement(m) PROVE HistoryIsComplete'
  BY <1>12, AppliedGrows, RequestType, DeploymentAssumption
     DEF TypeOK, Statements, HistoryIsComplete, OrphanStatement, Migrate, Release
<1>13. ASSUME NEW m \in Migrator, SessionEnds(m) PROVE HistoryIsComplete'
  BY <1>13, AppliedGrows, RequestType, DeploymentAssumption
     DEF TypeOK, Statements, HistoryIsComplete, SessionEnds, Goto, Release
<1>14. ASSUME NEW p \in Runtime, RuntimeStep(p) PROVE HistoryIsComplete'
  BY <1>14, RuntimeFrame DEF HistoryIsComplete
<1>15. CASE UNCHANGED vars
  BY <1>15 DEF HistoryIsComplete, vars
<1> QED
  BY <1>1, <1>2, <1>3, <1>4, <1>5, <1>6, <1>7, <1>8, <1>9, <1>10, <1>11, <1>12, <1>13, <1>14,
     <1>15, NextIsMigratorOrRuntime
     DEF MigratorStep

\* What a process keeps stays below the contract of its database.
LEMMA KeptStep ==
  ASSUME TypeOK, HistoryIsComplete, KeptIsLowerBound, [Next]_vars
  PROVE  KeptIsLowerBound'
<1>1. \A d \in Database : contract'[d] >= contract[d]
  BY AppliedGrows DEF HistoryIsComplete
<1>2. \A p \in Runtime : seen[p] \in Nat /\ contract[link[p].db] \in Nat
  BY LinkType DEF TypeOK
<1>3. \A p \in Runtime : contract'[link[p].db] \in Nat
  BY LinkType, TypeStep DEF TypeOK
<1>4. ASSUME UNCHANGED rtVars PROVE KeptIsLowerBound'
  BY <1>1, <1>2, <1>3, <1>4, LinkType DEF KeptIsLowerBound, rtVars
<1>5. ASSUME NEW p \in Runtime, RuntimeStep(p) PROVE KeptIsLowerBound'
  <2>1. UNCHANGED <<contract, link>>
    BY <1>5, RuntimeFrame DEF dbVars
  <2>2. \A q \in Runtime : seen'[q] \in {seen[q], contract[link[q].db]}
    BY <1>5 DEF RuntimeStep, RuntimeConnect, VerifyReady, KeepContract, ConnectTransport, Shutdown,
                UseStore, TypeOK
  <2>3. missing' = {}
    BY <1>2, <1>5 DEF RuntimeStep, RuntimeConnect, VerifyReady, KeepContract, ConnectTransport,
         Shutdown, UseStore, RequireMessageStore, message_store_available, KeptIsLowerBound
  <2> QED
    BY <1>2, <2>1, <2>2, <2>3 DEF KeptIsLowerBound
<1> QED
  BY <1>4, <1>5, NextIsMigratorOrRuntime, MigratorFrame DEF vars

-----------------------------------------------------------------------------
(* The theorems.                                                           *)

\* The invariant holds before anyone starts.
LEMMA DeploymentInit ==
  ASSUME Init
  PROVE  DeploymentInv
<1>1. TypeOK
  <2>1. 0 \in 0..Newest
    BY DeploymentAssumption
  <2>2. [latest |-> 0, count |-> 0] \in Report
    BY <2>1 DEF Report
  <2> QED
    BY <2>1, <2>2 DEF Init, TypeOK
<1>2. DdlHoldsTheLock /\ CheckedBeforeDdl
  BY DEF Init, DdlHoldsTheLock, CheckedBeforeDdl, Guarded, Doing
<1>3. HistoryIsComplete
  BY DEF Init, HistoryIsComplete
<1>4. KeptIsLowerBound
  BY <1>1, LinkType DEF Init, KeptIsLowerBound, TypeOK
<1> QED
  BY <1>1, <1>2, <1>3, <1>4 DEF DeploymentInv

\* Types, lock, admission, history and kept contracts together are inductive
\* over every statement, failure, timeout and orphan of a migrator.
THEOREM DeploymentIsSafe == Spec => []DeploymentInv
<1>1. DeploymentInv /\ [Next]_vars => DeploymentInv'
  BY TypeStep, LockStep, CheckedStep, HistoryStep, KeptStep DEF DeploymentInv
<1> QED
  BY DeploymentInit, <1>1, PTL DEF Spec

\* Sessions never change the schema of one database at the same time, the
\* sessions that pg_advisory_lock admitted and whose clients died included.
THEOREM MigrationsSerialize == Spec => []MigrationsAreSerial
<1>1. DeploymentInv => MigrationsAreSerial
  BY DEF DeploymentInv, DdlHoldsTheLock, MigrationsAreSerial, InDdl, Doing, Guarded
<1> QED
  BY DeploymentIsSafe, <1>1, PTL

\* What db-migrator reports, and what a process keeps from its check, stays
\* true of the database.
THEOREM ReportsAreTrue == Spec => []ReportIsTrue
<1>1. DeploymentInv => ReportIsTrue
  BY
     DEF DeploymentInv, CheckedBeforeDdl, Admitted, HistoryIsComplete, KeptIsLowerBound,
         ReportIsTrue
<1> QED
  BY DeploymentIsSafe, <1>1, PTL

\* A database changes only by a session that verify_pre_ddl admitted to it, was
\* asked to migrate, and holds its lock.
THEOREM OnlyAdmittedSessionsMigrate == Spec => OnlyTheMigratorChangesASchema
<1> DEFINE Allowed(d) ==
      \E m \in Migrator :
        /\ lock[d] = m
        /\ request[m].db = d /\ request[m].scope = marker[d]
        /\ request[m].mode = "run"
        /\ request[m].cred.role = Crate(marker[d]).role
<1>1. ASSUME DeploymentInv, NEW m \in Migrator, Doing(m) \in Guarded
      PROVE  Allowed(request[m].db)
  BY <1>1 DEF DeploymentInv, DdlHoldsTheLock, CheckedBeforeDdl, Admitted
<1>2. ASSUME DeploymentInv, NEW m \in Migrator, NEW d \in Database,
             PrepareMigrationSchema(m) \/ RunMigrations(m) \/ OrphanStatement(m),
             <<applied[d], contract[d], owner[d]>>' # <<applied[d], contract[d], owner[d]>>
      PROVE  d = request[m].db /\ Doing(m) \in Guarded
  BY <1>2
     DEF DeploymentInv, TypeOK, PrepareMigrationSchema, RunMigrations, OrphanStatement, Migrate,
              Doing, Guarded, dbVars, Statements
<1>3. ASSUME NEW d \in Database,
             UNCHANGED dbVars
      PROVE  <<applied[d], contract[d], owner[d]>>' = <<applied[d], contract[d], owner[d]>>
  BY <1>3 DEF dbVars
<1>4. ASSUME NEW m \in Migrator,
             VerifyPreDdl(m) \/ AdvisoryLock(m) \/ ReadHistory(m) \/ AdvisoryUnlock(m)
               \/ VerifyContract(m) \/ StatementFails(m) \/ ClosePool(m) \/ Connect(m)
               \/ MigrationTimeout(m) \/ SessionEnds(m)
      PROVE  UNCHANGED dbVars
  BY <1>4 DEF VerifyPreDdl, AdvisoryLock, ReadHistory, AdvisoryUnlock, VerifyContract,
              StatementFails, ClosePool, Connect, MigrationTimeout, SessionEnds
<1>5. ASSUME DeploymentInv, [Next]_vars, NEW d \in Database,
             <<applied[d], contract[d], owner[d]>>' # <<applied[d], contract[d], owner[d]>>
      PROVE  Allowed(d)
  <2>1. ~UNCHANGED dbVars
    BY <1>3, <1>5
  <2>2. PICK m \in Migrator : PrepareMigrationSchema(m) \/ RunMigrations(m) \/ OrphanStatement(m)
    <3>1. ~UNCHANGED vars
      BY <2>1 DEF vars
    <3>2. ASSUME NEW p \in Runtime, RuntimeStep(p) PROVE FALSE
      BY <2>1, <3>2, RuntimeFrame
    <3> QED
      BY <1>4, <1>5, <2>1, <3>1, <3>2, NextIsMigratorOrRuntime DEF MigratorStep
  <2>3. d = request[m].db /\ Doing(m) \in Guarded
    BY <1>2, <1>5, <2>2
  <2> QED
    BY <1>1, <1>5, <2>3
<1>6. DeploymentInv /\ [Next]_vars =>
        [\A d \in Database :
           <<applied[d], contract[d], owner[d]>>' # <<applied[d], contract[d], owner[d]>> =>
             Allowed(d)]_vars
  BY <1>5
<1> QED
  BY DeploymentIsSafe, <1>6, PTL DEF Spec, OnlyTheMigratorChangesASchema
============================================================================
