--------------------------- MODULE TenantIsolation ---------------------------
(***************************************************************************)
(* Tenant-scoped work of a Cell process: CellDatabase takes a pooled        *)
(* connection, opens a READ COMMITTED transaction, puts the tenant and its *)
(* assignment epoch into transaction-local settings, asks                  *)
(* tenant_scope_status, and then runs its statement under the row policy   *)
(* of tenant_data, while an operator changes cell_control.tenant_authority *)
(* between any two statements.                                             *)
(***************************************************************************)
EXTENDS Integers, FiniteSets

CONSTANTS
  Task,        \* concurrent calls of the Cell process
  Connection,  \* connections of its pool
  Tenant,
  Canary,      \* identifiers of isolation canaries
  Reassigned,  \* bound: the tenants whose authority changes
  MaxEpoch,    \* bound on assignment epochs
  MyCell,      \* the Cell this process serves
  OtherCell,
  PlatformScope, CellScope,   \* scopes of requests and messages without a tenant
  Calls,       \* the calls that may be made
  None

Epoch == 1..MaxEpoch
TenantScope == [tenant : Tenant, cell : {MyCell, OtherCell}, epoch : Epoch]
Ops == {"write", "read", "update", "delete", "write+enqueue", "enqueue"}

\* A call as it reaches the adapter: the scope of the request, the canary it
\* names, whether its payload has 1 to 4096 characters, and its message's scope.
Call == [op : Ops, request : TenantScope \cup {PlatformScope}, canary : Canary,
         payload : BOOLEAN, message : TenantScope \cup {PlatformScope, CellScope}]

ASSUME IsolationAssumption ==
  /\ Calls \subseteq Call /\ Calls # {}
  /\ MaxEpoch \in Nat \ {0}
  /\ MyCell # OtherCell
  /\ Reassigned \subseteq Tenant
  /\ None \notin Task \cup Connection \cup Tenant \cup TenantScope
  /\ None \notin [epoch : Epoch, enabled : BOOLEAN]
  /\ PlatformScope \notin TenantScope /\ CellScope \notin TenantScope
  /\ PlatformScope # CellScope

VARIABLES
  authority,  \* tenant_authority: None, or the epoch and serving_enabled
  rows,       \* isolation_canary, and the call that wrote each row last
  outbox,     \* calls whose message is in the outbox
  call,       \* what each task does
  pc,
  conn,       \* connection of each task
  setting,    \* edtech.tenant_id and edtech.assignment_epoch of each session
  effect,     \* uncommitted effects of each task's transaction
  result,
  since       \* the scope was active at some moment since the call began

vars == <<authority, rows, outbox, call, pc, conn, setting, effect, result, since>>

Key == Tenant \X Canary
Effects == {"insert", "update", "delete", "enqueue"}
Errors == {"MissingTenantExecutionScope", "InvalidPayload", "InvalidOutboundAuthority",
           "WrongCell", "TenantAbsent", "TenantDisabled", "StaleAssignmentEpoch", "Operation"}

TypeOK ==
  /\ authority \in [Tenant -> {None} \cup [epoch : Epoch, enabled : BOOLEAN]]
  /\ rows \in [Key -> Task \cup {None}]
  /\ outbox \subseteq Task
  /\ call \in [Task -> Calls]
  /\ pc \in [Task -> {"idle", "acquire", "scope", "status", "statement", "enqueue", "finish", "done"}]
  /\ conn \in [Task -> Connection \cup {None}]
  /\ setting \in [Connection -> TenantScope \cup {None}]
  /\ effect \in [Task -> SUBSET Effects]
  /\ result \in [Task -> {"none", "ok", "false", "unknown"} \cup Errors]
  /\ since \in [Task -> BOOLEAN]

Init ==
  /\ authority \in [Tenant -> {None} \cup [epoch : {1}, enabled : {TRUE}]]
  /\ rows = [k \in Key |-> None]
  /\ outbox = {}
  /\ call \in [Task -> Calls]
  /\ pc = [k \in Task |-> "idle"]
  /\ conn = [k \in Task |-> None]
  /\ setting = [c \in Connection |-> None]
  /\ effect = [k \in Task |-> {}]
  /\ result = [k \in Task |-> "none"]
  /\ since = [k \in Task |-> FALSE]

-----------------------------------------------------------------------------
(* edtech_internal: what the database answers for the scope of a session.  *)

tenant_scope_status(s) ==
  LET a == authority[s.tenant] IN
  CASE a = None -> "TenantAbsent"
    [] a # None /\ ~a.enabled -> "TenantDisabled"
    [] a # None /\ a.enabled /\ a.epoch # s.epoch -> "StaleAssignmentEpoch"
    [] OTHER -> "active"

\* A mutant of tenant_is_authorized: the policy compares the tenant only.
tenant_is_current(s, tenant) == s # None /\ s.tenant = tenant

\* The row policy of tenant_data.isolation_canary, evaluated by each statement.
tenant_is_authorized(s, tenant) ==
  /\ s # None
  /\ s.tenant = tenant
  /\ authority[tenant] = [epoch |-> s.epoch, enabled |-> TRUE]

Active(s) == tenant_scope_status(s) = "active"

-----------------------------------------------------------------------------
(* The adapter.                                                            *)

\* The scope a call executes in: that of its request, or of its message.
ScopeOf(c) == IF c.op = "enqueue" THEN c.message ELSE c.request

Writes(c) == c.op \in {"write", "update", "write+enqueue"}
Sends(c) == c.op \in {"enqueue", "write+enqueue"}

\* validate_cell_outbound: the message's scope names this Cell.
validate_cell_outbound(message) ==
  message = CellScope \/ (message # PlatformScope /\ message.cell = MyCell)

message_scope_matches_execution(message, scope) == message = scope

\* TenantExecutionScope::try_from, the argument checks and begin_tenant's
\* Cell check, in the order in which they are made; "none" when all pass.
Refusal(c) ==
  IF c.op # "enqueue" /\ c.request = PlatformScope THEN "MissingTenantExecutionScope"
  ELSE IF Writes(c) /\ ~c.payload THEN "InvalidPayload"
  ELSE IF \/ Sends(c) /\ ~validate_cell_outbound(c.message)
          \/ c.op = "write+enqueue" /\ ~message_scope_matches_execution(c.message, c.request)
    THEN "InvalidOutboundAuthority"
  ELSE IF ScopeOf(c) # CellScope /\ ScopeOf(c).cell # MyCell THEN "WrongCell"
  ELSE "none"

Goto(k, next) == pc' = [pc EXCEPT ![k] = next]
Return(k, r) == result' = [result EXCEPT ![k] = r]

Start(k) ==
  LET c == call[k] IN
  /\ pc[k] = "idle"
  /\ IF Refusal(c) # "none" THEN Goto(k, "done") /\ Return(k, Refusal(c)) /\ since' = since
     ELSE /\ Goto(k, "acquire")
          /\ since' = [since EXCEPT ![k] = ScopeOf(c) = CellScope \/ Active(ScopeOf(c))]
          /\ result' = result
  /\ UNCHANGED <<authority, rows, outbox, call, conn, setting, effect>>

\* pool.begin: waits for a free connection, at most acquire_timeout. Work
\* scoped to the Cell itself needs no tenant.
Begin(k) ==
  /\ pc[k] = "acquire"
  /\ \/ \E x \in Connection :
          /\ \A j \in Task : conn[j] # x
          /\ conn' = [conn EXCEPT ![k] = x]
          /\ Goto(k, IF ScopeOf(call[k]) = CellScope THEN "enqueue" ELSE "scope")
          /\ result' = result
     \/ /\ Goto(k, "done") /\ Return(k, "Operation")
        /\ conn' = conn
  /\ UNCHANGED <<authority, rows, outbox, call, setting, effect, since>>

\* The end of the transaction, by commit, rollback or drop: its local settings
\* are gone and its connection is back in the pool.
EndTransaction(k) ==
  /\ conn' = [conn EXCEPT ![k] = None]
  /\ setting' = [setting EXCEPT ![conn[k]] = None]
  /\ effect' = [effect EXCEPT ![k] = {}]
  /\ Goto(k, "done")

Rollback(k, r) ==
  /\ EndTransaction(k)
  /\ Return(k, r)
  /\ UNCHANGED <<authority, rows, outbox, call, since>>

\* validate_tenant_in_transaction, first statement: set_config(..., true).
SetScope(k) ==
  /\ pc[k] = "scope"
  /\ setting' = [setting EXCEPT ![conn[k]] = ScopeOf(call[k])]
  /\ Goto(k, "status")
  /\ UNCHANGED <<authority, rows, outbox, call, conn, effect, result, since>>

\* A mutant of CheckStatus: a scope that is not active is let through.
AcceptAnyStatus(k) ==
  /\ pc[k] = "status"
  /\ Goto(k, IF call[k].op = "enqueue" THEN "enqueue" ELSE "statement")
  /\ UNCHANGED <<authority, rows, outbox, call, conn, setting, effect, result, since>>

\* Second statement: tenant_scope_status. A refusal drops the transaction.
CheckStatus(k) ==
  LET status == tenant_scope_status(setting[conn[k]]) IN
  /\ pc[k] = "status"
  /\ IF status # "active" THEN Rollback(k, status)
     ELSE /\ Goto(k, IF call[k].op = "enqueue" THEN "enqueue" ELSE "statement")
          /\ UNCHANGED <<authority, rows, outbox, call, conn, setting, effect, result, since>>

KeyOf(c) == <<c.request.tenant, c.canary>>

\* Row locks: a statement waits for the transaction that touched the row.
Unlocked(k) ==
  \A j \in Task \ {k} :
    effect[j] \cap {"insert", "update", "delete"} # {} => KeyOf(call[j]) # KeyOf(call[k])

\* INSERT: the policy's WITH CHECK and the primary key.
InsertCanary(k) ==
  LET c == call[k] IN
  /\ pc[k] = "statement" /\ c.op \in {"write", "write+enqueue"} /\ Unlocked(k)
  /\ IF /\ tenant_is_authorized(setting[conn[k]], c.request.tenant)
        /\ rows[KeyOf(c)] = None
     THEN /\ effect' = [effect EXCEPT ![k] = {"insert"}]
          /\ Goto(k, IF Sends(c) THEN "enqueue" ELSE "finish")
          /\ UNCHANGED <<authority, rows, outbox, call, conn, setting, result, since>>
     ELSE Rollback(k, "Operation")

\* SELECT, UPDATE, DELETE: rows the policy hides are not there.
TouchCanary(k) ==
  LET c == call[k] IN
  /\ pc[k] = "statement" /\ c.op \in {"read", "update", "delete"}
  /\ c.op # "read" => Unlocked(k)
  /\ IF /\ tenant_is_authorized(setting[conn[k]], c.request.tenant)
        /\ rows[KeyOf(c)] # None
     THEN /\ effect' = [effect EXCEPT ![k] = {c.op} \ {"read"}]
          /\ Return(k, "ok")
     ELSE Return(k, "false") /\ effect' = effect
  /\ Goto(k, "finish")
  /\ UNCHANGED <<authority, rows, outbox, call, conn, setting, since>>

\* A mutant of Enqueue: a refused message does not undo the canary.
EnqueueOrCommit(k) ==
  /\ pc[k] = "enqueue"
  /\ \E ok \in BOOLEAN :
       effect' = [effect EXCEPT ![k] = IF ok THEN @ \cup {"enqueue"} ELSE @]
  /\ Goto(k, "finish")
  /\ UNCHANGED <<authority, rows, outbox, call, conn, setting, result, since>>

\* postgres_message_store::enqueue in the same transaction; the outbox has no
\* row policy, and the message may be refused by the store.
Enqueue(k) ==
  /\ pc[k] = "enqueue"
  /\ \/ /\ effect' = [effect EXCEPT ![k] = @ \cup {"enqueue"}]
        /\ Goto(k, "finish")
        /\ UNCHANGED <<authority, rows, outbox, call, conn, setting, result, since>>
     \/ Rollback(k, "Operation")

\* finish_value, finish_unit: a commit that fails may still have happened.
Commit(k) ==
  LET c == call[k] IN
  /\ pc[k] = "finish"
  /\ rows' = IF effect[k] \cap {"insert", "update"} # {} THEN [rows EXCEPT ![KeyOf(c)] = k]
             ELSE IF "delete" \in effect[k] THEN [rows EXCEPT ![KeyOf(c)] = None]
             ELSE rows
  /\ outbox' = IF "enqueue" \in effect[k] THEN outbox \cup {k} ELSE outbox
  /\ EndTransaction(k)
  /\ \E r \in {IF result[k] = "false" THEN "false" ELSE "ok", "unknown"} : Return(k, r)
  /\ UNCHANGED <<authority, call, since>>

CommitFails(k) == pc[k] = "finish" /\ Rollback(k, "unknown")

\* Any statement of an open transaction may fail.
StatementFails(k) ==
  /\ pc[k] \in {"scope", "status", "statement", "enqueue"}
  /\ Rollback(k, "Operation")

\* An operator assigns, reassigns, disables, enables or removes a tenant.
ChangeAuthority(t) ==
  /\ \E a \in {None} \cup [epoch : Epoch, enabled : BOOLEAN] :
       /\ a # authority[t]
       /\ a # None /\ authority[t] # None => a.epoch >= authority[t].epoch
       /\ authority' = [authority EXCEPT ![t] = a]
       /\ since' = [k \in Task |->
            since[k] \/ (/\ pc[k] \notin {"idle", "done"}
                         /\ ScopeOf(call[k]) # CellScope /\ ScopeOf(call[k]).tenant = t
                         /\ a = [epoch |-> ScopeOf(call[k]).epoch, enabled |-> TRUE])]
  /\ UNCHANGED <<rows, outbox, call, pc, conn, setting, effect, result>>

Step(k) ==
  \/ Start(k) \/ Begin(k) \/ SetScope(k) \/ CheckStatus(k) \/ InsertCanary(k)
  \/ TouchCanary(k) \/ Enqueue(k) \/ Commit(k) \/ CommitFails(k) \/ StatementFails(k)

Next == (\E k \in Task : Step(k)) \/ (\E t \in Reassigned : ChangeAuthority(t))

Spec == Init /\ [][Next]_vars

-----------------------------------------------------------------------------
(* Properties.                                                             *)

\* A statement touches a canary only at a moment at which its tenant is served
\* with the call's epoch, however the authority changes around it.
TouchedOnlyWhileAuthorized ==
  [][\A k \in Task :
       effect'[k] \cap {"insert", "update", "delete"} # {} /\ effect[k] = {} =>
         /\ Active(call[k].request)
         /\ setting[conn[k]] = call[k].request]_vars

\* What a call committed was authorized at some moment after the call began:
\* an epoch revoked before the call fences it, one revoked during it may not.
CommittedWorkWasAuthorized ==
  \A k \in Task :
    k \in outbox \/ (\E key \in Key : rows[key] = k) => since[k]

\* The canary and the message of one call commit together or not at all, and
\* the message speaks for the tenant of the canary.
CanaryAndMessageTogether ==
  [][\A k \in Task :
       call[k].op = "write+enqueue" =>
         /\ k \in outbox' \ outbox <=> (\E key \in Key : rows[key] # k /\ rows'[key] = k)
         /\ k \in outbox' => call[k].message.tenant = call[k].request.tenant]_vars

=============================================================================
