------------------------ MODULE TenantIsolationProofs ------------------------
(***************************************************************************)
(* Tenant isolation for every number of calls, connections, tenants,       *)
(* canaries and epochs, and every sequence of authority changes.           *)
(***************************************************************************)
EXTENDS TenantIsolation, TLAPS

\* Control points at which a transaction is open, and at which a call runs.
Open == {"scope", "status", "statement", "enqueue", "finish"}
Live == Open \cup {"acquire"}
Points == {"idle", "acquire", "scope", "status", "statement", "enqueue", "finish", "done"}
Outcomes == {"none", "ok", "false", "unknown"} \cup Errors
Row == [epoch : Epoch, enabled : BOOLEAN]

----------------------------------------------------------------------------
(* What the operators return.                                              *)

\* A call that is not refused runs in the scope of this Cell or of a tenant;
\* only an enqueue can run in the former, and a canary's message has its scope.
LEMMA AdmittedCall ==
  ASSUME NEW c \in Call, Refusal(c) = "none"
  PROVE  /\ ScopeOf(c) # CellScope => ScopeOf(c) \in TenantScope
         /\ ScopeOf(c) = CellScope => c.op = "enqueue"
         /\ c.op # "enqueue" => ScopeOf(c) = c.request /\ c.request \in TenantScope
         /\ c.op = "write+enqueue" => c.message = c.request
<1>1. /\ c.op \in Ops
      /\ c.request \in TenantScope \cup {PlatformScope}
      /\ c.message \in TenantScope \cup {PlatformScope, CellScope}
  BY DEF Call
<1>2. ~(c.op # "enqueue" /\ c.request = PlatformScope)
  BY DEF Refusal
<1>3. Sends(c) => validate_cell_outbound(c.message)
  BY <1>2 DEF Refusal
<1>4. c.op = "write+enqueue" => message_scope_matches_execution(c.message, c.request)
  BY <1>2, <1>3 DEF Refusal
<1>5. PlatformScope \notin TenantScope /\ CellScope \notin TenantScope /\ PlatformScope # CellScope
  BY IsolationAssumption
<1>6. c.op = "enqueue" => c.message # PlatformScope
  BY <1>3, <1>5 DEF Sends, validate_cell_outbound
<1>7. c.op = "write+enqueue" => c.message = c.request
  BY <1>4 DEF message_scope_matches_execution
<1> QED
  BY <1>1, <1>2, <1>5, <1>6, <1>7 DEF ScopeOf

\* The adapter's checks end in one error or in none.
LEMMA RefusalType == \A c : Refusal(c) \in Errors \cup {"none"}
  BY DEF Refusal, Errors

\* The status of a scope is active exactly while the authority row carries its
\* epoch and serves; this is what the row policy compares as well.
StatusIsPolicy ==
  \A s \in TenantScope : authority[s.tenant] \in {None} \cup Row =>
    /\ tenant_scope_status(s) \in Errors \cup {"active"}
    /\ Active(s) <=> authority[s.tenant] = [epoch |-> s.epoch, enabled |-> TRUE]

\* tenant_scope_status and the row policy agree.
LEMMA StatusMeaning == StatusIsPolicy
<1> SUFFICES ASSUME NEW s \in TenantScope, authority[s.tenant] \in {None} \cup Row
             PROVE  /\ tenant_scope_status(s) \in Errors \cup {"active"}
                    /\ Active(s) <=> authority[s.tenant] = [epoch |-> s.epoch, enabled |-> TRUE]
  BY DEF StatusIsPolicy
<1> DEFINE a == authority[s.tenant]
<1>1. None \notin Row /\ s.epoch \in Epoch
  BY IsolationAssumption DEF Row, TenantScope
<1>2. [epoch |-> s.epoch, enabled |-> TRUE] \in Row
  BY <1>1 DEF Row
<1>3. CASE a = None
  BY <1>1, <1>2, <1>3 DEF Active, tenant_scope_status, Errors
<1>4. CASE a \in Row
  <2>1. a # None /\ a.enabled \in BOOLEAN
    BY <1>1, <1>4 DEF Row
  <2>2. a = [epoch |-> s.epoch, enabled |-> TRUE] <=> a.enabled /\ a.epoch = s.epoch
    <3>1. a = [epoch |-> a.epoch, enabled |-> a.enabled]
      BY <1>4 DEF Row
    <3>2. a.enabled <=> a.enabled = TRUE
      BY <2>1
    <3>3. ASSUME a.enabled = TRUE, a.epoch = s.epoch PROVE a = [epoch |-> s.epoch, enabled |-> TRUE]
      BY <3>1, <3>3
    <3>4. ASSUME a = [epoch |-> s.epoch, enabled |-> TRUE] PROVE a.enabled = TRUE /\ a.epoch = s.epoch
      BY <3>4
    <3> QED
      BY <3>2, <3>3, <3>4
  <2>3. CASE ~a.enabled
    BY <2>1, <2>2, <2>3 DEF Active, tenant_scope_status, Errors
  <2>4. CASE a.enabled /\ a.epoch # s.epoch
    BY <2>1, <2>2, <2>4 DEF Active, tenant_scope_status, Errors
  <2>5. CASE a.enabled /\ a.epoch = s.epoch
    BY <2>1, <2>2, <2>5 DEF Active, tenant_scope_status, Errors
  <2> QED
    BY <2>1, <2>3, <2>4, <2>5
<1> QED
  BY <1>3, <1>4

\* They agree in the next state as well.
LEMMA StatusMeaningNext == StatusIsPolicy'
  BY StatusMeaning, PTL

----------------------------------------------------------------------------
(* The inductive invariant, one call at a time.                            *)

\* What runs, or ran to its commit, passed the adapter's checks.
Admitted(k) == pc[k] \in Live \/ k \in outbox => Refusal(call[k]) = "none"

HoldsConnection(k) == IF pc[k] \in Open THEN conn[k] \in Connection ELSE conn[k] = None

\* The session of a call carries the call's scope, not one that an earlier
\* user of the connection left there.
ScopeIsSet(k) ==
  /\ pc[k] \in {"scope", "status", "statement"} => ScopeOf(call[k]) # CellScope
  /\ pc[k] \in {"status", "statement"} => setting[conn[k]] = ScopeOf(call[k])
  /\ pc[k] = "statement" => call[k].op # "enqueue"

\* Authorization is remembered from the moment the call begins.
SinceIsHonest(k) ==
  /\ pc[k] \in Live /\ (ScopeOf(call[k]) = CellScope \/ Active(ScopeOf(call[k]))) => since[k]
  /\ pc[k] \in {"statement", "enqueue", "finish"} => since[k]
  /\ k \in outbox \/ (\E key \in Key : rows[key] = k) => since[k]

\* A call with a message reaches its commit with both effects or not at all.
EffectsMatchCall(k) ==
  /\ pc[k] \notin {"enqueue", "finish"} => effect[k] = {}
  /\ call[k].op = "write+enqueue" =>
       /\ pc[k] = "enqueue" => effect[k] = {"insert"}
       /\ pc[k] = "finish" => effect[k] = {"insert", "enqueue"}

CommitsOnce(k) == pc[k] # "done" => k \notin outbox /\ \A key \in Key : rows[key] # k

SafeCall(k) ==
  /\ Admitted(k)
  /\ HoldsConnection(k)
  /\ ScopeIsSet(k)
  /\ SinceIsHonest(k)
  /\ EffectsMatchCall(k)
  /\ CommitsOnce(k)

\* No two transactions share a connection.
ConnectionsAreExclusive ==
  \A j, k \in Task : conn[j] = conn[k] /\ conn[j] # None => j = k

IsolationInv ==
  /\ TypeOK
  /\ ConnectionsAreExclusive
  /\ \A k \in Task : SafeCall(k)

\* What a step leaves alone when it is a step of call k only.
Untouched(j) ==
  /\ pc'[j] = pc[j] /\ conn'[j] = conn[j] /\ effect'[j] = effect[j] /\ since'[j] = since[j]
  /\ conn[j] \in Connection => setting'[conn[j]] = setting[conn[j]]
  /\ j \in outbox' => j \in outbox
  /\ \A key \in Key : rows'[key] = j => rows[key] = j

\* A call that a step does not touch stays safe.
LEMMA Frame ==
  ASSUME NEW j \in Task, SafeCall(j), Untouched(j), UNCHANGED <<authority, call>>
  PROVE  SafeCall(j)'
<1>1. Admitted(j)' /\ HoldsConnection(j)'
  BY DEF SafeCall, Untouched, Admitted, HoldsConnection
<1>2. ScopeIsSet(j)'
  BY DEF SafeCall, Untouched, ScopeIsSet, HoldsConnection, Open
<1>3. Active(ScopeOf(call[j]))' = Active(ScopeOf(call[j])) /\ ScopeOf(call[j])' = ScopeOf(call[j])
  BY DEF Active, tenant_scope_status, ScopeOf
<1>4. SinceIsHonest(j)'
  BY <1>3 DEF SafeCall, Untouched, SinceIsHonest
<1>5. EffectsMatchCall(j)' /\ CommitsOnce(j)'
  BY DEF SafeCall, Untouched, EffectsMatchCall, CommitsOnce
<1> QED
  BY <1>1, <1>2, <1>4, <1>5 DEF SafeCall

\* The end of a transaction touches its own call and connection only.
LEMMA EndEffect ==
  ASSUME TypeOK, ConnectionsAreExclusive, NEW k \in Task, conn[k] \in Connection,
         EndTransaction(k)
  PROVE  /\ conn' \in [Task -> Connection \cup {None}]
         /\ setting' \in [Connection -> TenantScope \cup {None}]
         /\ effect' \in [Task -> SUBSET Effects]
         /\ pc' \in [Task -> Points]
         /\ pc'[k] = "done" /\ conn'[k] = None /\ effect'[k] = {}
         /\ ConnectionsAreExclusive'
         /\ \A j \in Task \ {k} :
              /\ pc'[j] = pc[j] /\ conn'[j] = conn[j] /\ effect'[j] = effect[j]
              /\ conn[j] \in Connection => setting'[conn[j]] = setting[conn[j]]
<1>0. /\ conn \in [Task -> Connection \cup {None}]
      /\ setting \in [Connection -> TenantScope \cup {None}]
      /\ effect \in [Task -> SUBSET Effects]
      /\ pc \in [Task -> Points]
      /\ None \notin Connection
  BY IsolationAssumption DEF TypeOK, Points
<1>1. conn' \in [Task -> Connection \cup {None}] /\ \A j \in Task : conn'[j] = IF j = k THEN None ELSE conn[j]
  BY <1>0 DEF EndTransaction
<1>2. /\ setting' \in [Connection -> TenantScope \cup {None}]
      /\ \A x \in Connection \ {conn[k]} : setting'[x] = setting[x]
  BY <1>0 DEF EndTransaction
<1>3. effect' \in [Task -> SUBSET Effects] /\ \A j \in Task : effect'[j] = IF j = k THEN {} ELSE effect[j]
  BY <1>0 DEF EndTransaction
<1>4. pc' \in [Task -> Points] /\ \A j \in Task : pc'[j] = IF j = k THEN "done" ELSE pc[j]
  BY <1>0 DEF EndTransaction, Goto, Points
<1>5. \A j \in Task \ {k} : conn[j] \in Connection => conn[j] # conn[k]
  BY <1>0 DEF ConnectionsAreExclusive
<1>6. ConnectionsAreExclusive'
  BY <1>1 DEF ConnectionsAreExclusive
<1> QED
  BY <1>1, <1>2, <1>3, <1>4, <1>5, <1>6

\* A step of call k alone: only its own part has to be looked at.
LEMMA OwnStep ==
  ASSUME IsolationInv, NEW k \in Task, UNCHANGED <<authority, call>>,
         TypeOK', ConnectionsAreExclusive', SafeCall(k)',
         \A j \in Task \ {k} : Untouched(j)
  PROVE  IsolationInv'
  BY Frame DEF IsolationInv

\* The facts that the steps below start from.
LEMMA Typed ==
  ASSUME TypeOK
  PROVE  /\ pc \in [Task -> Points]
         /\ conn \in [Task -> Connection \cup {None}]
         /\ setting \in [Connection -> TenantScope \cup {None}]
         /\ effect \in [Task -> SUBSET Effects]
         /\ result \in [Task -> Outcomes]
         /\ since \in [Task -> BOOLEAN]
         /\ call \in [Task -> Calls] /\ \A k \in Task : call[k] \in Call
         /\ None \notin Task \cup Connection
  BY IsolationAssumption DEF TypeOK, Points, Outcomes

\* A call that is turned away or fails leaves no effect.
LEMMA RollbackStep ==
  ASSUME IsolationInv, NEW k \in Task, pc[k] \in Open, NEW r \in Outcomes, Rollback(k, r)
  PROVE  IsolationInv'
<1>0. TypeOK /\ SafeCall(k) /\ ConnectionsAreExclusive
  BY DEF IsolationInv
<1>1. conn[k] \in Connection /\ EndTransaction(k) /\ UNCHANGED <<authority, rows, outbox, call, since>>
  BY <1>0 DEF SafeCall, HoldsConnection, Rollback
<1>2. TypeOK'
  <2>1. result' \in [Task -> Outcomes]
    BY <1>0, Typed DEF Rollback, Return
  <2> QED
    BY <1>0, <1>1, <2>1, EndEffect DEF TypeOK, Points, Outcomes
<1>3. pc'[k] = "done" /\ conn'[k] = None /\ effect'[k] = {}
  BY <1>0, <1>1, EndEffect
<1>4. SafeCall(k)'
  <2>1. k \notin outbox
    BY <1>0 DEF SafeCall, CommitsOnce, Open
  <2>2. Admitted(k)' /\ HoldsConnection(k)' /\ ScopeIsSet(k)'
    BY <1>1, <1>3, <2>1 DEF Admitted, HoldsConnection, ScopeIsSet, Live, Open
  <2>3. SinceIsHonest(k)'
    BY <1>0, <1>1, <1>3 DEF SafeCall, SinceIsHonest, Live, Open
  <2>4. EffectsMatchCall(k)' /\ CommitsOnce(k)'
    BY <1>3 DEF EffectsMatchCall, CommitsOnce
  <2> QED
    BY <2>2, <2>3, <2>4 DEF SafeCall
<1>5. ConnectionsAreExclusive' /\ \A j \in Task \ {k} : Untouched(j)
  BY <1>0, <1>1, EndEffect DEF Untouched
<1> QED
  BY <1>1, <1>2, <1>4, <1>5, OwnStep

\* A call begins behind the adapter's checks.
LEMMA StartStep ==
  ASSUME IsolationInv, NEW k \in Task, Start(k)
  PROVE  IsolationInv'
<1> DEFINE c == call[k]
<1>0. TypeOK /\ SafeCall(k) /\ ConnectionsAreExclusive /\ pc[k] = "idle"
  BY DEF IsolationInv, Start
<1>1. UNCHANGED <<authority, rows, outbox, call, conn, setting, effect>>
  BY DEF Start
<1>2. CASE Refusal(c) # "none"
  <2>1. Goto(k, "done") /\ Return(k, Refusal(c)) /\ since' = since /\ Refusal(c) \in Outcomes
    BY <1>2, RefusalType DEF Start, Outcomes
  <2>2. pc' \in [Task -> Points] /\ pc'[k] = "done" /\ \A j \in Task \ {k} : pc'[j] = pc[j]
    BY <1>0, <2>1, Typed DEF Goto, Points
  <2>3. TypeOK'
    BY <1>0, <1>1, <2>1, <2>2, Typed DEF TypeOK, Return, Points, Outcomes
  <2>4. SafeCall(k)'
    BY <1>0, <1>1, <2>1, <2>2
       DEF SafeCall, Admitted, HoldsConnection, ScopeIsSet, SinceIsHonest, EffectsMatchCall, CommitsOnce,
           Live, Open
  <2>5. ConnectionsAreExclusive' /\ \A j \in Task \ {k} : Untouched(j)
    BY <1>0, <1>1, <2>1, <2>2 DEF Untouched, ConnectionsAreExclusive
  <2> QED
    BY <1>1, <2>3, <2>4, <2>5, OwnStep
<1>3. CASE Refusal(c) = "none"
  <2>1. /\ Goto(k, "acquire") /\ result' = result
        /\ since' = [since EXCEPT ![k] = ScopeOf(c) = CellScope \/ Active(ScopeOf(c))]
    BY <1>3 DEF Start
  <2>2. pc' \in [Task -> Points] /\ pc'[k] = "acquire" /\ \A j \in Task \ {k} : pc'[j] = pc[j]
    BY <1>0, <2>1, Typed DEF Goto, Points
  <2>3. /\ since' \in [Task -> BOOLEAN]
        /\ since'[k] = (ScopeOf(c) = CellScope \/ Active(ScopeOf(c)))
        /\ \A j \in Task \ {k} : since'[j] = since[j]
    BY <1>0, <2>1, Typed DEF Active
  <2>4. TypeOK'
    BY <1>0, <1>1, <2>1, <2>2, <2>3 DEF TypeOK, Points
  <2>5. k \notin outbox /\ \A key \in Key : rows[key] # k
    BY <1>0 DEF SafeCall, CommitsOnce
  <2>6. SinceIsHonest(k)'
    <3>1. ScopeOf(c)' = ScopeOf(c) /\ Active(ScopeOf(c))' = Active(ScopeOf(c))
      BY <1>1 DEF Active, tenant_scope_status, ScopeOf
    <3>2. k \notin outbox' /\ \A key \in Key : rows'[key] # k
      BY <1>1, <2>5
    <3> QED
      BY <2>2, <2>3, <3>1, <3>2 DEF SinceIsHonest
  <2>7. Admitted(k)' /\ HoldsConnection(k)' /\ ScopeIsSet(k)' /\ EffectsMatchCall(k)' /\ CommitsOnce(k)'
    BY <1>0, <1>1, <1>3, <2>2, <2>5
       DEF SafeCall, Admitted, HoldsConnection, ScopeIsSet, EffectsMatchCall, CommitsOnce, Live, Open
  <2>8. ConnectionsAreExclusive' /\ \A j \in Task \ {k} : Untouched(j)
    BY <1>0, <1>1, <2>2, <2>3 DEF Untouched, ConnectionsAreExclusive
  <2> QED
    BY <1>1, <2>4, <2>6, <2>7, <2>8, OwnStep DEF SafeCall
<1> QED
  BY <1>2, <1>3

\* Where control moves, and nothing but the call's own connection and effects.
LEMMA GotoEffect ==
  ASSUME TypeOK, NEW k \in Task, NEW point \in Points, Goto(k, point)
  PROVE  /\ pc' \in [Task -> Points]
         /\ pc'[k] = point
         /\ \A j \in Task \ {k} : pc'[j] = pc[j]
  BY Typed DEF Goto

\* A transaction begins on a connection nobody uses.
LEMMA BeginStep ==
  ASSUME IsolationInv, NEW k \in Task, Begin(k)
  PROVE  IsolationInv'
<1> DEFINE c == call[k]
<1>0. TypeOK /\ SafeCall(k) /\ ConnectionsAreExclusive /\ pc[k] = "acquire"
  BY DEF IsolationInv, Begin
<1>1. UNCHANGED <<authority, rows, outbox, call, setting, effect, since>>
  BY DEF Begin
<1>2. c \in Call /\ Refusal(c) = "none"
  BY <1>0, Typed DEF SafeCall, Admitted, Live
<1>3. ASSUME NEW x \in Connection, \A j \in Task : conn[j] # x, conn' = [conn EXCEPT ![k] = x],
             Goto(k, IF ScopeOf(c) = CellScope THEN "enqueue" ELSE "scope"), result' = result
      PROVE  IsolationInv'
  <2>1. /\ pc' \in [Task -> Points]
        /\ pc'[k] = IF ScopeOf(c) = CellScope THEN "enqueue" ELSE "scope"
        /\ \A j \in Task \ {k} : pc'[j] = pc[j]
    BY <1>0, <1>3, GotoEffect DEF Points
  <2>2. /\ conn' \in [Task -> Connection \cup {None}] /\ conn'[k] = x
        /\ \A j \in Task \ {k} : conn'[j] = conn[j]
    BY <1>0, <1>3, Typed
  <2>3. TypeOK'
    BY <1>0, <1>1, <1>3, <2>1, <2>2 DEF TypeOK, Points
  <2>4. ConnectionsAreExclusive' /\ \A j \in Task \ {k} : Untouched(j)
    BY <1>0, <1>1, <1>3, <2>1, <2>2 DEF Untouched, ConnectionsAreExclusive
  <2>5. Admitted(k)' /\ HoldsConnection(k)' /\ CommitsOnce(k)'
    BY <1>0, <1>1, <1>2, <2>1, <2>2 DEF SafeCall, Admitted, HoldsConnection, CommitsOnce, Live, Open
  <2>6. ScopeOf(c)' = ScopeOf(c) /\ Active(ScopeOf(c))' = Active(ScopeOf(c))
    BY <1>1 DEF Active, tenant_scope_status, ScopeOf
  <2>7. ScopeIsSet(k)'
    BY <2>1, <2>6 DEF ScopeIsSet
  <2>8. SinceIsHonest(k)'
    BY <1>0, <1>1, <2>1, <2>6 DEF SafeCall, SinceIsHonest, Live, Open
  <2>9. EffectsMatchCall(k)'
    BY <1>0, <1>1, <1>2, <2>1, AdmittedCall DEF SafeCall, EffectsMatchCall
  <2> QED
    BY <1>1, <2>3, <2>4, <2>5, <2>7, <2>8, <2>9, OwnStep DEF SafeCall
<1>4. ASSUME Goto(k, "done"), Return(k, "Operation"), conn' = conn
      PROVE  IsolationInv'
  <2>1. pc' \in [Task -> Points] /\ pc'[k] = "done" /\ \A j \in Task \ {k} : pc'[j] = pc[j]
    BY <1>0, <1>4, GotoEffect DEF Points
  <2>2. TypeOK'
    BY <1>0, <1>1, <1>4, <2>1, Typed DEF TypeOK, Return, Points, Outcomes, Errors
  <2>3. SafeCall(k)'
    BY <1>0, <1>1, <1>4, <2>1
       DEF SafeCall, Admitted, HoldsConnection, ScopeIsSet, SinceIsHonest, EffectsMatchCall, CommitsOnce,
           Live, Open
  <2>4. ConnectionsAreExclusive' /\ \A j \in Task \ {k} : Untouched(j)
    BY <1>0, <1>1, <1>4, <2>1 DEF Untouched, ConnectionsAreExclusive
  <2> QED
    BY <1>1, <2>2, <2>3, <2>4, OwnStep
<1> QED
  BY <1>3, <1>4 DEF Begin

\* The session takes the scope of its call.
LEMMA SetScopeStep ==
  ASSUME IsolationInv, NEW k \in Task, SetScope(k)
  PROVE  IsolationInv'
<1> DEFINE c == call[k]
<1>0. TypeOK /\ SafeCall(k) /\ ConnectionsAreExclusive /\ pc[k] = "scope"
  BY DEF IsolationInv, SetScope
<1>1. UNCHANGED <<authority, rows, outbox, call, conn, effect, result, since>>
  BY DEF SetScope
<1>2. c \in Call /\ Refusal(c) = "none" /\ conn[k] \in Connection
  BY <1>0, Typed DEF SafeCall, Admitted, HoldsConnection, Live, Open
<1>3. ScopeOf(c) \in TenantScope
  BY <1>0, <1>2, AdmittedCall DEF SafeCall, ScopeIsSet
<1>4. pc' \in [Task -> Points] /\ pc'[k] = "status" /\ \A j \in Task \ {k} : pc'[j] = pc[j]
  BY <1>0, GotoEffect DEF SetScope, Points
<1>5. /\ setting' \in [Connection -> TenantScope \cup {None}]
      /\ setting'[conn[k]] = ScopeOf(c)
      /\ \A x \in Connection \ {conn[k]} : setting'[x] = setting[x]
  BY <1>0, <1>2, <1>3, Typed DEF SetScope
<1>6. TypeOK'
  BY <1>0, <1>1, <1>4, <1>5 DEF TypeOK, Points
<1>7. \A j \in Task \ {k} : conn[j] \in Connection => conn[j] # conn[k]
  BY <1>0, Typed DEF ConnectionsAreExclusive
<1>8. ConnectionsAreExclusive' /\ \A j \in Task \ {k} : Untouched(j)
  BY <1>0, <1>1, <1>4, <1>5, <1>7 DEF Untouched, ConnectionsAreExclusive
<1>9. ScopeOf(c)' = ScopeOf(c) /\ Active(ScopeOf(c))' = Active(ScopeOf(c))
  BY <1>1 DEF Active, tenant_scope_status, ScopeOf
<1>10. Admitted(k)' /\ HoldsConnection(k)' /\ ScopeIsSet(k)'
  BY <1>0, <1>1, <1>2, <1>4, <1>5, <1>9
     DEF SafeCall, Admitted, HoldsConnection, ScopeIsSet, Live, Open
<1>11. SinceIsHonest(k)'
  BY <1>0, <1>1, <1>4, <1>9 DEF SafeCall, SinceIsHonest, Live, Open
<1>12. EffectsMatchCall(k)' /\ CommitsOnce(k)'
  BY <1>0, <1>1, <1>4 DEF SafeCall, EffectsMatchCall, CommitsOnce
<1> QED
  BY <1>1, <1>6, <1>8, <1>10, <1>11, <1>12, OwnStep DEF SafeCall

\* A call whose transaction goes on with an open statement or a commit: it has
\* been authorized, and its effects are those of the new control point.
LEMMA ProgressStep ==
  ASSUME IsolationInv, NEW k \in Task, pc[k] \in {"status", "statement", "enqueue"}, since[k],
         NEW point \in {"statement", "enqueue", "finish"}, Goto(k, point),
         UNCHANGED <<authority, rows, outbox, call, conn, setting, since>>,
         result' \in [Task -> Outcomes],
         effect' \in [Task -> SUBSET Effects],
         \A j \in Task \ {k} : effect'[j] = effect[j],
         point = "statement" => pc[k] = "status" /\ call[k].op # "enqueue" /\ effect'[k] = {},
         call[k].op = "write+enqueue" =>
           /\ point = "enqueue" => effect'[k] = {"insert"}
           /\ point = "finish" => effect'[k] = {"insert", "enqueue"}
  PROVE  IsolationInv'
<1>0. TypeOK /\ SafeCall(k) /\ ConnectionsAreExclusive
  BY DEF IsolationInv
<1>1. pc' \in [Task -> Points] /\ pc'[k] = point /\ \A j \in Task \ {k} : pc'[j] = pc[j]
  BY <1>0, GotoEffect DEF Points
<1>2. TypeOK'
  BY <1>0, <1>1 DEF TypeOK, Points, Outcomes
<1>3. ConnectionsAreExclusive' /\ \A j \in Task \ {k} : Untouched(j)
  BY <1>0, <1>1 DEF Untouched, ConnectionsAreExclusive
<1>4. Admitted(k)' /\ HoldsConnection(k)' /\ CommitsOnce(k)'
  BY <1>0, <1>1 DEF SafeCall, Admitted, HoldsConnection, CommitsOnce, Live, Open
<1>5. ScopeIsSet(k)'
  BY <1>0, <1>1 DEF SafeCall, ScopeIsSet, ScopeOf
<1>6. SinceIsHonest(k)'
  BY <1>0, <1>1 DEF SinceIsHonest
<1>7. EffectsMatchCall(k)'
  BY <1>1 DEF EffectsMatchCall
<1> QED
  BY <1>2, <1>3, <1>4, <1>5, <1>6, <1>7, OwnStep DEF SafeCall

\* In an open transaction with a statement to run, the session's scope is the
\* call's own tenant scope and its authority row is well typed.
LEMMA ScopeOfSession ==
  ASSUME IsolationInv, NEW k \in Task, pc[k] \in {"status", "statement"}
  PROVE  /\ setting[conn[k]] = ScopeOf(call[k])
         /\ ScopeOf(call[k]) \in TenantScope
         /\ authority[ScopeOf(call[k]).tenant] \in {None} \cup Row
         /\ pc[k] = "statement" => ScopeOf(call[k]) = call[k].request
<1>0. TypeOK /\ SafeCall(k)
  BY DEF IsolationInv
<1>1. call[k] \in Call /\ Refusal(call[k]) = "none"
  BY <1>0, Typed DEF SafeCall, Admitted, Live, Open
<1>2. setting[conn[k]] = ScopeOf(call[k]) /\ ScopeOf(call[k]) # CellScope
  BY <1>0 DEF SafeCall, ScopeIsSet
<1>3. ScopeOf(call[k]) \in TenantScope
  BY <1>1, <1>2, AdmittedCall
<1>4. ScopeOf(call[k]).tenant \in Tenant
  BY <1>3 DEF TenantScope
<1>5. authority[ScopeOf(call[k]).tenant] \in {None} \cup Row
  BY <1>0, <1>4 DEF TypeOK, Row
<1>6. pc[k] = "statement" => ScopeOf(call[k]) = call[k].request
  BY <1>0 DEF SafeCall, ScopeIsSet, ScopeOf
<1> QED
  BY <1>2, <1>3, <1>5, <1>6

\* The status check lets active scopes pass.
LEMMA CheckStatusStep ==
  ASSUME IsolationInv, NEW k \in Task, CheckStatus(k)
  PROVE  IsolationInv'
<1> DEFINE status == tenant_scope_status(setting[conn[k]])
<1>0. TypeOK /\ SafeCall(k) /\ pc[k] = "status"
  BY DEF IsolationInv, CheckStatus
<1>1. setting[conn[k]] = ScopeOf(call[k]) /\ status \in Errors \cup {"active"}
  BY <1>0, ScopeOfSession, StatusMeaning DEF StatusIsPolicy
<1>2. CASE status # "active"
  <2>1. Rollback(k, status)
    BY <1>2 DEF CheckStatus
  <2>2. status \in Outcomes /\ pc[k] \in Open
    BY <1>0, <1>1, <1>2 DEF Outcomes, Open
  <2> QED
    BY <2>1, <2>2, RollbackStep
<1>3. CASE status = "active"
  <2>1. /\ Goto(k, IF call[k].op = "enqueue" THEN "enqueue" ELSE "statement")
        /\ UNCHANGED <<authority, rows, outbox, call, conn, setting, effect, result, since>>
    BY <1>3 DEF CheckStatus
  <2>2. since[k]
    BY <1>0, <1>1, <1>3 DEF SafeCall, SinceIsHonest, Active, Live, Open
  <2>3. effect[k] = {} /\ effect' \in [Task -> SUBSET Effects] /\ result' \in [Task -> Outcomes]
    BY <1>0, <2>1, Typed DEF SafeCall, EffectsMatchCall
  <2>4. CASE call[k].op = "enqueue"
    BY <1>0, <2>1, <2>2, <2>3, <2>4, ProgressStep
  <2>5. CASE call[k].op # "enqueue"
    BY <1>0, <2>1, <2>2, <2>3, <2>5, ProgressStep
  <2> QED
    BY <2>4, <2>5
<1> QED
  BY <1>2, <1>3

\* The insert runs under the row policy.
LEMMA InsertStep ==
  ASSUME IsolationInv, NEW k \in Task, InsertCanary(k)
  PROVE  IsolationInv'
<1>0. TypeOK /\ SafeCall(k) /\ pc[k] = "statement" /\ call[k].op \in {"write", "write+enqueue"}
  BY DEF IsolationInv, InsertCanary
<1>1. CASE Rollback(k, "Operation")
  BY <1>0, <1>1, RollbackStep DEF Open, Outcomes, Errors
<1>2. CASE /\ effect' = [effect EXCEPT ![k] = {"insert"}]
           /\ Goto(k, IF Sends(call[k]) THEN "enqueue" ELSE "finish")
           /\ UNCHANGED <<authority, rows, outbox, call, conn, setting, result, since>>
  <2>1. /\ effect' \in [Task -> SUBSET Effects] /\ effect'[k] = {"insert"}
        /\ \A j \in Task \ {k} : effect'[j] = effect[j]
    BY <1>0, <1>2, Typed DEF Effects
  <2>2. since[k] /\ result' \in [Task -> Outcomes]
    BY <1>0, <1>2, Typed DEF SafeCall, SinceIsHonest
  <2>3. CASE call[k].op = "write+enqueue"
    BY <1>0, <1>2, <2>1, <2>2, <2>3, ProgressStep DEF Sends
  <2>4. CASE call[k].op = "write"
    BY <1>0, <1>2, <2>1, <2>2, <2>4, ProgressStep DEF Sends
  <2> QED
    BY <1>0, <2>3, <2>4
<1> QED
  BY <1>1, <1>2 DEF InsertCanary

\* Read and update run under the row policy.
LEMMA TouchStep ==
  ASSUME IsolationInv, NEW k \in Task, TouchCanary(k)
  PROVE  IsolationInv'
<1>0. TypeOK /\ SafeCall(k) /\ pc[k] = "statement" /\ call[k].op \in {"read", "update", "delete"}
  BY DEF IsolationInv, TouchCanary
<1>1. Goto(k, "finish") /\ UNCHANGED <<authority, rows, outbox, call, conn, setting, since>>
  BY DEF TouchCanary
<1>2. /\ effect' \in [Task -> SUBSET Effects]
      /\ \A j \in Task \ {k} : effect'[j] = effect[j]
  <2>1. effect' = effect \/ effect' = [effect EXCEPT ![k] = {call[k].op} \ {"read"}]
    BY DEF TouchCanary
  <2>2. {call[k].op} \ {"read"} \in SUBSET Effects
    BY <1>0 DEF Effects
  <2> QED
    BY <1>0, <2>1, <2>2, Typed
<1>3. result' \in [Task -> Outcomes]
  <2>1. Return(k, "ok") \/ Return(k, "false")
    BY DEF TouchCanary
  <2> QED
    BY <1>0, <2>1, Typed DEF Return, Outcomes
<1>4. since[k]
  BY <1>0 DEF SafeCall, SinceIsHonest
<1> QED
  BY <1>0, <1>1, <1>2, <1>3, <1>4, ProgressStep

\* The message joins the effects of its transaction.
LEMMA EnqueueStep ==
  ASSUME IsolationInv, NEW k \in Task, Enqueue(k)
  PROVE  IsolationInv'
<1>0. TypeOK /\ SafeCall(k) /\ pc[k] = "enqueue"
  BY DEF IsolationInv, Enqueue
<1>1. CASE Rollback(k, "Operation")
  BY <1>0, <1>1, RollbackStep DEF Open, Outcomes, Errors
<1>2. CASE /\ effect' = [effect EXCEPT ![k] = @ \cup {"enqueue"}]
           /\ Goto(k, "finish")
           /\ UNCHANGED <<authority, rows, outbox, call, conn, setting, result, since>>
  <2>1. /\ effect' \in [Task -> SUBSET Effects] /\ effect'[k] = effect[k] \cup {"enqueue"}
        /\ \A j \in Task \ {k} : effect'[j] = effect[j]
    BY <1>0, <1>2, Typed DEF Effects
  <2>2. since[k] /\ result' \in [Task -> Outcomes]
    BY <1>0, <1>2, Typed DEF SafeCall, SinceIsHonest
  <2>3. call[k].op = "write+enqueue" => effect'[k] = {"insert", "enqueue"}
    BY <1>0, <2>1 DEF SafeCall, EffectsMatchCall
  <2> QED
    BY <1>0, <1>2, <2>1, <2>2, <2>3, ProgressStep
<1> QED
  BY <1>1, <1>2 DEF Enqueue

\* What a commit writes: the call's own row and message, nobody else's.
LEMMA CommitWrites ==
  ASSUME TypeOK, NEW k \in Task, Commit(k)
  PROVE  /\ rows' \in [Key -> Task \cup {None}]
         /\ outbox' = outbox \/ outbox' = outbox \cup {k}
         /\ \A key \in Key : rows'[key] \in {rows[key], k, None}
  BY DEF TypeOK, Commit

\* A commit applies the effects of its call, once.
LEMMA CommitStep ==
  ASSUME IsolationInv, NEW k \in Task, Commit(k)
  PROVE  IsolationInv'
<1>0. TypeOK /\ SafeCall(k) /\ ConnectionsAreExclusive /\ pc[k] = "finish"
  BY DEF IsolationInv, Commit
<1>1. conn[k] \in Connection /\ EndTransaction(k) /\ UNCHANGED <<authority, call, since>>
  BY <1>0 DEF SafeCall, HoldsConnection, Commit, Open
<1>2. TypeOK'
  <2>1. result' \in [Task -> Outcomes]
    BY <1>0, Typed DEF Commit, Return, Outcomes
  <2>2. outbox' \subseteq Task /\ rows' \in [Key -> Task \cup {None}]
    BY <1>0, CommitWrites DEF TypeOK
  <2> QED
    BY <1>0, <1>1, <2>1, <2>2, EndEffect DEF TypeOK, Points, Outcomes
<1>3. pc'[k] = "done" /\ conn'[k] = None /\ effect'[k] = {}
  BY <1>0, <1>1, EndEffect
<1>4. SafeCall(k)'
  <2>1. since[k] /\ Refusal(call[k]) = "none"
    BY <1>0 DEF SafeCall, SinceIsHonest, Admitted, Live, Open
  <2>2. Admitted(k)' /\ HoldsConnection(k)' /\ ScopeIsSet(k)'
    BY <1>1, <1>3, <2>1 DEF Admitted, HoldsConnection, ScopeIsSet, Live, Open
  <2>3. SinceIsHonest(k)'
    BY <1>1, <2>1 DEF SinceIsHonest
  <2>4. EffectsMatchCall(k)' /\ CommitsOnce(k)'
    BY <1>3 DEF EffectsMatchCall, CommitsOnce
  <2> QED
    BY <2>2, <2>3, <2>4 DEF SafeCall
<1>5. ConnectionsAreExclusive' /\ \A j \in Task \ {k} : Untouched(j)
  <2>1. None \notin Task
    BY IsolationAssumption
  <2>2. \A j \in Task \ {k} : /\ j \in outbox' => j \in outbox
                             /\ \A key \in Key : rows'[key] = j => rows[key] = j
    BY <1>0, <2>1, CommitWrites
  <2> QED
    BY <1>0, <1>1, <2>2, EndEffect DEF Untouched
<1> QED
  BY <1>1, <1>2, <1>4, <1>5, OwnStep

\* The operator's change is the one step that reaches into running calls: who
\* becomes authorized by it is remembered.
LEMMA ChangeAuthorityStep ==
  ASSUME IsolationInv, NEW t \in Reassigned, ChangeAuthority(t)
  PROVE  IsolationInv'
<1>0. TypeOK /\ ConnectionsAreExclusive /\ t \in Tenant
  BY IsolationAssumption DEF IsolationInv
<1>1. UNCHANGED <<rows, outbox, call, pc, conn, setting, effect, result>>
  BY DEF ChangeAuthority
<1>2. PICK a \in {None} \cup Row :
        /\ authority' = [authority EXCEPT ![t] = a]
        /\ since' = [k \in Task |->
             since[k] \/ (/\ pc[k] \notin {"idle", "done"}
                          /\ ScopeOf(call[k]) # CellScope /\ ScopeOf(call[k]).tenant = t
                          /\ a = [epoch |-> ScopeOf(call[k]).epoch, enabled |-> TRUE])]
  BY DEF ChangeAuthority, Row
<1>3. /\ authority' \in [Tenant -> {None} \cup Row]
      /\ authority'[t] = a
      /\ \A u \in Tenant \ {t} : authority'[u] = authority[u]
      /\ authority \in [Tenant -> {None} \cup Row]
  BY <1>0, <1>2 DEF TypeOK, Row
<1>4. /\ since' \in [Task -> BOOLEAN]
      /\ \A k \in Task : since[k] => since'[k]
  BY <1>0, <1>2, Typed
<1>5. TypeOK'
  BY <1>0, <1>1, <1>3, <1>4 DEF TypeOK, Row
<1>6. ASSUME NEW k \in Task PROVE SafeCall(k)'
  <2>0. SafeCall(k)
    BY DEF IsolationInv
  <2>1. Admitted(k)' /\ HoldsConnection(k)' /\ ScopeIsSet(k)' /\ EffectsMatchCall(k)' /\ CommitsOnce(k)'
    BY <1>1, <2>0
       DEF SafeCall, Admitted, HoldsConnection, ScopeIsSet, EffectsMatchCall, CommitsOnce, ScopeOf,
           Refusal, Sends, Writes
  <2>2. ASSUME pc[k] \in Live, ScopeOf(call[k]) = CellScope PROVE since'[k]
    BY <1>4, <2>0, <2>2 DEF SafeCall, SinceIsHonest
  <2>3. ASSUME pc[k] \in Live, ScopeOf(call[k]) # CellScope, Active(ScopeOf(call[k]))'
        PROVE  since'[k]
    <3> DEFINE s == ScopeOf(call[k])
    <3>1. call[k] \in Call /\ Refusal(call[k]) = "none"
      BY <1>0, <2>0, <2>3, Typed DEF SafeCall, Admitted
    <3>2. s \in TenantScope
      BY <2>3, <3>1, AdmittedCall
    <3>3. s.tenant \in Tenant /\ s' = s
      BY <1>1, <3>2 DEF TenantScope, ScopeOf
    <3>4. authority'[s.tenant] = [epoch |-> s.epoch, enabled |-> TRUE]
      <4>1. Active(s)' => authority'[s'.tenant] = [epoch |-> s'.epoch, enabled |-> TRUE]
        BY <1>3, <3>2, <3>3, StatusMeaningNext DEF StatusIsPolicy
      <4> QED
        BY <2>3, <3>3, <4>1
    <3>5. CASE s.tenant = t
      BY <1>2, <1>3, <2>3, <3>4, <3>5 DEF Live, Open
    <3>6. CASE s.tenant # t
      <4>1. authority[s.tenant] = [epoch |-> s.epoch, enabled |-> TRUE]
        BY <1>3, <3>3, <3>4, <3>6
      <4>2. Active(s)
        BY <1>3, <3>2, <3>3, <4>1, StatusMeaning DEF StatusIsPolicy
      <4> QED
        BY <1>4, <2>0, <2>3, <4>2 DEF SafeCall, SinceIsHonest
    <3> QED
      BY <3>5, <3>6
  <2>4. SinceIsHonest(k)'
    <3>1. ScopeOf(call[k])' = ScopeOf(call[k])
      BY <1>1 DEF ScopeOf
    <3>2. pc'[k] \in {"statement", "enqueue", "finish"} => since'[k]
      BY <1>1, <1>4, <2>0 DEF SafeCall, SinceIsHonest
    <3>3. k \in outbox' \/ (\E key \in Key : rows'[key] = k) => since'[k]
      BY <1>1, <1>4, <2>0 DEF SafeCall, SinceIsHonest
    <3> QED
      BY <1>1, <2>2, <2>3, <3>1, <3>2, <3>3 DEF SinceIsHonest
  <2> QED
    BY <2>1, <2>4 DEF SafeCall
<1> QED
  BY <1>0, <1>1, <1>5, <1>6 DEF IsolationInv, ConnectionsAreExclusive

\* Every step keeps the invariant.
LEMMA IsolationStep ==
  ASSUME IsolationInv, [Next]_vars
  PROVE  IsolationInv'
<1>1. ASSUME NEW k \in Task, CommitFails(k) PROVE IsolationInv'
  BY <1>1, RollbackStep DEF CommitFails, Open, Outcomes
<1>2. ASSUME NEW k \in Task, StatementFails(k) PROVE IsolationInv'
  BY <1>2, RollbackStep DEF StatementFails, Open, Outcomes, Errors
<1>3. ASSUME UNCHANGED vars PROVE IsolationInv'
  <2>1. TypeOK' /\ ConnectionsAreExclusive'
    BY <1>3 DEF IsolationInv, TypeOK, ConnectionsAreExclusive, vars
  <2>2. ASSUME NEW k \in Task PROVE SafeCall(k)'
    BY <1>3, <2>2, Frame DEF IsolationInv, Untouched, vars
  <2> QED
    BY <2>1, <2>2 DEF IsolationInv
<1> QED
  BY <1>1, <1>2, <1>3, StartStep, BeginStep, SetScopeStep, CheckStatusStep, InsertStep, TouchStep,
     EnqueueStep, CommitStep, ChangeAuthorityStep DEF Next, Step

\* The invariant holds through every interleaving of the calls' statements,
\* failures and authority changes.
THEOREM IsolationInvariant == Spec => []IsolationInv
<1>1. ASSUME Init PROVE IsolationInv
  <2>1. TypeOK
    <3>1. authority \in [Tenant -> {None} \cup [epoch : Epoch, enabled : BOOLEAN]]
      <4>1. 1 \in Epoch
        BY IsolationAssumption DEF Epoch
      <4>2. [epoch : {1}, enabled : {TRUE}] \subseteq [epoch : Epoch, enabled : BOOLEAN]
        BY <4>1
      <4>3. authority \in [Tenant -> {None} \cup [epoch : {1}, enabled : {TRUE}]]
        BY <1>1 DEF Init
      <4> QED
        BY <4>2, <4>3
    <3> QED
      BY <1>1, <3>1 DEF Init, TypeOK
  <2>2. ConnectionsAreExclusive
    BY <1>1 DEF Init, ConnectionsAreExclusive
  <2>3. ASSUME NEW k \in Task PROVE SafeCall(k)
    BY <1>1, IsolationAssumption
       DEF Init, SafeCall, Admitted, HoldsConnection, ScopeIsSet, SinceIsHonest, EffectsMatchCall,
           CommitsOnce, Live, Open
  <2> QED
    BY <2>1, <2>2, <2>3 DEF IsolationInv
<1> QED
  BY <1>1, IsolationStep, PTL DEF Spec

\* What a call committed was authorized at some moment after the call began.
THEOREM CommittedWorkAuthorized == Spec => []CommittedWorkWasAuthorized
<1>1. IsolationInv => CommittedWorkWasAuthorized
  BY DEF IsolationInv, SafeCall, SinceIsHonest, CommittedWorkWasAuthorized
<1> QED
  BY <1>1, IsolationInvariant, PTL

\* The statements that touch a canary run only under the call's own scope and
\* only while the authority row serves it: pooled connections carry no scope
\* over, and a revocation stops the next statement.
THEOREM StatementsAreFenced == Spec => TouchedOnlyWhileAuthorized
<1> DEFINE Touches == {"insert", "update", "delete"}
           Fenced(k) == /\ Active(call[k].request)
                        /\ setting[conn[k]] = call[k].request
           Property == \A k \in Task : effect'[k] \cap Touches # {} /\ effect[k] = {} => Fenced(k)
<1>1. IsolationInv /\ [Next]_vars => [Property]_vars
  <2> SUFFICES ASSUME IsolationInv, [Next]_vars, NEW k \in Task,
                      effect'[k] \cap Touches # {}, effect[k] = {}
               PROVE  Fenced(k)
    OBVIOUS
  <2>0. TypeOK /\ effect \in [Task -> SUBSET Effects]
    BY Typed DEF IsolationInv
  <2>1. ASSUME pc[k] = "statement", tenant_is_authorized(setting[conn[k]], call[k].request.tenant)
        PROVE  Fenced(k)
    <3>1. /\ setting[conn[k]] = call[k].request
          /\ call[k].request \in TenantScope
          /\ authority[call[k].request.tenant] \in {None} \cup Row
      BY <2>1, ScopeOfSession
    <3>2. authority[call[k].request.tenant] = [epoch |-> call[k].request.epoch, enabled |-> TRUE]
      BY <2>1, <3>1 DEF tenant_is_authorized
    <3>3. Active(call[k].request)
      BY <3>1, <3>2, StatusMeaning DEF StatusIsPolicy
    <3> QED
      BY <3>1, <3>3
  <2>2. ASSUME NEW j \in Task, EndTransaction(j) PROVE FALSE
    BY <2>0, <2>2 DEF EndTransaction
  <2>3. ASSUME UNCHANGED effect PROVE FALSE
    BY <2>3
  <2>4. ASSUME NEW j \in Task, InsertCanary(j) PROVE Fenced(k)
    BY <2>0, <2>1, <2>2, <2>4 DEF InsertCanary, Rollback
  <2>5. ASSUME NEW j \in Task, TouchCanary(j) PROVE Fenced(k)
    BY <2>0, <2>1, <2>3, <2>5 DEF TouchCanary
  <2>6. ASSUME NEW j \in Task, Enqueue(j) PROVE FALSE
    BY <2>0, <2>2, <2>6 DEF Enqueue, Rollback
  <2>7. ASSUME NEW j \in Task,
               Commit(j) \/ CommitFails(j) \/ StatementFails(j) \/ CheckStatus(j)
        PROVE  FALSE
    BY <2>2, <2>3, <2>7 DEF Commit, CommitFails, StatementFails, CheckStatus, Rollback
  <2>8. ASSUME NEW j \in Task, Start(j) \/ Begin(j) \/ SetScope(j) PROVE FALSE
    BY <2>3, <2>8 DEF Start, Begin, SetScope
  <2>9. ASSUME NEW t \in Reassigned, ChangeAuthority(t) PROVE FALSE
    BY <2>3, <2>9 DEF ChangeAuthority
  <2> QED
    BY <2>3, <2>4, <2>5, <2>6, <2>7, <2>8, <2>9 DEF Next, Step, vars
<1> QED
  BY <1>1, IsolationInvariant, PTL DEF Spec, TouchedOnlyWhileAuthorized

\* The canary and the message of one call commit in one step, or neither does,
\* and the message speaks for the canary's tenant.
THEOREM CanaryWithMessage == Spec => CanaryAndMessageTogether
<1> DEFINE Together(k) ==
      /\ k \in outbox' \ outbox <=> (\E key \in Key : rows[key] # k /\ rows'[key] = k)
      /\ k \in outbox' => call[k].message.tenant = call[k].request.tenant
    Property == \A k \in Task : call[k].op = "write+enqueue" => Together(k)
<1>1. IsolationInv /\ [Next]_vars => [Property]_vars
  <2> SUFFICES ASSUME IsolationInv, [Next]_vars, NEW k \in Task, call[k].op = "write+enqueue"
               PROVE  Together(k)
    OBVIOUS
  <2>0. TypeOK /\ SafeCall(k) /\ call[k] \in Call /\ None \notin Task
    BY Typed DEF IsolationInv
  <2>1. k \in outbox \/ pc[k] \in Live =>
          /\ call[k].message = call[k].request
          /\ call[k].request \in TenantScope
    BY <2>0, AdmittedCall DEF SafeCall, Admitted
  <2>2. ASSUME UNCHANGED <<rows, outbox>> PROVE Together(k)
    BY <2>1, <2>2
  <2>3. ASSUME NEW j \in Task, Commit(j), j # k PROVE Together(k)
    BY <2>0, <2>1, <2>3, CommitWrites
  <2>4. ASSUME Commit(k) PROVE Together(k)
    <3>1. pc[k] = "finish" /\ pc[k] \in Live /\ effect[k] = {"insert", "enqueue"}
      BY <2>0, <2>4 DEF SafeCall, EffectsMatchCall, Commit, Live, Open
    <3>2. k \notin outbox /\ \A key \in Key : rows[key] # k
      BY <2>0, <3>1 DEF SafeCall, CommitsOnce
    <3>3. KeyOf(call[k]) \in Key
      BY <2>0, <2>1, <3>1 DEF KeyOf, Key, TenantScope, Call
    <3>4. rows' = [rows EXCEPT ![KeyOf(call[k])] = k] /\ outbox' = outbox \cup {k}
      BY <2>4, <3>1 DEF Commit
    <3>5. rows'[KeyOf(call[k])] = k
      BY <2>0, <3>3, <3>4 DEF TypeOK
    <3> QED
      BY <2>1, <3>1, <3>2, <3>3, <3>4, <3>5
  <2>5. ASSUME NEW j \in Task,
               \/ Start(j) \/ Begin(j) \/ SetScope(j) \/ CheckStatus(j) \/ InsertCanary(j)
               \/ TouchCanary(j) \/ Enqueue(j) \/ CommitFails(j) \/ StatementFails(j)
        PROVE  UNCHANGED <<rows, outbox>>
    BY <2>5 DEF Start, Begin, SetScope, CheckStatus, InsertCanary, TouchCanary, Enqueue,
                CommitFails, StatementFails, Rollback
  <2>6. ASSUME NEW t \in Reassigned, ChangeAuthority(t) PROVE UNCHANGED <<rows, outbox>>
    BY <2>6 DEF ChangeAuthority
  <2> QED
    BY <2>2, <2>3, <2>4, <2>5, <2>6 DEF Next, Step, vars
<1> QED
  BY <1>1, IsolationInvariant, PTL DEF Spec, CanaryAndMessageTogether
=============================================================================
