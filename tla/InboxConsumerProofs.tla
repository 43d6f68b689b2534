------------------------ MODULE InboxConsumerProofs ------------------------
(***************************************************************************)
(* The inbox's safety for every number of records, identities, bodies and  *)
(* workers, every batch size and concurrency, fenced or not.               *)
(***************************************************************************)
EXTENDS InboxConsumer, TLAPS

\* Tasks that hold neither a transaction's outcome nor a claim on a receipt.
Harmless == {"none", "queued", "fenced", "rejected"}

\* One delivery moves and no other.
LEMMA GotoEffect ==
  ASSUME TypeOK, NEW w \in Worker, NEW e \in Entry, NEW s \in TaskState, Goto(w, e, s)
  PROVE  /\ task' \in [Worker -> [Entry -> TaskState]]
         /\ \A v \in Worker, f \in Entry :
              task'[v][f] = IF v = w /\ f = e THEN s ELSE task[v][f]
<1>1. task \in [Worker -> [Entry -> TaskState]]
  BY DEF TypeOK
<1> QED
  BY <1>1 DEF Goto

\* A process that ends drops every delivery it holds.
LEMMA StopEffect ==
  ASSUME TypeOK, NEW w \in Worker, Stop(w)
  PROVE  /\ task' \in [Worker -> [Entry -> TaskState]]
         /\ up' \subseteq Worker
         /\ \A v \in Worker, f \in Entry : task'[v][f] \in {task[v][f], "none"}
  BY DEF TypeOK, Stop, TaskState

\* A fetch queues the deliveries of its batch and changes no other task.
LEMMA FetchEffect ==
  ASSUME TypeOK, NEW w \in Worker, NEW B \in SUBSET Entry, Fetch(w, B)
  PROVE  /\ stream' \in [Entry -> {"absent", "ready", "pending", "acked"}]
         /\ task' \in [Worker -> [Entry -> TaskState]]
         /\ up' \subseteq Worker
         /\ \A v \in Worker, f \in Entry : task'[v][f] \in {task[v][f]} \cup Harmless
         /\ \A f \in Entry : stream'[f] = "acked" => stream[f] = "acked"
<1>1. /\ stream' \in [Entry -> {"absent", "ready", "pending", "acked"}]
      /\ \A f \in Entry : stream'[f] = "acked" => stream[f] = "acked"
  BY DEF TypeOK, Fetch
<1>2. CASE /\ task' = [task EXCEPT ![w] = [e \in Entry |-> IF e \in B THEN "queued" ELSE "none"]]
           /\ UNCHANGED up
  BY <1>1, <1>2 DEF TypeOK, TaskState, Harmless
<1>3. CASE Stop(w)
  BY <1>1, <1>3, StopEffect DEF Harmless
<1>4. CASE UNCHANGED <<task, up>>
  BY <1>1, <1>4 DEF TypeOK
<1> QED
  BY <1>2, <1>3, <1>4 DEF Fetch

\* A commit writes the receipt and the derived row of one identity, or nothing.
LEMMA AppliedEffect ==
  ASSUME TypeOK, NEW w \in Worker, NEW e \in Entry, Applied(w, e)
  PROVE  /\ receipt' \in [MessageId -> Body \cup {NoBody}]
         /\ derived' \in [MessageId -> Nat]
         /\ task[w][e] # "inserted" => UNCHANGED <<receipt, derived>>
         /\ task[w][e] = "inserted" =>
              \A i \in MessageId :
                /\ receipt'[i] = IF i = IdOf(e) THEN BodyOf(e) ELSE receipt[i]
                /\ derived'[i] = IF i = IdOf(e) /\ i \in Commands THEN derived[i] + 1 ELSE derived[i]
<1>1. IdOf(e) \in MessageId /\ BodyOf(e) \in Body
  BY InboxAssumption
<1>2. CASE task[w][e] = "inserted"
  BY <1>1, <1>2 DEF TypeOK, Applied
<1>3. CASE task[w][e] # "inserted"
  BY <1>3 DEF TypeOK, Applied
<1> QED
  BY <1>2, <1>3

----------------------------------------------------------------------------
(* Types.                                                                  *)

\* Every step keeps the types.
LEMMA TypeStep ==
  ASSUME TypeOK, [Next]_vars
  PROVE  TypeOK'
<1> USE DEF dbVars
<1>0. {"none", "queued", "fenced", "inserted", "duplicate", "committed", "rejected"} = TaskState
  BY DEF TaskState
<1>1. ASSUME NEW e \in Entry, Store(e) \/ Redeliver(e) PROVE TypeOK'
  BY <1>1 DEF TypeOK, Store, Redeliver
<1>2. ASSUME NEW w \in Worker, NEW B \in SUBSET Entry, Fetch(w, B) PROVE TypeOK'
  BY <1>2, FetchEffect DEF TypeOK, Fetch
<1>3. ASSUME NEW w \in Worker, NEW e \in Entry, Begin(w, e) PROVE TypeOK'
  <2>1. Goto(w, e, "fenced") \/ Goto(w, e, "rejected")
    BY <1>3 DEF Begin
  <2>2. task' \in [Worker -> [Entry -> TaskState]]
    BY <1>0, <2>1, GotoEffect
  <2> QED
    BY <1>3, <2>2 DEF TypeOK, Begin
<1>4. ASSUME NEW w \in Worker, NEW e \in Entry, RecordInbox(w, e) PROVE TypeOK'
  <2>1. \/ (Goto(w, e, "inserted") \/ Goto(w, e, "duplicate")) /\ UNCHANGED up
        \/ Stop(w)
    BY <1>4 DEF RecordInbox
  <2>2. task' \in [Worker -> [Entry -> TaskState]] /\ up' \subseteq Worker
    BY <1>0, <2>1, GotoEffect, StopEffect DEF TypeOK
  <2> QED
    BY <1>4, <2>2 DEF TypeOK, RecordInbox
<1>5. ASSUME NEW w \in Worker, NEW e \in Entry, Commit(w, e) PROVE TypeOK'
  <2>1. task' \in [Worker -> [Entry -> TaskState]]
    BY <1>0, <1>5, GotoEffect DEF Commit
  <2> QED
    BY <1>5, <2>1, AppliedEffect DEF TypeOK, Commit
<1>6. ASSUME NEW w \in Worker, NEW e \in Entry, DatabaseFails(w, e) PROVE TypeOK'
  <2>1. task' \in [Worker -> [Entry -> TaskState]]
    BY <1>0, <1>6, GotoEffect DEF DatabaseFails
  <2>2. receipt' \in [MessageId -> Body \cup {NoBody}] /\ derived' \in [MessageId -> Nat]
    BY <1>6, AppliedEffect DEF TypeOK, DatabaseFails
  <2> QED
    BY <1>6, <2>1, <2>2 DEF TypeOK, DatabaseFails
<1>7. ASSUME NEW w \in Worker, NEW e \in Entry,
             HandlerTimeout(w, e) \/ Acknowledge(w, e) \/ Reject(w, e)
      PROVE  TypeOK'
  <2>1. task' \in [Worker -> [Entry -> TaskState]]
    BY <1>0, <1>7, GotoEffect DEF HandlerTimeout, Acknowledge, Reject
  <2>2. stream' \in [Entry -> {"absent", "ready", "pending", "acked"}]
    BY <1>7 DEF TypeOK, HandlerTimeout, Acknowledge, Reject
  <2> QED
    BY <1>7, <2>1, <2>2 DEF TypeOK, HandlerTimeout, Acknowledge, Reject
<1>8. ASSUME NEW w \in Worker, Crash(w) \/ Restart(w) PROVE TypeOK'
  BY <1>8, StopEffect DEF TypeOK, Crash, Restart
<1>9. ASSUME ChangeTenant PROVE TypeOK'
  BY <1>9 DEF TypeOK, ChangeTenant
<1>10. ASSUME Settle \/ UNCHANGED vars PROVE TypeOK'
  BY <1>10 DEF TypeOK, Settle, vars
<1> QED
  BY <1>1, <1>2, <1>3, <1>4, <1>5, <1>6, <1>7, <1>8, <1>9, <1>10 DEF Next, Handle

\* Every reachable state of the consumer, its durable and the inbox is well
\* typed, whatever times out, conflicts, crashes or is redelivered.
THEOREM InboxTypeCorrect == Spec => []TypeOK
<1>1. ASSUME Init PROVE TypeOK
  BY <1>1 DEF Init, TypeOK, TaskState
<1> QED
  BY <1>1, TypeStep, PTL DEF Spec

----------------------------------------------------------------------------
(* The inductive invariant.  AckedImpliesReceipt and OneEffectPerReceipt   *)
(* speak of committed state only; what keeps them true is what the open    *)
(* transactions know while other deliveries of the same message commit.    *)

\* At most one open transaction has inserted the receipt of an identity.
KeyIsExclusive ==
  \A v, w \in Worker : \A e, f \in Entry :
    task[v][e] = "inserted" /\ task[w][f] = "inserted" /\ IdOf(e) = IdOf(f) => v = w /\ e = f

\* An inserted receipt is still the first one when it commits.
InsertedIsFirst ==
  \A w \in Worker, e \in Entry : task[w][e] = "inserted" => receipt[IdOf(e)] = NoBody

\* A delivery that is about to be acknowledged has its own body in the inbox.
DoneIsReceived ==
  \A w \in Worker, e \in Entry :
    task[w][e] \in {"duplicate", "committed"} => receipt[IdOf(e)] = BodyOf(e)

SafetyInv ==
  /\ TypeOK
  /\ KeyIsExclusive
  /\ InsertedIsFirst
  /\ DoneIsReceived
  /\ AckedImpliesReceipt
  /\ OneEffectPerReceipt

\* A step that commits nothing, acknowledges nothing and only moves deliveries
\* to harmless states keeps the invariant.
LEMMA HarmlessStep ==
  ASSUME SafetyInv, TypeOK', UNCHANGED <<receipt, derived>>,
         \A v \in Worker, f \in Entry : task'[v][f] \in {task[v][f]} \cup Harmless,
         \A f \in Entry : stream'[f] = "acked" => stream[f] = "acked"
  PROVE  SafetyInv'
<1>1. KeyIsExclusive'
  BY DEF SafetyInv, KeyIsExclusive, Harmless
<1>2. InsertedIsFirst'
  BY DEF SafetyInv, InsertedIsFirst, Harmless
<1>3. DoneIsReceived'
  BY DEF SafetyInv, DoneIsReceived, Harmless
<1>4. AckedImpliesReceipt'
  BY DEF SafetyInv, AckedImpliesReceipt, Acked
<1>5. OneEffectPerReceipt'
  BY DEF SafetyInv, OneEffectPerReceipt
<1> QED
  BY <1>1, <1>2, <1>3, <1>4, <1>5 DEF SafetyInv

\* The commit of delivery (w, e), confirmed or not.
LEMMA CommitStep ==
  ASSUME SafetyInv, TypeOK', NEW w \in Worker, NEW e \in Entry, Applied(w, e),
         NEW s \in {"committed", "rejected"}, Goto(w, e, s), UNCHANGED stream,
         s = "committed" => task[w][e] \in {"inserted", "duplicate"}
  PROVE  SafetyInv'
<1>0. TypeOK /\ s \in TaskState
  BY DEF SafetyInv, TaskState
<1>1. \A v \in Worker, f \in Entry : task'[v][f] = IF v = w /\ f = e THEN s ELSE task[v][f]
  BY <1>0, GotoEffect
<1>2. CASE task[w][e] = "inserted"
  <2>1. \A i \in MessageId :
          /\ receipt'[i] = IF i = IdOf(e) THEN BodyOf(e) ELSE receipt[i]
          /\ derived'[i] = IF i = IdOf(e) /\ i \in Commands THEN derived[i] + 1 ELSE derived[i]
    BY <1>0, <1>2, AppliedEffect
  <2>2. receipt[IdOf(e)] = NoBody /\ BodyOf(e) # NoBody /\ IdOf(e) \in MessageId
    BY <1>2, InboxAssumption DEF SafetyInv, InsertedIsFirst
  <2>3. \A f \in Entry : IdOf(f) \in MessageId /\ BodyOf(f) # NoBody
    BY InboxAssumption
  <2>4. KeyIsExclusive'
    BY <1>1 DEF SafetyInv, KeyIsExclusive
  <2>5. InsertedIsFirst'
    BY <1>1, <1>2, <2>1, <2>3 DEF SafetyInv, InsertedIsFirst, KeyIsExclusive
  <2>6. DoneIsReceived'
    BY <1>1, <2>1, <2>2, <2>3 DEF SafetyInv, DoneIsReceived
  <2>7. AckedImpliesReceipt'
    BY <2>1, <2>2, <2>3 DEF SafetyInv, AckedImpliesReceipt, Acked
  <2>8. OneEffectPerReceipt'
    BY <2>1, <2>2 DEF SafetyInv, OneEffectPerReceipt
  <2> QED
    BY <2>4, <2>5, <2>6, <2>7, <2>8 DEF SafetyInv
<1>3. CASE task[w][e] # "inserted"
  <2>1. UNCHANGED <<receipt, derived>>
    BY <1>0, <1>3, AppliedEffect
  <2>2. KeyIsExclusive' /\ InsertedIsFirst'
    BY <1>1, <2>1 DEF SafetyInv, KeyIsExclusive, InsertedIsFirst
  <2>3. DoneIsReceived'
    BY <1>1, <1>3, <2>1 DEF SafetyInv, DoneIsReceived
  <2>4. AckedImpliesReceipt' /\ OneEffectPerReceipt'
    BY <2>1 DEF SafetyInv, AckedImpliesReceipt, Acked, OneEffectPerReceipt
  <2> QED
    BY <2>2, <2>3, <2>4 DEF SafetyInv
<1> QED
  BY <1>2, <1>3

\* Every step keeps the safety invariant.
LEMMA SafetyStep ==
  ASSUME SafetyInv, [Next]_vars
  PROVE  SafetyInv'
<1> USE DEF dbVars
<1>0. TypeOK /\ TypeOK'
  BY TypeStep DEF SafetyInv
<1>1. ASSUME NEW e \in Entry, Store(e) \/ Redeliver(e) PROVE SafetyInv'
  BY <1>0, <1>1, HarmlessStep DEF Store, Redeliver, TypeOK
<1>2. ASSUME NEW w \in Worker, NEW B \in SUBSET Entry, Fetch(w, B) PROVE SafetyInv'
  BY <1>0, <1>2, FetchEffect, HarmlessStep DEF Fetch
<1>3. ASSUME NEW w \in Worker, NEW e \in Entry, Begin(w, e) PROVE SafetyInv'
  <2>1. \A v \in Worker, f \in Entry : task'[v][f] \in {task[v][f]} \cup Harmless
    <3>1. Goto(w, e, "fenced") \/ Goto(w, e, "rejected")
      BY <1>3 DEF Begin
    <3> QED
      BY <1>0, <3>1, GotoEffect DEF TaskState, Harmless
  <2> QED
    BY <1>0, <1>3, <2>1, HarmlessStep DEF Begin
<1>4. ASSUME NEW w \in Worker, NEW e \in Entry, RecordInbox(w, e) PROVE SafetyInv'
  <2>1. CASE Stop(w)
    BY <1>0, <1>4, <2>1, StopEffect, HarmlessStep DEF RecordInbox, Harmless
  <2>2. CASE receipt[IdOf(e)] = NoBody /\ Goto(w, e, "inserted")
    <3>1. \A v \in Worker, f \in Entry :
            task'[v][f] = IF v = w /\ f = e THEN "inserted" ELSE task[v][f]
      BY <1>0, <2>2, GotoEffect DEF TaskState
    <3>2. KeyIsExclusive'
      BY <1>4, <3>1 DEF SafetyInv, KeyIsExclusive, RecordInbox, KeyUnlocked
    <3>3. InsertedIsFirst' /\ DoneIsReceived'
      BY <1>4, <2>2, <3>1 DEF SafetyInv, InsertedIsFirst, DoneIsReceived, RecordInbox
    <3>4. AckedImpliesReceipt' /\ OneEffectPerReceipt'
      BY <1>4 DEF SafetyInv, AckedImpliesReceipt, Acked, OneEffectPerReceipt, RecordInbox
    <3> QED
      BY <1>0, <3>2, <3>3, <3>4 DEF SafetyInv
  <2>3. CASE receipt[IdOf(e)] = BodyOf(e) /\ Goto(w, e, "duplicate")
    <3>1. \A v \in Worker, f \in Entry :
            task'[v][f] = IF v = w /\ f = e THEN "duplicate" ELSE task[v][f]
      BY <1>0, <2>3, GotoEffect DEF TaskState
    <3>2. KeyIsExclusive' /\ InsertedIsFirst' /\ DoneIsReceived'
      BY <1>4, <2>3, <3>1
         DEF SafetyInv, KeyIsExclusive, InsertedIsFirst, DoneIsReceived, RecordInbox
    <3>3. AckedImpliesReceipt' /\ OneEffectPerReceipt'
      BY <1>4 DEF SafetyInv, AckedImpliesReceipt, Acked, OneEffectPerReceipt, RecordInbox
    <3> QED
      BY <1>0, <3>2, <3>3 DEF SafetyInv
  <2> QED
    BY <1>4, <2>1, <2>2, <2>3 DEF RecordInbox
<1>5. ASSUME NEW w \in Worker, NEW e \in Entry, Commit(w, e) PROVE SafetyInv'
  BY <1>0, <1>5, CommitStep DEF Commit
<1>6. ASSUME NEW w \in Worker, NEW e \in Entry, DatabaseFails(w, e) PROVE SafetyInv'
  <2>1. CASE Applied(w, e)
    BY <1>0, <1>6, <2>1, CommitStep DEF DatabaseFails
  <2>2. CASE UNCHANGED <<receipt, derived>>
    <3>1. \A v \in Worker, f \in Entry : task'[v][f] \in {task[v][f]} \cup Harmless
      BY <1>0, <1>6, GotoEffect DEF DatabaseFails, TaskState, Harmless
    <3> QED
      BY <1>0, <1>6, <2>2, <3>1, HarmlessStep DEF DatabaseFails
  <2> QED
    BY <1>6, <2>1, <2>2 DEF DatabaseFails
<1>7. ASSUME NEW w \in Worker, NEW e \in Entry, HandlerTimeout(w, e) \/ Reject(w, e)
      PROVE  SafetyInv'
  <2>1. \A v \in Worker, f \in Entry : task'[v][f] \in {task[v][f]} \cup Harmless
    BY <1>0, <1>7, GotoEffect DEF HandlerTimeout, Reject, TaskState, Harmless
  <2>2. \A f \in Entry : stream'[f] = "acked" => stream[f] = "acked"
    BY <1>0, <1>7 DEF HandlerTimeout, Reject, TypeOK
  <2> QED
    BY <1>0, <1>7, <2>1, <2>2, HarmlessStep DEF HandlerTimeout, Reject
<1>8. ASSUME NEW w \in Worker, NEW e \in Entry, Acknowledge(w, e) PROVE SafetyInv'
  <2>1. \A v \in Worker, f \in Entry : task'[v][f] \in {task[v][f], "none"}
    BY <1>0, <1>8, GotoEffect DEF Acknowledge, TaskState
  <2>2. KeyIsExclusive' /\ InsertedIsFirst' /\ DoneIsReceived'
    BY <1>8, <2>1
       DEF SafetyInv, KeyIsExclusive, InsertedIsFirst, DoneIsReceived, Acknowledge
  <2>3. AckedImpliesReceipt'
    <3>1. receipt[IdOf(e)] = BodyOf(e)
      BY <1>8 DEF SafetyInv, DoneIsReceived, Acknowledge
    <3>2. \A f \in Entry : stream'[f] = "acked" => stream[f] = "acked" \/ f = e
      BY <1>0, <1>8 DEF Acknowledge, TypeOK
    <3> QED
      BY <1>8, <3>1, <3>2 DEF SafetyInv, AckedImpliesReceipt, Acked, Acknowledge
  <2>4. OneEffectPerReceipt'
    BY <1>8 DEF SafetyInv, OneEffectPerReceipt, Acknowledge
  <2> QED
    BY <1>0, <2>2, <2>3, <2>4 DEF SafetyInv
<1>9. ASSUME NEW w \in Worker, Crash(w) \/ Restart(w) PROVE SafetyInv'
  BY <1>0, <1>9, StopEffect, HarmlessStep DEF Crash, Restart, Harmless
<1>10. ASSUME ChangeTenant \/ Settle \/ UNCHANGED vars PROVE SafetyInv'
  BY <1>0, <1>10, HarmlessStep DEF ChangeTenant, Settle, vars
<1> QED
  BY <1>1, <1>2, <1>3, <1>4, <1>5, <1>6, <1>7, <1>8, <1>9, <1>10 DEF Next, Handle

\* The invariant holds in every reachable state of the consumer.
THEOREM SafetyInvariant == Spec => []SafetyInv
<1>1. Init => SafetyInv
  <2> SUFFICES ASSUME Init PROVE SafetyInv
    OBVIOUS
  <2>1. TypeOK
    BY DEF Init, TypeOK, TaskState
  <2>2. KeyIsExclusive /\ InsertedIsFirst /\ DoneIsReceived
    BY DEF Init, KeyIsExclusive, InsertedIsFirst, DoneIsReceived
  <2>3. AckedImpliesReceipt /\ OneEffectPerReceipt
    BY DEF Init, AckedImpliesReceipt, Acked, OneEffectPerReceipt
  <2> QED
    BY <2>1, <2>2, <2>3 DEF SafetyInv
<1> QED
  BY <1>1, SafetyStep, PTL DEF Spec

\* Inbox commit precedes broker acknowledgment: no acknowledged record is lost
\* to a rollback, a handler timeout, a conflict or a crash.
THEOREM AcknowledgedIsHandled == Spec => []AckedImpliesReceipt
<1>1. SafetyInv => AckedImpliesReceipt
  BY DEF SafetyInv
<1> QED
  BY <1>1, SafetyInvariant, PTL

\* Receipt and derived message commit together and exactly once per identity,
\* however often a message is delivered and however many workers handle it.
THEOREM ExactlyOneEffect == Spec => []OneEffectPerReceipt
<1>1. SafetyInv => OneEffectPerReceipt
  BY DEF SafetyInv
<1> QED
  BY <1>1, SafetyInvariant, PTL

----------------------------------------------------------------------------
(* Refinement: a commit handles, a confirmed acknowledgment acknowledges,  *)
(* and every other step is invisible.                                      *)

\* The commit of a delivery is the abstract handler, or repeats nothing.
LEMMA CommitRefines ==
  ASSUME SafetyInv, NEW w \in Worker, NEW e \in Entry, Applied(w, e), UNCHANGED stream
  PROVE  Abstract!Handle(e) \/ UNCHANGED <<receipt, derived, Acked>>
<1>0. TypeOK /\ UNCHANGED Acked
  BY DEF SafetyInv, Acked
<1>1. CASE task[w][e] = "inserted"
  <2>1. IdOf(e) \in MessageId /\ receipt[IdOf(e)] = NoBody
    BY <1>1, InboxAssumption DEF SafetyInv, InsertedIsFirst
  <2>2. derived[IdOf(e)] = 0
    BY <2>1 DEF SafetyInv, OneEffectPerReceipt
  <2>3. /\ receipt' = [receipt EXCEPT ![IdOf(e)] = BodyOf(e)]
        /\ derived' = [derived EXCEPT ![IdOf(e)] = IF IdOf(e) \in Commands THEN 1 ELSE 0]
    BY <1>0, <1>1, <2>1, <2>2 DEF Applied, TypeOK
  <2> QED
    BY <1>0, <2>1, <2>3 DEF Abstract!Handle
<1>2. CASE task[w][e] # "inserted"
  BY <1>0, <1>2 DEF Applied
<1> QED
  BY <1>1, <1>2

\* The consumer implements the idempotent inbox: one effect per identity, with
\* the first body, durable before the broker may forget the record.
THEOREM ImplementsIdempotentInbox == Spec => ImplementsInbox
<1> USE DEF dbVars
<1>1. Init => Abstract!Init
  BY DEF Init, Abstract!Init, Acked
<1>2. SafetyInv /\ [Next]_vars => [Abstract!Next]_(Abstract!vars)
  <2> SUFFICES ASSUME SafetyInv, [Next]_vars
               PROVE  Abstract!Next \/ UNCHANGED <<receipt, derived, Acked>>
    BY DEF Abstract!vars
  <2>0. TypeOK
    BY DEF SafetyInv
  <2>1. ASSUME \A f \in Entry : stream'[f] = "acked" <=> stream[f] = "acked" PROVE UNCHANGED Acked
    BY <2>1 DEF Acked
  <2>2. ASSUME NEW w \in Worker, NEW e \in Entry, Commit(w, e) \/ DatabaseFails(w, e)
        PROVE  Abstract!Handle(e) \/ UNCHANGED <<receipt, derived, Acked>>
    BY <2>1, <2>2, CommitRefines DEF Commit, DatabaseFails
  <2>3. ASSUME NEW w \in Worker, NEW e \in Entry, Acknowledge(w, e)
        PROVE  Abstract!Acknowledge(e) \/ UNCHANGED <<receipt, derived, Acked>>
    <3>1. CASE stream' = [stream EXCEPT ![e] = "acked"]
      <4>1. Acked' = Acked \cup {e}
        BY <2>0, <3>1 DEF Acked, TypeOK
      <4>2. receipt[IdOf(e)] = BodyOf(e) /\ UNCHANGED <<receipt, derived>>
        BY <2>3 DEF SafetyInv, DoneIsReceived, Acknowledge
      <4> QED
        BY <4>1, <4>2 DEF Abstract!Acknowledge
    <3>2. CASE UNCHANGED stream
      BY <2>1, <2>3, <3>2 DEF Acknowledge
    <3> QED
      BY <2>3, <3>1, <3>2 DEF Acknowledge
  <2>4. ASSUME NEW e \in Entry, Store(e) \/ Redeliver(e) PROVE UNCHANGED <<receipt, derived, Acked>>
    BY <2>0, <2>1, <2>4 DEF Store, Redeliver, TypeOK
  <2>5. ASSUME NEW w \in Worker, NEW B \in SUBSET Entry, Fetch(w, B)
        PROVE  UNCHANGED <<receipt, derived, Acked>>
    BY <2>0, <2>1, <2>5 DEF Fetch, TypeOK
  <2>6. ASSUME NEW w \in Worker, NEW e \in Entry,
               Begin(w, e) \/ RecordInbox(w, e) \/ HandlerTimeout(w, e)
        PROVE  UNCHANGED <<receipt, derived, Acked>>
    BY <2>1, <2>6 DEF Begin, RecordInbox, HandlerTimeout
  <2>7. ASSUME NEW w \in Worker, NEW e \in Entry, Reject(w, e)
        PROVE  UNCHANGED <<receipt, derived, Acked>>
    BY <2>0, <2>1, <2>7 DEF Reject, TypeOK
  <2>8. ASSUME NEW w \in Worker, Crash(w) \/ Restart(w) PROVE UNCHANGED <<receipt, derived, Acked>>
    BY <2>1, <2>8 DEF Crash, Restart
  <2>9. ASSUME ChangeTenant \/ Settle \/ UNCHANGED vars PROVE UNCHANGED <<receipt, derived, Acked>>
    BY <2>1, <2>9 DEF ChangeTenant, Settle, vars
  <2> QED
    BY <2>2, <2>3, <2>4, <2>5, <2>6, <2>7, <2>8, <2>9 DEF Next, Handle, Abstract!Next
<1> QED
  BY <1>1, <1>2, SafetyInvariant, PTL DEF Spec, ImplementsInbox, Abstract!Spec
============================================================================
