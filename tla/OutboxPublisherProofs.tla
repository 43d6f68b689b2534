----------------------- MODULE OutboxPublisherProofs -----------------------
(***************************************************************************)
(* The publisher's safety for every number of workers, messages and lease  *)
(* identities and every choice of batch size, concurrency and durations.   *)
(***************************************************************************)
EXTENDS OutboxPublisher, TLAPS

\* A row after the store wrote its fields is still a row.
LEMMA RowWrites ==
  ASSUME NEW r \in Row, NEW l \in LeaseId \cup {NoLease},
         NEW t \in 0..LeaseTicks, NEW d \in (-MaxAge)..MaxDelay
  PROVE  /\ [r EXCEPT !.lease = l, !.ttl = t] \in Row
         /\ [r EXCEPT !.published = TRUE, !.lease = l, !.ttl = t] \in Row
         /\ [r EXCEPT !.due = d, !.lease = l, !.ttl = t] \in Row
         /\ [r EXCEPT !.due = d, !.ttl = t] \in Row
  BY DEF Row

LEMMA FreshRowType == FreshRow \in Row
  BY OutboxAssumption DEF FreshRow, Row

\* Finish and Stop keep the worker's variables typed.
LEMMA FinishType ==
  ASSUME TypeOK, NEW w \in Worker, NEW m \in Message, Finish(w, m)
  PROVE  /\ task' \in [Worker -> [Message -> TaskState]]
         /\ lease' \in [Worker -> LeaseId \cup {NoLease}]
<1>1. task' \in [Worker -> [Message -> TaskState]]
  BY DEF TypeOK, Finish, TaskState
<1>2. lease' \in [Worker -> LeaseId \cup {NoLease}]
  BY DEF TypeOK, Finish
<1> QED
  BY <1>1, <1>2

LEMMA AdvanceType ==
  ASSUME TypeOK, NEW w \in Worker, NEW m \in Message, NEW s \in TaskState,
         task' = [task EXCEPT ![w][m] = s]
  PROVE  task' \in [Worker -> [Message -> TaskState]]
  BY DEF TypeOK

LEMMA StopType ==
  ASSUME TypeOK, NEW w \in Worker, Stop(w)
  PROVE  /\ task' \in [Worker -> [Message -> TaskState]]
         /\ lease' \in [Worker -> LeaseId \cup {NoLease}]
         /\ up' \subseteq Worker
  BY DEF TypeOK, Stop, TaskState

\* No step takes a well-typed state to an ill-typed one.
LEMMA TypeStep ==
  ASSUME TypeOK, [Next]_vars
  PROVE  TypeOK'
<1> USE DEF dbVars, workerVars, brokerVars
<1>1. ASSUME NEW m \in Message, Enqueue(m) PROVE TypeOK'
  BY <1>1, FreshRowType DEF TypeOK, Enqueue
<1>2. ASSUME NEW w \in Worker, Claim(w) PROVE TypeOK'
  <2>1. PICK S \in SUBSET Message, l \in LeaseId, left \in 0..LeaseTicks :
          /\ row' = Claimed(S, l, left)
          /\ \/ /\ lease' = [lease EXCEPT ![w] = l]
                /\ task' = [task EXCEPT ![w] =
                      [m \in Message |-> IF m \in S THEN "queued" ELSE "none"]]
             \/ UNCHANGED <<lease, task>>
    BY <1>2, OutboxAssumption DEF Claim
  <2>2. row' \in [Message -> Row]
    <3>1. ASSUME NEW m \in Message
          PROVE  (IF m \in S THEN [row[m] EXCEPT !.lease = l, !.ttl = left] ELSE row[m]) \in Row
      <4>1. row[m] \in Row
        BY DEF TypeOK
      <4> QED
        BY <4>1 DEF Row
    <3> QED
      BY <2>1, <3>1 DEF Claimed
  <2>3. /\ lease' \in [Worker -> LeaseId \cup {NoLease}]
        /\ task' \in [Worker -> [Message -> TaskState]]
    BY <2>1 DEF TypeOK, TaskState
  <2> QED
    BY <1>2, <2>2, <2>3 DEF TypeOK, Claim
<1>3. ASSUME NEW w \in Worker, NEW m \in Message, StartPublish(w, m) PROVE TypeOK'
  BY <1>3 DEF TypeOK, StartPublish, TaskState
<1>4. ASSUME NEW w \in Worker, NEW m \in Message, BrokerStore(w, m) PROVE TypeOK'
  BY <1>4 DEF TypeOK, BrokerStore, TaskState
<1>5. ASSUME NEW w \in Worker, NEW m \in Message, BrokerLose(w, m) PROVE TypeOK'
  BY <1>5 DEF TypeOK, BrokerLose
<1>6. ASSUME NEW w \in Worker, NEW m \in Message, Acknowledged(w, m) PROVE TypeOK'
  <2>1. "marking" \in TaskState
    BY DEF TaskState
  <2>2. /\ task' \in [Worker -> [Message -> TaskState]]
        /\ lease' \in [Worker -> LeaseId \cup {NoLease}]
    <3>1. CASE task' = [task EXCEPT ![w][m] = "marking"] /\ UNCHANGED lease
      BY <2>1, <3>1, AdvanceType DEF TypeOK
    <3>2. CASE Finish(w, m)
      BY <3>2, FinishType
    <3> QED
      BY <1>6, <3>1, <3>2 DEF Acknowledged
  <2> QED
    BY <1>6, <2>2 DEF TypeOK, Acknowledged
<1>7. ASSUME NEW w \in Worker, NEW m \in Message, PublishTransient(w, m) PROVE TypeOK'
  <2>1. "deferring" \in TaskState
    BY DEF TaskState
  <2>2. /\ task' \in [Worker -> [Message -> TaskState]]
        /\ lease' \in [Worker -> LeaseId \cup {NoLease}]
    <3>1. CASE task' = [task EXCEPT ![w][m] = "deferring"] /\ UNCHANGED lease
      BY <2>1, <3>1, AdvanceType DEF TypeOK
    <3>2. CASE Finish(w, m)
      BY <3>2, FinishType
    <3> QED
      BY <1>7, <3>1, <3>2 DEF PublishTransient
  <2> QED
    BY <1>7, <2>2 DEF TypeOK, PublishTransient
<1>8. ASSUME NEW w \in Worker, NEW m \in Message, MarkPublished(w, m) PROVE TypeOK'
  <2>1. row' \in [Message -> Row]
    <3>1. [row[m] EXCEPT !.published = TRUE, !.lease = NoLease, !.ttl = 0] \in Row
      <4>1. row[m] \in Row
        BY DEF TypeOK
      <4>2. 0 \in 0..LeaseTicks /\ 0 \in (-MaxAge)..MaxDelay
        BY OutboxAssumption
      <4> QED
        BY <4>1, <4>2, RowWrites
    <3> QED
      BY <1>8, <3>1 DEF TypeOK, MarkPublished
  <2> QED
    BY <1>8, <2>1, FinishType DEF TypeOK, MarkPublished
<1>9. ASSUME NEW w \in Worker, NEW m \in Message, Reschedule(w, m) PROVE TypeOK'
  <2>1. row' \in [Message -> Row]
    <3>1. ASSUME NEW d \in 1..MaxDelay
          PROVE  [row[m] EXCEPT !.due = d, !.lease = NoLease, !.ttl = 0] \in Row
      <4>1. row[m] \in Row
        BY DEF TypeOK
      <4>2. 0 \in 0..LeaseTicks /\ d \in (-MaxAge)..MaxDelay
        BY OutboxAssumption
      <4> QED
        BY <4>1, <4>2, RowWrites
    <3> QED
      BY <1>9, <3>1 DEF TypeOK, Reschedule
  <2> QED
    BY <1>9, <2>1, FinishType DEF TypeOK, Reschedule
<1>10. ASSUME NEW w \in Worker, Crash(w) PROVE TypeOK'
  BY <1>10, StopType DEF TypeOK, Crash
<1>11. ASSUME NEW w \in Worker, Restart(w) PROVE TypeOK'
  BY <1>11 DEF TypeOK, Restart
<1>12. ASSUME Tick PROVE TypeOK'
  <2>1. row' \in [Message -> Row]
    <3>1. ASSUME NEW m \in Message
          PROVE  [row[m] EXCEPT !.due = IF @ > -MaxAge /\ m \in outbox THEN @ - 1 ELSE @,
                                !.ttl = IF @ > 0 THEN @ - 1 ELSE 0] \in Row
      <4>1. row[m] \in Row
        BY DEF TypeOK
      <4>2. row[m].due \in (-MaxAge)..MaxDelay /\ row[m].ttl \in 0..LeaseTicks
        BY <4>1 DEF Row
      <4>3. (IF row[m].due > -MaxAge /\ m \in outbox THEN row[m].due - 1 ELSE row[m].due)
              \in (-MaxAge)..MaxDelay
        BY <4>2, OutboxAssumption
      <4>4. (IF row[m].ttl > 0 THEN row[m].ttl - 1 ELSE 0) \in 0..LeaseTicks
        BY <4>2, OutboxAssumption
      <4> QED
        BY <4>1, <4>3, <4>4, RowWrites
    <3> QED
      BY <1>12, <3>1 DEF Tick
  <2> QED
    BY <1>12, <2>1 DEF TypeOK, Tick
<1>13. ASSUME Settle PROVE TypeOK'
  BY <1>13 DEF TypeOK, Settle
<1>14. ASSUME UNCHANGED vars PROVE TypeOK'
  BY <1>14 DEF TypeOK, vars
<1> QED
  BY <1>1, <1>2, <1>3, <1>4, <1>5, <1>6, <1>7, <1>8, <1>9, <1>10, <1>11, <1>12, <1>13, <1>14
     DEF Next, WorkerStep

\* Every reachable state is well typed: no statement, timer or crash of the
\* publisher leaves a delivery row or a task outside its domain.
THEOREM TypeCorrect == Spec => []TypeOK
<1>1. Init => TypeOK
  BY FreshRowType DEF Init, TypeOK, TaskState
<1>2. TypeOK /\ [Next]_vars => TypeOK'
  BY TypeStep
<1> QED
  BY <1>1, <1>2, PTL DEF Spec

----------------------------------------------------------------------------
(* The inductive invariant.  PublishedImpliesAccepted is not inductive: the *)
(* marking step relies on what the broker confirmed to the task before.    *)

\* Work in progress, on the wire or in the stream, was committed before.
WorkIsCommitted ==
  /\ \A w \in Worker, m \in Message : task[w][m] # "none" => m \in outbox
  /\ \A w \in Worker, m \in Message : <<w, m>> \in wire => m \in outbox
  /\ accepted \subseteq outbox

\* A task that was told of the acceptance was told the truth.
StoredIsAccepted ==
  \A w \in Worker, m \in Message : task[w][m] \in {"stored", "marking"} => m \in accepted

\* Rows that were never enqueued are blank; published rows hold no lease.
RowsAreConsistent ==
  \A m \in Message :
    /\ m \notin outbox => row[m] = FreshRow
    /\ row[m].published => row[m].lease = NoLease

SafetyInv ==
  /\ TypeOK
  /\ WorkIsCommitted
  /\ StoredIsAccepted
  /\ RowsAreConsistent
  /\ PublishedImpliesAccepted
  /\ FenceNamesOneWorker

\* Finish and Stop only remove tasks and forget leases.
LEMMA FinishEffect ==
  ASSUME TypeOK, NEW w \in Worker, NEW m \in Message, Finish(w, m)
  PROVE  /\ \A v \in Worker, n \in Message : task'[v][n] \in {task[v][n], "none"}
         /\ \A v \in Worker : lease'[v] \in {lease[v], NoLease}
         /\ \A v \in Worker \ {w} : task'[v] = task[v]
<1>1. /\ \A v \in Worker, n \in Message : task'[v][n] \in {task[v][n], "none"}
      /\ \A v \in Worker \ {w} : task'[v] = task[v]
  BY DEF TypeOK, Finish
<1>2. \A v \in Worker : lease'[v] \in {lease[v], NoLease}
  BY DEF TypeOK, Finish
<1> QED
  BY <1>1, <1>2

LEMMA StopEffect ==
  ASSUME TypeOK, NEW w \in Worker, Stop(w)
  PROVE  /\ \A v \in Worker, n \in Message : task'[v][n] \in {task[v][n], "none"}
         /\ \A v \in Worker : lease'[v] \in {lease[v], NoLease}
  BY DEF TypeOK, Stop

\* What a claim of the rows S under fence l does: it takes only rows whose
\* lease is over, and its worker either learns of it or does not.
ClaimOutcome(w, S, l) ==
  /\ \A m \in S : m \in outbox /\ ~row[m].published /\ (row[m].lease = NoLease \/ row[m].ttl = 0)
  /\ \A v \in Worker : lease[v] # l
  /\ \A m \in Message : /\ row'[m].published = row[m].published
                        /\ row'[m].due = row[m].due
                        /\ row'[m].lease = IF m \in S THEN l ELSE row[m].lease
                        /\ m \notin S => row'[m] = row[m]
  /\ \/ /\ lease' = [lease EXCEPT ![w] = l]
        /\ \A v \in Worker, m \in Message :
             task'[v][m] = IF v = w THEN (IF m \in S THEN "queued" ELSE "none") ELSE task[v][m]
     \/ UNCHANGED <<lease, task>>

LEMMA ClaimEffect ==
  ASSUME TypeOK, NEW w \in Worker, Claim(w)
  PROVE  \E S \in SUBSET Message, l \in LeaseId : ClaimOutcome(w, S, l)
<1>1. PICK locked \in SUBSET Message, S \in SUBSET Message, l \in LeaseId,
           left \in 0..LeaseTicks :
        /\ Claimable(S, locked)
        /\ FreshLease(l)
        /\ row' = Claimed(S, l, left)
        /\ \/ /\ lease' = [lease EXCEPT ![w] = l]
              /\ task' = [task EXCEPT ![w] =
                    [m \in Message |-> IF m \in S THEN "queued" ELSE "none"]]
           \/ UNCHANGED <<lease, task>>
  BY OutboxAssumption DEF Claim
<1>2. \A m \in S : m \in outbox /\ ~row[m].published /\ (row[m].lease = NoLease \/ row[m].ttl = 0)
  BY <1>1 DEF Claimable, Eligible
<1>3. \A v \in Worker : lease[v] # l
  BY <1>1 DEF FreshLease
<1>4. ASSUME NEW m \in Message
      PROVE  /\ row'[m].published = row[m].published
             /\ row'[m].due = row[m].due
             /\ row'[m].lease = IF m \in S THEN l ELSE row[m].lease
             /\ m \notin S => row'[m] = row[m]
  <2>1. row[m] \in Row
    BY DEF TypeOK
  <2>2. row'[m] = IF m \in S THEN [row[m] EXCEPT !.lease = l, !.ttl = left] ELSE row[m]
    BY <1>1 DEF Claimed
  <2> QED
    BY <2>1, <2>2 DEF Row
<1>5. ASSUME task' = [task EXCEPT ![w] = [m \in Message |-> IF m \in S THEN "queued" ELSE "none"]]
      PROVE  \A v \in Worker, m \in Message :
               task'[v][m] = IF v = w THEN (IF m \in S THEN "queued" ELSE "none") ELSE task[v][m]
  BY <1>5 DEF TypeOK
<1>6. \/ /\ lease' = [lease EXCEPT ![w] = l]
         /\ \A v \in Worker, m \in Message :
              task'[v][m] = IF v = w THEN (IF m \in S THEN "queued" ELSE "none") ELSE task[v][m]
      \/ UNCHANGED <<lease, task>>
  BY <1>1, <1>5
<1> QED
  BY <1>2, <1>3, <1>4, <1>6 DEF ClaimOutcome

\* mark_published writes one row, and only under its fence.
LEMMA MarkEffect ==
  ASSUME TypeOK, NEW w \in Worker, NEW m \in Message, MarkPublished(w, m)
  PROVE  \/ row' = row
         \/ /\ HoldsFence(w, m)
            /\ row'[m].published /\ row'[m].lease = NoLease /\ row'[m].due = row[m].due
            /\ \A n \in Message \ {m} : row'[n] = row[n]
<1>1. CASE HoldsFence(w, m)
  <2>1. row' = [row EXCEPT ![m] = [row[m] EXCEPT !.published = TRUE, !.lease = NoLease, !.ttl = 0]]
    BY <1>1 DEF MarkPublished
  <2>2. row[m] \in Row
    BY DEF TypeOK
  <2>3. row'[m] = [row[m] EXCEPT !.published = TRUE, !.lease = NoLease, !.ttl = 0]
    BY <2>1 DEF TypeOK
  <2>4. row'[m].published /\ row'[m].lease = NoLease /\ row'[m].due = row[m].due
    BY <2>2, <2>3 DEF Row
  <2>5. \A n \in Message \ {m} : row'[n] = row[n]
    BY <2>1 DEF TypeOK
  <2> QED
    BY <1>1, <2>4, <2>5
<1>2. CASE ~HoldsFence(w, m)
  BY <1>2 DEF MarkPublished
<1> QED
  BY <1>1, <1>2

\* reschedule writes one row, and only under its fence.
LEMMA RescheduleEffect ==
  ASSUME TypeOK, NEW w \in Worker, NEW m \in Message, Reschedule(w, m)
  PROVE  \/ row' = row
         \/ /\ HoldsFence(w, m)
            /\ row'[m].published = row[m].published /\ row'[m].lease = NoLease
            /\ \A n \in Message \ {m} : row'[n] = row[n]
<1>1. CASE HoldsFence(w, m)
  <2>1. PICK d \in 1..MaxDelay :
          row' = [row EXCEPT ![m] = [row[m] EXCEPT !.due = d, !.lease = NoLease, !.ttl = 0]]
    BY <1>1 DEF Reschedule
  <2>2. row[m] \in Row
    BY DEF TypeOK
  <2>3. row'[m] = [row[m] EXCEPT !.due = d, !.lease = NoLease, !.ttl = 0]
    BY <2>1 DEF TypeOK
  <2>4. row'[m].published = row[m].published /\ row'[m].lease = NoLease
    BY <2>2, <2>3 DEF Row
  <2>5. \A n \in Message \ {m} : row'[n] = row[n]
    BY <2>1 DEF TypeOK
  <2> QED
    BY <1>1, <2>4, <2>5
<1>2. CASE ~HoldsFence(w, m)
  BY <1>2 DEF Reschedule
<1> QED
  BY <1>1, <1>2

\* Time changes neither the marker nor the fence, and delays nothing.
LEMMA TickEffect ==
  ASSUME TypeOK, Tick, NEW m \in Message
  PROVE  /\ row'[m].published = row[m].published
         /\ row'[m].lease = row[m].lease
         /\ row'[m].due <= row[m].due
         /\ m \notin outbox /\ row[m] = FreshRow => row'[m] = FreshRow
<1>1. row[m] \in Row
  BY DEF TypeOK
<1>2. row[m].due \in Int
  BY <1>1, OutboxAssumption DEF Row
<1>3. row'[m] = [row[m] EXCEPT !.due = IF @ > -MaxAge /\ m \in outbox THEN @ - 1 ELSE @,
                               !.ttl = IF @ > 0 THEN @ - 1 ELSE 0]
  BY DEF Tick
<1>4. row'[m].published = row[m].published /\ row'[m].lease = row[m].lease
  BY <1>1, <1>3 DEF Row
<1>5. row'[m].due = IF row[m].due > -MaxAge /\ m \in outbox THEN row[m].due - 1 ELSE row[m].due
  BY <1>1, <1>3 DEF Row
<1>6. row'[m].due <= row[m].due
  BY <1>2, <1>5, OutboxAssumption
<1>7. ASSUME m \notin outbox, row[m] = FreshRow PROVE row'[m] = FreshRow
  <2>1. row[m].due = 0 /\ row[m].ttl = 0
    BY <1>7 DEF FreshRow
  <2>2. row'[m] = [FreshRow EXCEPT !.due = 0, !.ttl = 0]
    BY <1>3, <1>7, <2>1
  <2> QED
    BY <2>2 DEF FreshRow
<1> QED
  BY <1>4, <1>6, <1>7

----------------------------------------------------------------------------
(* SafetyInv is inductive.                                                 *)

\* A step that adds no task, no lease and no publication keeps what the
\* invariant says of them.
LEMMA ShrinkingStep ==
  ASSUME SafetyInv, TypeOK', RowsAreConsistent', PublishedImpliesAccepted',
         UNCHANGED <<outbox, accepted>>,
         wire' \subseteq wire,
         \A v \in Worker, n \in Message : task'[v][n] \in {task[v][n], "none"},
         \A v \in Worker : lease'[v] \in {lease[v], NoLease}
  PROVE  SafetyInv'
<1>1. WorkIsCommitted'
  BY DEF SafetyInv, WorkIsCommitted
<1>2. StoredIsAccepted'
  BY DEF SafetyInv, StoredIsAccepted
<1>3. FenceNamesOneWorker'
  BY DEF SafetyInv, FenceNamesOneWorker
<1> QED
  BY <1>1, <1>2, <1>3 DEF SafetyInv

\* A step of a worker or of the broker that writes no row leaves them so.
LEMMA RowsUntouched ==
  ASSUME SafetyInv, UNCHANGED <<outbox, row>>, accepted \subseteq accepted'
  PROVE  RowsAreConsistent' /\ PublishedImpliesAccepted'
  BY DEF SafetyInv, RowsAreConsistent, PublishedImpliesAccepted, Published

\* No step of any worker, of the broker or of time breaks the invariant.
LEMMA SafetyStep ==
  ASSUME SafetyInv, [Next]_vars
  PROVE  SafetyInv'
<1> USE DEF dbVars, workerVars, brokerVars
<1>0. TypeOK /\ TypeOK'
  BY TypeStep DEF SafetyInv
<1>1. ASSUME NEW m \in Message, Enqueue(m) PROVE SafetyInv'
  <2>1. /\ row'[m] = FreshRow
        /\ \A n \in Message \ {m} : row'[n] = row[n]
    BY <1>0, <1>1 DEF TypeOK, Enqueue
  <2>2. RowsAreConsistent'
    <3>1. m \in outbox' /\ row'[m].lease = NoLease
      BY <1>1, <2>1 DEF Enqueue, FreshRow
    <3>2. \A n \in Message \ {m} : n \notin outbox' => n \notin outbox
      BY <1>1 DEF Enqueue
    <3> QED
      BY <2>1, <3>1, <3>2 DEF SafetyInv, RowsAreConsistent
  <2>3. PublishedImpliesAccepted'
    BY <1>1, <2>1 DEF SafetyInv, PublishedImpliesAccepted, Published, Enqueue, FreshRow
  <2>4. WorkIsCommitted'
    BY <1>1 DEF SafetyInv, WorkIsCommitted, Enqueue
  <2>5. StoredIsAccepted' /\ FenceNamesOneWorker'
    BY <1>1 DEF SafetyInv, StoredIsAccepted, FenceNamesOneWorker, Enqueue
  <2> QED
    BY <1>0, <2>2, <2>3, <2>4, <2>5 DEF SafetyInv
<1>2. ASSUME NEW w \in Worker, Claim(w) PROVE SafetyInv'
  <2>1. PICK S \in SUBSET Message, l \in LeaseId : ClaimOutcome(w, S, l)
    BY <1>0, <1>2, ClaimEffect
  <2>2. UNCHANGED <<outbox, wire, accepted>>
    BY <1>2 DEF Claim
  <2>3. RowsAreConsistent'
    BY <2>1, <2>2 DEF ClaimOutcome, SafetyInv, RowsAreConsistent
  <2>4. PublishedImpliesAccepted'
    BY <2>1, <2>2 DEF ClaimOutcome, SafetyInv, PublishedImpliesAccepted, Published
  <2>5. WorkIsCommitted'
    BY <2>1, <2>2 DEF ClaimOutcome, SafetyInv, WorkIsCommitted
  <2>6. StoredIsAccepted'
    BY <2>1, <2>2 DEF ClaimOutcome, SafetyInv, StoredIsAccepted
  <2>7. FenceNamesOneWorker'
    BY <1>0, <2>1 DEF ClaimOutcome, SafetyInv, FenceNamesOneWorker, TypeOK
  <2> QED
    BY <1>0, <2>3, <2>4, <2>5, <2>6, <2>7 DEF SafetyInv
<1>3. ASSUME NEW w \in Worker, NEW m \in Message, StartPublish(w, m) PROVE SafetyInv'
  <2>1. RowsAreConsistent' /\ PublishedImpliesAccepted'
    BY <1>3, RowsUntouched DEF StartPublish
  <2>2. WorkIsCommitted'
    BY <1>0, <1>3 DEF SafetyInv, WorkIsCommitted, StartPublish, TypeOK
  <2>3. StoredIsAccepted' /\ FenceNamesOneWorker'
    BY <1>0, <1>3 DEF SafetyInv, StoredIsAccepted, FenceNamesOneWorker, StartPublish, TypeOK
  <2> QED
    BY <1>0, <2>1, <2>2, <2>3 DEF SafetyInv
<1>4. ASSUME NEW w \in Worker, NEW m \in Message, BrokerStore(w, m) PROVE SafetyInv'
  <2>1. RowsAreConsistent' /\ PublishedImpliesAccepted'
    BY <1>4, RowsUntouched DEF BrokerStore
  <2>2. WorkIsCommitted'
    BY <1>0, <1>4 DEF SafetyInv, WorkIsCommitted, BrokerStore, TypeOK
  <2>3. StoredIsAccepted' /\ FenceNamesOneWorker'
    BY <1>0, <1>4 DEF SafetyInv, StoredIsAccepted, FenceNamesOneWorker, BrokerStore, TypeOK
  <2> QED
    BY <1>0, <2>1, <2>2, <2>3 DEF SafetyInv
<1>5. ASSUME NEW w \in Worker, NEW m \in Message, BrokerLose(w, m) PROVE SafetyInv'
  BY <1>0, <1>5, RowsUntouched, ShrinkingStep DEF BrokerLose
<1>6. ASSUME NEW w \in Worker, NEW m \in Message, Acknowledged(w, m) PROVE SafetyInv'
  <2>1. RowsAreConsistent' /\ PublishedImpliesAccepted'
    BY <1>6, RowsUntouched DEF Acknowledged
  <2>2. CASE Finish(w, m)
    BY <1>0, <1>6, <2>1, <2>2, FinishEffect, ShrinkingStep DEF Acknowledged
  <2>3. CASE task' = [task EXCEPT ![w][m] = "marking"] /\ UNCHANGED lease
    <3>1. WorkIsCommitted'
      BY <1>0, <1>6, <2>3 DEF SafetyInv, WorkIsCommitted, Acknowledged, TypeOK
    <3>2. StoredIsAccepted' /\ FenceNamesOneWorker'
      BY <1>0, <1>6, <2>3 DEF SafetyInv, StoredIsAccepted, FenceNamesOneWorker, Acknowledged, TypeOK
    <3> QED
      BY <1>0, <2>1, <3>1, <3>2 DEF SafetyInv
  <2> QED
    BY <1>6, <2>2, <2>3 DEF Acknowledged
<1>7. ASSUME NEW w \in Worker, NEW m \in Message, PublishTransient(w, m) PROVE SafetyInv'
  <2>1. RowsAreConsistent' /\ PublishedImpliesAccepted'
    BY <1>7, RowsUntouched DEF PublishTransient
  <2>2. CASE Finish(w, m)
    BY <1>0, <1>7, <2>1, <2>2, FinishEffect, ShrinkingStep DEF PublishTransient
  <2>3. CASE task' = [task EXCEPT ![w][m] = "deferring"] /\ UNCHANGED lease
    <3>1. WorkIsCommitted'
      BY <1>0, <1>7, <2>3 DEF SafetyInv, WorkIsCommitted, PublishTransient, TypeOK
    <3>2. StoredIsAccepted' /\ FenceNamesOneWorker'
      BY <1>0, <1>7, <2>3 DEF SafetyInv, StoredIsAccepted, FenceNamesOneWorker, PublishTransient, TypeOK
    <3> QED
      BY <1>0, <2>1, <3>1, <3>2 DEF SafetyInv
  <2> QED
    BY <1>7, <2>2, <2>3 DEF PublishTransient
<1>8. ASSUME NEW w \in Worker, NEW m \in Message, MarkPublished(w, m) PROVE SafetyInv'
  <2>1. m \in outbox /\ m \in accepted
    BY <1>8 DEF SafetyInv, WorkIsCommitted, StoredIsAccepted, MarkPublished
  <2>2. UNCHANGED <<outbox, wire, accepted>> /\ Finish(w, m)
    BY <1>8 DEF MarkPublished
  <2>3. RowsAreConsistent'
    BY <1>0, <1>8, <2>1, <2>2, MarkEffect DEF SafetyInv, RowsAreConsistent
  <2>4. PublishedImpliesAccepted'
    BY <1>0, <1>8, <2>1, <2>2, MarkEffect DEF SafetyInv, PublishedImpliesAccepted, Published
  <2> QED
    BY <1>0, <2>2, <2>3, <2>4, FinishEffect, ShrinkingStep
<1>9. ASSUME NEW w \in Worker, NEW m \in Message, Reschedule(w, m) PROVE SafetyInv'
  <2>1. m \in outbox
    BY <1>9 DEF SafetyInv, WorkIsCommitted, Reschedule
  <2>2. UNCHANGED <<outbox, wire, accepted>> /\ Finish(w, m)
    BY <1>9 DEF Reschedule
  <2>3. RowsAreConsistent'
    BY <1>0, <1>9, <2>1, <2>2, RescheduleEffect DEF SafetyInv, RowsAreConsistent
  <2>4. PublishedImpliesAccepted'
    BY <1>0, <1>9, <2>2, RescheduleEffect DEF SafetyInv, PublishedImpliesAccepted, Published
  <2> QED
    BY <1>0, <2>2, <2>3, <2>4, FinishEffect, ShrinkingStep
<1>10. ASSUME NEW w \in Worker, Crash(w) PROVE SafetyInv'
  BY <1>0, <1>10, RowsUntouched, StopEffect, ShrinkingStep DEF Crash
<1>11. ASSUME NEW w \in Worker, Restart(w) PROVE SafetyInv'
  BY <1>0, <1>11, RowsUntouched, ShrinkingStep DEF Restart
<1>12. ASSUME Tick PROVE SafetyInv'
  <2>1. UNCHANGED <<outbox, lease, task, wire, accepted>>
    BY <1>12 DEF Tick
  <2>2. RowsAreConsistent'
    BY <1>0, <1>12, <2>1, TickEffect DEF SafetyInv, RowsAreConsistent
  <2>3. PublishedImpliesAccepted'
    BY <1>0, <1>12, <2>1, TickEffect DEF SafetyInv, PublishedImpliesAccepted, Published
  <2> QED
    BY <1>0, <2>1, <2>2, <2>3, ShrinkingStep
<1>13. ASSUME Settle PROVE SafetyInv'
  BY <1>0, <1>13, RowsUntouched, ShrinkingStep DEF Settle
<1>14. ASSUME UNCHANGED vars PROVE SafetyInv'
  BY <1>0, <1>14, RowsUntouched, ShrinkingStep DEF vars
<1> QED
  BY <1>1, <1>2, <1>3, <1>4, <1>5, <1>6, <1>7, <1>8, <1>9, <1>10, <1>11, <1>12, <1>13, <1>14
     DEF Next, WorkerStep

\* The initial state satisfies the invariant and no step breaks it.
LEMMA SafetyInvariant == Spec => []SafetyInv
<1>1. Init => SafetyInv
  <2> SUFFICES ASSUME Init PROVE SafetyInv
    OBVIOUS
  <2>1. TypeOK
    BY FreshRowType DEF Init, TypeOK, TaskState
  <2>2. \A m \in Message : row[m] = FreshRow /\ ~row[m].published /\ row[m].lease = NoLease
    BY DEF Init, FreshRow
  <2>3. RowsAreConsistent /\ PublishedImpliesAccepted
    BY <2>2 DEF RowsAreConsistent, PublishedImpliesAccepted, Published
  <2>4. WorkIsCommitted /\ StoredIsAccepted /\ FenceNamesOneWorker
    BY DEF Init, WorkIsCommitted, StoredIsAccepted, FenceNamesOneWorker
  <2> QED
    BY <2>1, <2>3, <2>4 DEF SafetyInv
<1>2. SafetyInv /\ [Next]_vars => SafetyInv'
  BY SafetyStep
<1> QED
  BY <1>1, <1>2, PTL DEF Spec

----------------------------------------------------------------------------
(* The results.                                                            *)

\* The database never says published of a message the stream has not stored:
\* mark_published runs only for a task whose acknowledgment was validated,
\* whatever leases, crashes and late publications do in between.
THEOREM MarkerFollowsAcceptance == Spec => []PublishedImpliesAccepted
<1>1. SafetyInv => PublishedImpliesAccepted
  BY DEF SafetyInv
<1> QED
  BY <1>1, SafetyInvariant, PTL

\* Two workers never hold the same lease fence at the same time.
THEOREM FencesAreUnique == Spec => []FenceNamesOneWorker
<1>1. SafetyInv => FenceNamesOneWorker
  BY DEF SafetyInv
<1> QED
  BY <1>1, SafetyInvariant, PTL

\* What every step does to a row's marker and fence: the case analysis that
\* the three action properties share.
LEMMA RowStep ==
  ASSUME SafetyInv, [Next]_vars, NEW m \in Message
  PROVE  \/ /\ row'[m].published = row[m].published
            /\ row'[m].lease = row[m].lease
            /\ row'[m].due <= row[m].due
         \/ \* claimed
            /\ ~row[m].published /\ (row[m].lease = NoLease \/ row[m].ttl = 0)
            /\ ~row'[m].published /\ row'[m].due <= row[m].due
         \/ \* released by the holder of its fence
            /\ ~row[m].published /\ row'[m].lease = NoLease
            /\ \E w \in Worker : /\ lease[w] = row[m].lease
                                 /\ task[w][m] \in {"marking", "deferring"}
                                 /\ \A v \in Worker \ {w} : task'[v] = task[v]
<1> DEFINE Kept == /\ row'[m].published = row[m].published
                   /\ row'[m].lease = row[m].lease
                   /\ row'[m].due <= row[m].due
           Taken == /\ ~row[m].published /\ (row[m].lease = NoLease \/ row[m].ttl = 0)
                    /\ ~row'[m].published /\ row'[m].due <= row[m].due
           Released == /\ ~row[m].published /\ row'[m].lease = NoLease
                       /\ \E w \in Worker : /\ lease[w] = row[m].lease
                                            /\ task[w][m] \in {"marking", "deferring"}
                                            /\ \A v \in Worker \ {w} : task'[v] = task[v]
<1> SUFFICES Kept \/ Taken \/ Released
  OBVIOUS
<1> USE DEF dbVars, workerVars, brokerVars
<1>0. TypeOK /\ row[m].due \in Int
  <2>1. TypeOK /\ row[m] \in Row
    BY DEF SafetyInv, TypeOK
  <2> QED
    BY <2>1, OutboxAssumption DEF Row
<1>1. ASSUME row'[m] = row[m] PROVE Kept
  BY <1>0, <1>1
<1>2. ASSUME NEW n \in Message, Enqueue(n) PROVE Kept
  <2>1. row'[m] = row[m] \/ (m \notin outbox /\ row'[m] = FreshRow)
    BY <1>0, <1>2 DEF TypeOK, Enqueue
  <2>2. m \notin outbox => row[m] = FreshRow
    BY DEF SafetyInv, RowsAreConsistent
  <2> QED
    BY <1>1, <2>1, <2>2
<1>3. ASSUME NEW w \in Worker, Claim(w) PROVE Kept \/ Taken
  <2>1. PICK S \in SUBSET Message, l \in LeaseId : ClaimOutcome(w, S, l)
    BY <1>0, <1>3, ClaimEffect
  <2> QED
    BY <1>0, <2>1 DEF ClaimOutcome
<1>4. ASSUME NEW w \in Worker, NEW n \in Message, MarkPublished(w, n) PROVE Kept \/ Released
  <2>1. row'[m] = row[m] \/ (HoldsFence(w, n) /\ m = n /\ row'[m].lease = NoLease)
    BY <1>0, <1>4, MarkEffect
  <2>2. task[w][n] = "marking" /\ \A v \in Worker \ {w} : task'[v] = task[v]
    BY <1>0, <1>4, FinishEffect DEF MarkPublished
  <2> QED
    BY <1>1, <2>1, <2>2 DEF HoldsFence
<1>5. ASSUME NEW w \in Worker, NEW n \in Message, Reschedule(w, n) PROVE Kept \/ Released
  <2>1. row'[m] = row[m] \/ (HoldsFence(w, n) /\ m = n /\ row'[m].lease = NoLease)
    BY <1>0, <1>5, RescheduleEffect
  <2>2. task[w][n] = "deferring" /\ \A v \in Worker \ {w} : task'[v] = task[v]
    BY <1>0, <1>5, FinishEffect DEF Reschedule
  <2> QED
    BY <1>1, <2>1, <2>2 DEF HoldsFence
<1>6. ASSUME Tick PROVE Kept
  BY <1>0, <1>6, TickEffect
<1>7. ASSUME NEW w \in Worker, NEW n \in Message,
             StartPublish(w, n) \/ Acknowledged(w, n) \/ PublishTransient(w, n)
               \/ BrokerStore(w, n) \/ BrokerLose(w, n)
      PROVE  Kept
  BY <1>1, <1>7 DEF StartPublish, Acknowledged, PublishTransient, BrokerStore, BrokerLose
<1>8. ASSUME NEW w \in Worker, Crash(w) \/ Restart(w) PROVE Kept
  BY <1>1, <1>8 DEF Crash, Restart
<1>9. ASSUME Settle \/ UNCHANGED vars PROVE Kept
  BY <1>1, <1>9 DEF Settle, vars
<1> QED
  BY <1>2, <1>3, <1>4, <1>5, <1>6, <1>7, <1>8, <1>9 DEF Next, WorkerStep

\* A live lease is never taken over: the claim statement passes its row by,
\* and only the worker that holds the fence clears it.
THEOREM LeasesExclude == Spec => LiveLeaseIsExclusive
<1> DEFINE Step ==
      \A m \in Message :
        row[m].lease # NoLease /\ row[m].ttl > 0 /\ row'[m].lease # row[m].lease
        => /\ row'[m].lease = NoLease
           /\ \E w \in Worker : lease[w] = row[m].lease /\ task[w][m] \in {"marking", "deferring"}
<1>1. SafetyInv /\ [Next]_vars => [Step]_vars
  <2> SUFFICES ASSUME SafetyInv, [Next]_vars PROVE Step
    OBVIOUS
  <2> QED
    BY RowStep
<1> QED
  BY <1>1, SafetyInvariant, PTL DEF Spec, LiveLeaseIsExclusive

\* A worker whose fence is no longer in the row marks and delays nothing.
THEOREM StaleWorkersAreHarmless == Spec => StaleFenceChangesNothing
<1> DEFINE Step ==
      \A m \in Message :
        row'[m].published # row[m].published \/ row'[m].due > row[m].due
        => \E w \in Worker :
             /\ lease[w] = row[m].lease
             /\ task[w][m] \in {"marking", "deferring"}
             /\ \A v \in Worker \ {w} : task'[v] = task[v]
<1>1. SafetyInv /\ [Next]_vars => [Step]_vars
  <2> SUFFICES ASSUME SafetyInv, [Next]_vars, NEW m \in Message,
                      row'[m].published # row[m].published \/ row'[m].due > row[m].due
               PROVE  \E w \in Worker :
                        /\ lease[w] = row[m].lease
                        /\ task[w][m] \in {"marking", "deferring"}
                        /\ \A v \in Worker \ {w} : task'[v] = task[v]
    OBVIOUS
  <2>1. row[m] \in Row /\ row'[m] \in Row
    BY TypeStep DEF SafetyInv, TypeOK
  <2>2. /\ row[m].due \in Int /\ row'[m].due \in Int
        /\ row[m].published \in BOOLEAN /\ row'[m].published \in BOOLEAN
    BY <2>1, OutboxAssumption DEF Row
  <2>3. row'[m].due <= row[m].due => ~(row'[m].due > row[m].due)
    BY <2>2
  <2> QED
    BY <2>2, <2>3, RowStep
<1> QED
  BY <1>1, SafetyInvariant, PTL DEF Spec, StaleFenceChangesNothing

\* A published row keeps its marker and is never leased again.
THEOREM PublicationIsFinal == Spec => PublishedIsFinal
<1> DEFINE Step ==
      \A m \in Message : row[m].published => row'[m].published /\ row'[m].lease = NoLease
<1>1. SafetyInv /\ [Next]_vars => [Step]_vars
  <2> SUFFICES ASSUME SafetyInv, [Next]_vars, NEW m \in Message, row[m].published
               PROVE  row'[m].published /\ row'[m].lease = NoLease
    OBVIOUS
  <2>1. row[m].lease = NoLease
    BY DEF SafetyInv, RowsAreConsistent
  <2> QED
    BY <2>1, RowStep
<1> QED
  BY <1>1, SafetyInvariant, PTL DEF Spec, PublishedIsFinal

\* The publisher implements the transactional outbox: enqueue commits, the
\* stream accepts, mark_published marks, and every other step is invisible.
THEOREM ImplementsTransactionalOutbox == Spec => ImplementsOutbox
<1> USE DEF dbVars, workerVars, brokerVars
<1>1. Init => Abstract!Init
  BY DEF Init, Abstract!Init, Published, FreshRow
<1>2. SafetyInv /\ [Next]_vars => [Abstract!Next]_(Abstract!vars)
  <2> SUFFICES ASSUME SafetyInv, [Next]_vars
               PROVE  Abstract!Next \/ UNCHANGED <<outbox, accepted, Published>>
    BY DEF Abstract!vars
  <2>0. TypeOK
    BY DEF SafetyInv
  <2>1. ASSUME \A m \in Message : row'[m].published = row[m].published PROVE UNCHANGED Published
    BY <2>1 DEF Published
  <2>2. ASSUME NEW m \in Message, Enqueue(m) PROVE Abstract!Commit(m)
    <3>1. \A n \in Message : row'[n].published = row[n].published
      BY <2>0, <2>2 DEF Enqueue, TypeOK, SafetyInv, RowsAreConsistent, FreshRow
    <3> QED
      BY <2>1, <2>2, <3>1 DEF Enqueue, Abstract!Commit
  <2>3. ASSUME NEW w \in Worker, NEW m \in Message, BrokerStore(w, m) PROVE Abstract!Accept(m)
    BY <2>1, <2>3 DEF BrokerStore, Abstract!Accept, SafetyInv, WorkIsCommitted
  <2>4. ASSUME NEW w \in Worker, NEW m \in Message, MarkPublished(w, m)
        PROVE  Abstract!Mark(m) \/ UNCHANGED <<outbox, accepted, Published>>
    <3>1. m \in accepted /\ UNCHANGED <<outbox, accepted>>
      BY <2>4 DEF MarkPublished, SafetyInv, StoredIsAccepted
    <3>2. UNCHANGED Published \/ Published' = Published \cup {m}
      BY <2>0, <2>4, MarkEffect DEF Published
    <3> QED
      BY <3>1, <3>2 DEF Abstract!Mark
  <2>5. ASSUME NEW w \in Worker, NEW m \in Message, Reschedule(w, m)
        PROVE  UNCHANGED <<outbox, accepted, Published>>
    BY <2>0, <2>1, <2>5, RescheduleEffect DEF Reschedule
  <2>6. ASSUME NEW w \in Worker, Claim(w) PROVE UNCHANGED <<outbox, accepted, Published>>
    BY <2>0, <2>1, <2>6, ClaimEffect DEF ClaimOutcome, Claim
  <2>7. ASSUME Tick PROVE UNCHANGED <<outbox, accepted, Published>>
    BY <2>0, <2>1, <2>7, TickEffect DEF Tick
  <2>8. ASSUME NEW w \in Worker, NEW m \in Message,
               StartPublish(w, m) \/ Acknowledged(w, m) \/ PublishTransient(w, m) \/ BrokerLose(w, m)
        PROVE  UNCHANGED <<outbox, accepted, Published>>
    BY <2>8 DEF StartPublish, Acknowledged, PublishTransient, BrokerLose, Published
  <2>9. ASSUME NEW w \in Worker, Crash(w) \/ Restart(w)
        PROVE  UNCHANGED <<outbox, accepted, Published>>
    BY <2>9 DEF Crash, Restart, Published
  <2>10. ASSUME Settle \/ UNCHANGED vars PROVE UNCHANGED <<outbox, accepted, Published>>
    BY <2>10 DEF Settle, vars, Published
  <2> QED
    BY <2>2, <2>3, <2>4, <2>5, <2>6, <2>7, <2>8, <2>9, <2>10 DEF Next, WorkerStep, Abstract!Next
<1> QED
  BY <1>1, <1>2, SafetyInvariant, PTL DEF Spec, ImplementsOutbox, Abstract!Spec
============================================================================
