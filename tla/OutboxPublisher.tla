-------------------------- MODULE OutboxPublisher --------------------------
(***************************************************************************)
(* One authority's outbox and the worker processes that publish it.        *)
(*                                                                         *)
(* PostgreSQL rows are read relative to database time: a row's "due" is    *)
(* available_at - now and its "ttl" is leased_until - now, so that time    *)
(* passing is one action and needs no clock.  Every statement's predicate  *)
(* is re-evaluated under the row lock, so a statement is one step; but     *)
(* pg_catalog.now() is the time the transaction BEGAN, so the steps that   *)
(* begin a transaction decide whether its lease is still live.             *)
(***************************************************************************)
EXTENDS Integers, FiniteSets

CONSTANTS
  Message,      \* message identities an application may enqueue
  Worker,       \* worker processes, each running one publisher task
  LeaseId,      \* UUIDv7 lease fences; a name is reused only when forgotten
  NoLease,      \* lease_id IS NULL
  BatchSize,    \* ClaimBatchSize
  Concurrency,  \* PublisherSettings::concurrency
  LeaseTicks,   \* LeaseDuration
  MaxDelay,     \* longest RetryDelay
  MaxAge        \* bound: rows available for longer are not told apart

ASSUME OutboxAssumption ==
  /\ BatchSize \in Nat \ {0}
  /\ Concurrency \in Nat \ {0}
  /\ LeaseTicks \in Nat \ {0}
  /\ MaxDelay \in Nat \ {0}
  /\ MaxAge \in Nat
  /\ NoLease \notin LeaseId

VARIABLES
  outbox,    \* messages with an outbox_message and an outbox_delivery row
  row,       \* the outbox_delivery row of each message
  up,        \* workers whose publisher task runs
  lease,     \* lease fence of the batch each worker is publishing
  task,      \* progress of publish_one for each claimed message
  wire,      \* publications sent and not yet processed by the broker
  accepted,  \* messages in the JetStream stream
  calm       \* TRUE once faults and delays have stopped

dbVars == <<outbox, row>>
workerVars == <<up, lease, task>>
brokerVars == <<wire, accepted>>
vars == <<outbox, row, up, lease, task, wire, accepted, calm>>

----------------------------------------------------------------------------
(* The delivery row and the store's statements on it.                      *)

Row == [published : BOOLEAN, due : (-MaxAge)..MaxDelay,
        lease : LeaseId \cup {NoLease}, ttl : 0..LeaseTicks]

FreshRow == [published |-> FALSE, due |-> 0, lease |-> NoLease, ttl |-> 0]

\* Mutants of Eligible: the lease or its expiry is missing from the WHERE clause.
EligibleLeased(m) == m \in outbox /\ ~row[m].published /\ row[m].due <= 0

EligibleNeverAgain(m) ==
  m \in outbox /\ ~row[m].published /\ row[m].due <= 0 /\ row[m].lease = NoLease

\* WHERE clause of the claim statement.
Eligible(m) ==
  /\ m \in outbox
  /\ ~row[m].published
  /\ row[m].due <= 0
  /\ row[m].lease = NoLease \/ row[m].ttl = 0

\* ORDER BY available_at ... FOR UPDATE SKIP LOCKED LIMIT BatchSize: rows
\* locked by other transactions are passed over, ties are arbitrary.
Claimable(S, locked) ==
  LET free == {m \in Message : Eligible(m)} \ locked IN
  /\ S \subseteq free
  /\ S # {}
  /\ Cardinality(S) <= BatchSize
  /\ S = free \/ Cardinality(S) = BatchSize
  /\ \A m \in S, n \in free \ S : row[m].due <= row[n].due

\* SET clause of the claim statement, "left" ticks before the lease runs out.
Claimed(S, l, left) ==
  [m \in Message |->
     IF m \in S THEN [row[m] EXCEPT !.lease = l, !.ttl = left] ELSE row[m]]

\* A mutant of HoldsFence: the statement does not compare lease_id.
HoldsNoFence(w, m) == ~row[m].published

\* WHERE clause shared by mark_published and reschedule, apart from
\* leased_until > now(), which is settled when the transaction begins.
HoldsFence(w, m) == ~row[m].published /\ row[m].lease = lease[w]

\* leased_until > now() for a transaction of worker w that begins now.
LeaseLive(w, m) == row[m].lease = lease[w] /\ row[m].ttl > 0

----------------------------------------------------------------------------
(* The worker: run_outbox_publisher and publish_one.                       *)

TaskState == {"none", "queued", "sending", "stored", "marking", "deferring"}
InFlight == {"sending", "stored", "marking", "deferring"}

Busy(w) == {m \in Message : task[w][m] # "none"}

\* publish_one returns Ok: the batch's lease is forgotten with its last task.
Finish(w, m) ==
  /\ task' = [task EXCEPT ![w][m] = "none"]
  /\ lease' = [lease EXCEPT ![w] = IF Busy(w) = {m} THEN NoLease ELSE @]

\* The process ends: every future of the batch is dropped.
Stop(w) ==
  /\ up' = up \ {w}
  /\ lease' = [lease EXCEPT ![w] = NoLease]
  /\ task' = [task EXCEPT ![w] = [m \in Message |-> "none"]]

\* A lease_id that no row and no worker remembers, as a new UUIDv7 is.
FreshLease(l) ==
  /\ \A m \in Message : row[m].lease # l
  /\ \A v \in Worker : lease[v] # l

TypeOK ==
  /\ outbox \subseteq Message
  /\ row \in [Message -> Row]
  /\ up \subseteq Worker
  /\ lease \in [Worker -> LeaseId \cup {NoLease}]
  /\ task \in [Worker -> [Message -> TaskState]]
  /\ wire \subseteq Worker \X Message
  /\ accepted \subseteq Message
  /\ calm \in BOOLEAN

Init ==
  /\ outbox = {}
  /\ row = [m \in Message |-> FreshRow]
  /\ up = Worker
  /\ lease = [w \in Worker |-> NoLease]
  /\ task = [w \in Worker |-> [m \in Message |-> "none"]]
  /\ wire = {}
  /\ accepted = {}
  /\ calm = FALSE

\* EnqueueOutcome::Inserted; AlreadyPresent and the conflict change nothing.
Enqueue(m) ==
  /\ m \notin outbox
  /\ outbox' = outbox \cup {m}
  /\ row' = [row EXCEPT ![m] = FreshRow]
  /\ UNCHANGED <<workerVars, brokerVars, calm>>

\* A claim may skip the rows other workers are marking or rescheduling, and
\* a slow claim transaction returns a lease that has already run for a while.
Claim(w) ==
  /\ w \in up
  /\ Busy(w) = {}
  /\ \E locked \in SUBSET {m \in Message : \E v \in Worker \ {w} :
                              task[v][m] \in {"marking", "deferring"}},
        S \in SUBSET Message, l \in LeaseId,
        left \in (IF calm THEN {LeaseTicks} ELSE 0..LeaseTicks) :
       /\ Claimable(S, locked)
       /\ FreshLease(l)
       /\ row' = Claimed(S, l, left)
       /\ \/ /\ lease' = [lease EXCEPT ![w] = l]
             /\ task' = [task EXCEPT ![w] =
                           [m \in Message |-> IF m \in S THEN "queued" ELSE "none"]]
          \/ \* the commit succeeded but its reply was lost: wait and loop
             /\ ~calm
             /\ UNCHANGED <<lease, task>>
  /\ UNCHANGED <<outbox, up, brokerVars, calm>>

\* buffer_unordered starts publish_one; publish_exact sends the bytes.
StartPublish(w, m) ==
  /\ task[w][m] = "queued"
  /\ Cardinality({n \in Message : task[w][n] \in InFlight}) < Concurrency
  /\ task' = [task EXCEPT ![w][m] = "sending"]
  /\ wire' = wire \cup {<<w, m>>}
  /\ UNCHANGED <<dbVars, up, lease, accepted, calm>>

\* The stream quorum stores the message, or recognises its Nats-Msg-Id.  A
\* publication whose sender gave up or died can still arrive.
BrokerStore(w, m) ==
  /\ <<w, m>> \in wire
  /\ wire' = wire \ {<<w, m>>}
  /\ accepted' = accepted \cup {m}
  /\ task' = [task EXCEPT ![w][m] = IF @ = "sending" THEN "stored" ELSE @]
  /\ UNCHANGED <<dbVars, up, lease, calm>>

BrokerLose(w, m) ==
  /\ ~calm
  /\ <<w, m>> \in wire
  /\ wire' = wire \ {<<w, m>>}
  /\ UNCHANGED <<dbVars, workerVars, accepted, calm>>

\* A mutant of Acknowledged: marking begins before the broker has answered.
AcknowledgedEarly(w, m) ==
  /\ task[w][m] = "sending"
  /\ LeaseLive(w, m)
  /\ task' = [task EXCEPT ![w][m] = "marking"]
  /\ UNCHANGED <<dbVars, up, lease, brokerVars, calm>>

\* A validated acknowledgment arrives and the marking transaction begins.
\* With the lease over it can only report AlreadyPublished or LeaseLost.
Acknowledged(w, m) ==
  /\ task[w][m] = "stored"
  /\ \/ /\ LeaseLive(w, m)
        /\ task' = [task EXCEPT ![w][m] = "marking"]
        /\ UNCHANGED lease
     \/ /\ ~LeaseLive(w, m)
        /\ Finish(w, m)
  /\ UNCHANGED <<dbVars, up, brokerVars, calm>>

\* Timeout, quorum loss, capacity...: the rescheduling transaction begins.
\* Once calm, only a publication that was lost before still times out.
PublishTransient(w, m) ==
  /\ task[w][m] \in {"sending", "stored"}
  /\ calm => task[w][m] = "sending" /\ <<w, m>> \notin wire
  /\ \/ /\ LeaseLive(w, m)
        /\ task' = [task EXCEPT ![w][m] = "deferring"]
        /\ UNCHANGED lease
     \/ /\ ~LeaseLive(w, m)
        /\ Finish(w, m)
  /\ UNCHANGED <<dbVars, up, brokerVars, calm>>

\* A mutant of MarkPublished: the row is deleted instead of marked.
DeletePublished(w, m) ==
  /\ task[w][m] = "marking"
  /\ HoldsFence(w, m)
  /\ row' = [row EXCEPT ![m] = FreshRow]
  /\ outbox' = outbox \ {m}
  /\ Finish(w, m)
  /\ UNCHANGED <<up, brokerVars, calm>>

MarkPublished(w, m) ==
  /\ task[w][m] = "marking"
  /\ row' = IF HoldsFence(w, m)
            THEN [row EXCEPT ![m] = [@ EXCEPT !.published = TRUE, !.lease = NoLease, !.ttl = 0]]
            ELSE row
  /\ Finish(w, m)
  /\ UNCHANGED <<outbox, up, brokerVars, calm>>

Reschedule(w, m) ==
  /\ task[w][m] = "deferring"
  /\ \E delay \in 1..MaxDelay :
       row' = IF HoldsFence(w, m)
              THEN [row EXCEPT ![m] = [@ EXCEPT !.due = delay, !.lease = NoLease, !.ttl = 0]]
              ELSE row
  /\ Finish(w, m)
  /\ UNCHANGED <<outbox, up, brokerVars, calm>>

\* A crash, an aborted drain, a fatal publication error or a database error
\* after acceptance: the worker ends between any two of its steps.
Crash(w) ==
  /\ ~calm
  /\ w \in up
  /\ Stop(w)
  /\ UNCHANGED <<dbVars, brokerVars, calm>>

Restart(w) ==
  /\ w \notin up
  /\ up' = up \cup {w}
  /\ UNCHANGED <<dbVars, lease, task, brokerVars, calm>>

\* Database time advances.  Once calm, publication and marking finish within
\* the lease: runtime-config demands a lease longer than the ack timeout.
Tick ==
  /\ calm => ~ \E w \in Worker, m \in Message :
                  task[w][m] # "none" /\ row[m].lease = lease[w] /\ row[m].ttl = 1
  /\ row' = [m \in Message |->
               [row[m] EXCEPT !.due = IF @ > -MaxAge /\ m \in outbox THEN @ - 1 ELSE @,
                              !.ttl = IF @ > 0 THEN @ - 1 ELSE 0]]
  /\ UNCHANGED <<outbox, workerVars, brokerVars, calm>>

Settle ==
  /\ ~calm
  /\ calm' = TRUE
  /\ UNCHANGED <<dbVars, workerVars, brokerVars>>

WorkerStep(w) ==
  \/ Claim(w)
  \/ \E m \in Message :
       \/ StartPublish(w, m)
       \/ Acknowledged(w, m)
       \/ PublishTransient(w, m)
       \/ MarkPublished(w, m)
       \/ Reschedule(w, m)
  \/ Restart(w)

Next ==
  \/ \E m \in Message : Enqueue(m)
  \/ \E w \in Worker : WorkerStep(w) \/ Crash(w)
  \/ \E w \in Worker, m \in Message : BrokerStore(w, m) \/ BrokerLose(w, m)
  \/ Tick
  \/ Settle

Spec == Init /\ [][Next]_vars

\* The scheduler runs every worker, the network delivers, time passes and
\* the faults end at some point.
Fairness ==
  /\ WF_vars(Settle)
  /\ WF_vars(Tick)
  /\ \A w \in Worker : WF_vars(WorkerStep(w))
  /\ \A w \in Worker, m \in Message : WF_vars(BrokerStore(w, m))

FairSpec == Spec /\ Fairness

----------------------------------------------------------------------------
(* Correctness.                                                            *)

Published == {m \in Message : row[m].published}

\* Broker acceptance precedes the database publication marker, through every
\* crash, late publication, lost acknowledgment and lease takeover.
PublishedImpliesAccepted == Published \subseteq accepted

\* No two workers ever publish under the same fence, so the fence in a row
\* names at most one worker that mark_published or reschedule will obey.
FenceNamesOneWorker ==
  \A v, w \in Worker : v # w /\ lease[v] # NoLease => lease[v] # lease[w]

\* A live lease is never taken over: claim replaces a fence only after it
\* has run out; before that the row can only be released by its holder.
LiveLeaseIsExclusive ==
  [][\A m \in Message :
       row[m].lease # NoLease /\ row[m].ttl > 0 /\ row'[m].lease # row[m].lease
       => /\ row'[m].lease = NoLease
          /\ \E w \in Worker : lease[w] = row[m].lease /\ task[w][m] \in {"marking", "deferring"}]_vars

\* A worker whose lease was taken over changes nothing: only the holder of
\* the current fence publishes or delays a row.
StaleFenceChangesNothing ==
  [][\A m \in Message :
       row'[m].published # row[m].published \/ row'[m].due > row[m].due
       => \E w \in Worker :
            /\ lease[w] = row[m].lease
            /\ task[w][m] \in {"marking", "deferring"}
            /\ \A v \in Worker \ {w} : task'[v] = task[v]]_vars

\* A published row is final: no later claim, retry or enqueue touches it.
PublishedIsFinal ==
  [][\A m \in Message : row[m].published => row'[m].published /\ row'[m].lease = NoLease]_vars

\* Every committed message is eventually published once faults stop.
EventuallyPublished ==
  \A m \in Message : m \in outbox ~> row[m].published

\* The publisher implements the transactional outbox.
Abstract == INSTANCE TransactionalOutbox
              WITH committed <- outbox, marked <- Published

ImplementsOutbox == Abstract!Spec
============================================================================
