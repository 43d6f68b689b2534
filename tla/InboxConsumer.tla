--------------------------- MODULE InboxConsumer ---------------------------
(***************************************************************************)
(* One durable pull consumer, the worker processes that share it and the   *)
(* authority's inbox.                                                      *)
(*                                                                         *)
(* A worker fetches a batch and carries each delivery through              *)
(* process_delivery, MaxInFlight at a time, before it fetches again.       *)
(* Between the tenant check, the receipt statement, the commit and the     *)
(* acknowledgment other deliveries, the broker's redelivery timer and the  *)
(* tenant authority all move.  An uncommitted receipt holds its unique     *)
(* key: a second transaction that inserts the same (consumer, message)     *)
(* waits for the first to finish.                                          *)
(***************************************************************************)
EXTENDS Integers, FiniteSets

CONSTANTS
  Entry,        \* stream sequence numbers; one message may have several
  MessageId, Body, NoBody,
  IdOf(_), BodyOf(_), FormOf(_), EpochOf(_),  \* what each record carries
  Commands,     \* identities whose handler enqueues a derived message
  Worker,       \* worker processes bound to the durable
  FetchBatch,   \* ConsumerSettings::fetch_batch_size
  MaxInFlight,  \* ConsumerSettings::max_in_flight
  Epoch,        \* assignment epochs
  Fenced        \* TRUE in a Cell, FALSE on the Platform

Forms == {"valid", "invalid", "unbounded"}

ASSUME InboxAssumption ==
  /\ \A e \in Entry : IdOf(e) \in MessageId /\ BodyOf(e) \in Body
                      /\ FormOf(e) \in Forms /\ EpochOf(e) \in Epoch
  /\ NoBody \notin Body
  /\ FetchBatch \in Nat \ {0}
  /\ MaxInFlight \in Nat \ {0}
  /\ Fenced \in BOOLEAN
  /\ Epoch \subseteq Nat

VARIABLES
  stream,    \* broker state of each record for this durable
  up,        \* workers whose consumer task runs
  task,      \* progress of process_delivery for each fetched record
  receipt,   \* inbox_receipt: committed body per message identity
  derived,   \* committed derived outbox messages per causing identity
  tenant,    \* the cell_control.tenant_authority row
  calm       \* TRUE once faults and authority changes have stopped

dbVars == <<receipt, derived, tenant>>
vars == <<stream, up, task, receipt, derived, tenant, calm>>

TaskState == {"none", "queued", "fenced", "inserted", "duplicate", "committed", "rejected"}
InFlight == {"fenced", "inserted", "duplicate", "committed", "rejected"}
Tenant == [serving : {"absent", "disabled", "enabled"}, epoch : Epoch]

Goto(w, e, pc) == task' = [task EXCEPT ![w][e] = pc]
Busy(w) == {e \in Entry : task[w][e] # "none"}

\* The process ends: every future of the batch is dropped and every open
\* transaction of it is rolled back.
Stop(w) ==
  /\ up' = up \ {w}
  /\ task' = [task EXCEPT ![w] = [e \in Entry |-> "none"]]

\* edtech_internal.tenant_scope_status() = 'active'
ScopeActive(e) == tenant.serving = "enabled" /\ tenant.epoch = EpochOf(e)

\* A mutant of KeyUnlocked: receipts have no unique key to wait for.
KeyIgnored(w, e) == TRUE

\* The unique key (consumer_name, message_id) is free or committed.
KeyUnlocked(w, e) ==
  \A v \in Worker, f \in Entry :
    task[v][f] = "inserted" /\ IdOf(f) = IdOf(e) => v = w /\ f = e

\* A mutant of Applied: a duplicate receipt enqueues the derived message too.
AppliedTwice(w, e) ==
  /\ receipt' = [receipt EXCEPT ![IdOf(e)] = BodyOf(e)]
  /\ derived' = [derived EXCEPT ![IdOf(e)] = @ + (IF IdOf(e) \in Commands THEN 1 ELSE 0)]

\* COMMIT of the delivery's transaction: receipt and derived row together.
Applied(w, e) ==
  IF task[w][e] = "inserted"
  THEN /\ receipt' = [receipt EXCEPT ![IdOf(e)] = BodyOf(e)]
       /\ derived' = [derived EXCEPT ![IdOf(e)] = @ + (IF IdOf(e) \in Commands THEN 1 ELSE 0)]
  ELSE UNCHANGED <<receipt, derived>>

TypeOK ==
  /\ stream \in [Entry -> {"absent", "ready", "pending", "acked"}]
  /\ up \subseteq Worker
  /\ task \in [Worker -> [Entry -> TaskState]]
  /\ receipt \in [MessageId -> Body \cup {NoBody}]
  /\ derived \in [MessageId -> Nat]
  /\ tenant \in Tenant
  /\ calm \in BOOLEAN

Init ==
  /\ stream = [e \in Entry |-> "absent"]
  /\ up = Worker
  /\ task = [w \in Worker |-> [e \in Entry |-> "none"]]
  /\ receipt = [i \in MessageId |-> NoBody]
  /\ derived = [i \in MessageId |-> 0]
  /\ tenant \in Tenant
  /\ calm = FALSE

----------------------------------------------------------------------------
(* The broker and the tenant authority.                                    *)

Store(e) ==
  /\ stream[e] = "absent"
  /\ stream' = [stream EXCEPT ![e] = "ready"]
  /\ UNCHANGED <<up, task, dbVars, calm>>

\* AckWait ran out.  Deliveries queue behind MaxInFlight, so this happens
\* while a worker still holds the record; once calm it no longer does.
Redeliver(e) ==
  /\ stream[e] = "pending"
  /\ calm => \A w \in Worker : task[w][e] = "none"
  /\ stream' = [stream EXCEPT ![e] = "ready"]
  /\ UNCHANGED <<up, task, dbVars, calm>>

\* Operators register, enable, disable and move the tenant of a Cell.
ChangeTenant ==
  /\ Fenced
  /\ ~calm
  /\ \E t \in Tenant : t.epoch >= tenant.epoch /\ tenant' = t
  /\ UNCHANGED <<stream, up, task, receipt, derived, calm>>

Settle ==
  /\ ~calm
  /\ calm' = TRUE
  /\ UNCHANGED <<stream, up, task, dbVars>>

----------------------------------------------------------------------------
(* The worker: run_consumer, process_delivery and the handlers.            *)

\* A mutant of Fetch: a record that fails validation ends the task at once.
FetchOrStop(w, B) ==
  /\ w \in up /\ Busy(w) = {}
  /\ B # {} /\ Cardinality(B) <= FetchBatch
  /\ \A e \in B : stream[e] = "ready"
  /\ stream' = [e \in Entry |-> IF e \in B THEN "pending" ELSE stream[e]]
  /\ IF \E e \in B : FormOf(e) # "valid" THEN Stop(w)
     ELSE /\ task' = [task EXCEPT ![w] = [e \in Entry |-> IF e \in B THEN "queued" ELSE "none"]]
          /\ UNCHANGED up
  /\ UNCHANGED <<dbVars, calm>>

\* BoundConsumer::fetch.  Headers outside the bounds fail the whole fetch with
\* a category that is not transient, and the consumer task ends; a transient
\* fetch error drops the deliveries already pulled and the loop continues.
Fetch(w, B) ==
  /\ w \in up
  /\ Busy(w) = {}
  /\ B # {}
  /\ Cardinality(B) <= FetchBatch
  /\ \A e \in B : stream[e] = "ready"
  /\ stream' = [e \in Entry |-> IF e \in B THEN "pending" ELSE stream[e]]
  /\ \/ /\ \A e \in B : FormOf(e) # "unbounded"
        /\ task' = [task EXCEPT ![w] = [e \in Entry |-> IF e \in B THEN "queued" ELSE "none"]]
        /\ UNCHANGED up
     \/ /\ \E e \in B : FormOf(e) = "unbounded"
        /\ Stop(w)
     \/ /\ ~calm
        /\ UNCHANGED <<task, up>>
  /\ UNCHANGED <<dbVars, calm>>

\* buffer_unordered starts the delivery: decoding, header, subject, contract
\* and authority checks, then BEGIN and the tenant check.  A database error in
\* them rejects the delivery as well.
Begin(w, e) ==
  /\ task[w][e] = "queued"
  /\ Cardinality({f \in Entry : task[w][f] \in InFlight}) < MaxInFlight
  /\ \/ /\ FormOf(e) = "valid"
        /\ Fenced => ScopeActive(e)
        /\ Goto(w, e, "fenced")
     \/ /\ FormOf(e) # "valid" \/ (Fenced /\ ~ScopeActive(e)) \/ ~calm
        /\ Goto(w, e, "rejected")
  /\ UNCHANGED <<stream, up, dbVars, calm>>

\* A mutant of RecordInbox: an exact duplicate is rejected instead of done.
RecordInboxNoDuplicate(w, e) ==
  /\ task[w][e] = "fenced"
  /\ KeyUnlocked(w, e)
  /\ Goto(w, e, IF receipt[IdOf(e)] = NoBody THEN "inserted" ELSE "rejected")
  /\ UNCHANGED <<stream, up, dbVars, calm>>

\* record_inbox and, for a first receipt, enqueue of the derived message.  A
\* differing body is InboxConflict: rollback and fatal task failure.
RecordInbox(w, e) ==
  /\ task[w][e] = "fenced"
  /\ KeyUnlocked(w, e)
  /\ \/ receipt[IdOf(e)] = NoBody /\ Goto(w, e, "inserted") /\ UNCHANGED up
     \/ receipt[IdOf(e)] = BodyOf(e) /\ Goto(w, e, "duplicate") /\ UNCHANGED up
     \/ receipt[IdOf(e)] \notin {NoBody, BodyOf(e)} /\ Stop(w)
  /\ UNCHANGED <<stream, dbVars, calm>>

Commit(w, e) ==
  /\ task[w][e] \in {"inserted", "duplicate"}
  /\ Applied(w, e)
  /\ Goto(w, e, "committed")
  /\ UNCHANGED <<stream, up, tenant, calm>>

\* A database error rejects the delivery; when it hits the commit, the
\* transaction may have been applied all the same.
DatabaseFails(w, e) ==
  /\ ~calm
  /\ task[w][e] \in {"fenced", "inserted", "duplicate"}
  /\ Applied(w, e) \/ UNCHANGED <<receipt, derived>>
  /\ Goto(w, e, "rejected")
  /\ UNCHANGED <<stream, up, tenant, calm>>

\* A mutant of HandlerTimeout: the timeout acknowledges what it gave up.
HandlerTimeoutAcks(w, e) ==
  /\ task[w][e] \in InFlight
  /\ stream' = [stream EXCEPT ![e] = "acked"]
  /\ Goto(w, e, "none")
  /\ UNCHANGED <<up, dbVars, calm>>

\* The handler timeout drops the future and with it an open transaction; the
\* delivery is neither acknowledged nor rejected.
HandlerTimeout(w, e) ==
  /\ ~calm
  /\ task[w][e] \in InFlight
  /\ Goto(w, e, "none")
  /\ UNCHANGED <<stream, up, dbVars, calm>>

\* Double acknowledgment; an error is tolerated and left to redelivery.
Acknowledge(w, e) ==
  /\ task[w][e] = "committed"
  /\ \/ stream' = [stream EXCEPT ![e] = "acked"]
     \/ ~calm /\ UNCHANGED stream
  /\ Goto(w, e, "none")
  /\ UNCHANGED <<up, dbVars, calm>>

\* reject_delivery: delayed NAK, which may also be lost.
Reject(w, e) ==
  /\ task[w][e] = "rejected"
  /\ \/ stream' = [stream EXCEPT ![e] = IF @ = "pending" THEN "ready" ELSE @]
     \/ ~calm /\ UNCHANGED stream
  /\ Goto(w, e, "none")
  /\ UNCHANGED <<up, dbVars, calm>>

Crash(w) ==
  /\ ~calm
  /\ w \in up
  /\ Stop(w)
  /\ UNCHANGED <<stream, dbVars, calm>>

Restart(w) ==
  /\ w \notin up
  /\ up' = up \cup {w}
  /\ UNCHANGED <<stream, task, dbVars, calm>>

Handle(w, e) ==
  \/ Begin(w, e)
  \/ RecordInbox(w, e)
  \/ Commit(w, e)
  \/ Acknowledge(w, e)
  \/ Reject(w, e)

Next ==
  \/ \E e \in Entry : Store(e) \/ Redeliver(e)
  \/ \E w \in Worker, B \in SUBSET Entry : Fetch(w, B)
  \/ \E w \in Worker, e \in Entry : Handle(w, e) \/ DatabaseFails(w, e) \/ HandlerTimeout(w, e)
  \/ \E w \in Worker : Crash(w) \/ Restart(w)
  \/ ChangeTenant
  \/ Settle

Spec == Init /\ [][Next]_vars

\* Every future of a batch is polled, processes are restarted, AckWait runs,
\* and the broker serves waiting records in turn, so that one which stays
\* deliverable is fetched again and again.
Fairness ==
  /\ WF_vars(Settle)
  /\ \A e \in Entry :
       /\ WF_vars(Redeliver(e))
       /\ SF_vars(\E w \in Worker, B \in SUBSET Entry : e \in B /\ Fetch(w, B))
  /\ \A w \in Worker :
       /\ WF_vars(Restart(w))
       /\ \A e \in Entry : WF_vars(Handle(w, e))

FairSpec == Spec /\ Fairness

----------------------------------------------------------------------------
(* Correctness.                                                            *)

Acked == {e \in Entry : stream[e] = "acked"}

\* Inbox commit precedes broker acknowledgment: a record is never lost to an
\* acknowledgment whose transaction rolled back, timed out or conflicted.
AckedImpliesReceipt ==
  \A e \in Acked : receipt[IdOf(e)] = BodyOf(e)

\* Receipt and derived message commit together and once, although the same
\* message is redelivered, duplicated in the stream and handled concurrently.
OneEffectPerReceipt ==
  \A i \in MessageId :
    derived[i] = IF receipt[i] # NoBody /\ i \in Commands THEN 1 ELSE 0

\* The next delivery of record f ends the whole consumer task, and with it
\* the deliveries that share its batch.
Fatal(f) ==
  /\ stream[f] \in {"ready", "pending"}
  /\ \/ FormOf(f) = "unbounded"
     \/ FormOf(f) = "valid" /\ receipt[IdOf(f)] \notin {NoBody, BodyOf(f)}

\* Once faults stop, a valid record is acknowledged unless the tenant check
\* turns it away or a fatal record keeps ending the consumer.
EventuallyAcknowledged ==
  \A e \in Entry :
    stream[e] # "absent" /\ FormOf(e) = "valid"
    ~> \/ stream[e] = "acked"
       \/ Fenced /\ ~ScopeActive(e)
       \/ \E f \in Entry : Fatal(f)

\* docs/architecture/transport-routing.md: malformed or unsupported
\* deliveries receive a bounded delayed NAK.
MalformedIsRejected ==
  \A e \in Entry :
    stream[e] # "absent" /\ FormOf(e) # "valid"
    ~> \E w \in Worker : task[w][e] = "rejected"

\* The consumer implements the idempotent inbox.
Abstract == INSTANCE IdempotentInbox
              WITH handled <- receipt, effects <- derived, acked <- Acked,
                   Derives <- LAMBDA i : i \in Commands

ImplementsInbox == Abstract!Spec
============================================================================
