------------------------ MODULE TransactionalOutbox ------------------------
(***************************************************************************)
(* What the transactional outbox promises, whatever workers, leases,       *)
(* crashes and retries do underneath: a message is committed by its        *)
(* authority, the broker accepts only committed messages, and the          *)
(* published marker follows acceptance.  No step is ever undone.           *)
(***************************************************************************)
CONSTANT Message

VARIABLES committed,   \* messages whose outbox transaction committed
          accepted,    \* messages the broker's stream has confirmed
          marked       \* messages with a published_at timestamp

vars == <<committed, accepted, marked>>

Init == committed = {} /\ accepted = {} /\ marked = {}

Commit(m) ==
  /\ m \notin committed
  /\ committed' = committed \cup {m}
  /\ UNCHANGED <<accepted, marked>>

Accept(m) ==
  /\ m \in committed
  /\ accepted' = accepted \cup {m}
  /\ UNCHANGED <<committed, marked>>

Mark(m) ==
  /\ m \in accepted
  /\ marked' = marked \cup {m}
  /\ UNCHANGED <<committed, accepted>>

Next == \E m \in Message : Commit(m) \/ Accept(m) \/ Mark(m)

Spec == Init /\ [][Next]_vars
============================================================================
