-------------------------- MODULE IdempotentInbox --------------------------
(***************************************************************************)
(* What the inbox promises: a named handler takes effect once per message  *)
(* identity, with the first committed body, and the broker learns that a   *)
(* record is done only after that effect is durable.                       *)
(***************************************************************************)
EXTENDS Integers
CONSTANTS Entry, MessageId, IdOf(_), BodyOf(_), NoBody, Derives(_)

VARIABLES handled,  \* body the handler committed for each identity
          effects,  \* derived messages committed for each identity
          acked     \* stream records the broker will not deliver again

vars == <<handled, effects, acked>>

Init ==
  /\ handled = [i \in MessageId |-> NoBody]
  /\ effects = [i \in MessageId |-> 0]
  /\ acked = {}

Handle(e) ==
  /\ handled[IdOf(e)] = NoBody
  /\ handled' = [handled EXCEPT ![IdOf(e)] = BodyOf(e)]
  /\ effects' = [effects EXCEPT ![IdOf(e)] = IF Derives(IdOf(e)) THEN 1 ELSE 0]
  /\ UNCHANGED acked

Acknowledge(e) ==
  /\ handled[IdOf(e)] = BodyOf(e)
  /\ acked' = acked \cup {e}
  /\ UNCHANGED <<handled, effects>>

Next == \E e \in Entry : Handle(e) \/ Acknowledge(e)

Spec == Init /\ [][Next]_vars
============================================================================
