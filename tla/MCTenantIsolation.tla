------------------------- MODULE MCTenantIsolation -------------------------
(* Two calls share one or two connections. The calls: every operation for   *)
(* tenant t1 with its first epoch, a write for the other tenant, and the     *)
(* calls that must be refused.                                               *)
EXTENDS TenantIsolation

CONSTANTS t1, t2, n1, here, there

Scope(t, c, e) == [tenant |-> t, cell |-> c, epoch |-> e]
S1 == Scope(t1, here, 1)
S2 == Scope(t2, here, 1)

Make(op, request, message) ==
  [op |-> op, request |-> request, canary |-> n1, payload |-> TRUE, message |-> message]

MCCalls ==
  {Make(op, S1, S1) : op \in Ops}
    \cup {Make("write+enqueue", S1, S2),
          Make("update", Scope(t1, here, 2), S1),
          Make("write", S2, S2),
          Make("enqueue", S1, CellScope),
          Make("enqueue", S1, PlatformScope),
          Make("read", Scope(t1, there, 1), S1),
          Make("read", PlatformScope, S1),
          [Make("write", S1, S1) EXCEPT !.payload = FALSE]}
=============================================================================
