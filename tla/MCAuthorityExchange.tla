------------------------ MODULE MCAuthorityExchange ------------------------
(***************************************************************************)
(* Two Cells, of which only "c1" has a registered tenant assignment.       *)
(***************************************************************************)
EXTENDS AuthorityExchange

MCRegistered(c) == IF c = "c1" THEN {1} ELSE {}

Command(contract, source, scope, target) ==
  [kind |-> "command", contract |-> contract, source |-> source,
   scope |-> scope, target |-> target]
Event(source, scope) ==
  [kind |-> "event", contract |-> "other", source |-> source,
   scope |-> scope, target |-> None]

\* The two probes in contract; then the ways an application leaves it: a scope
\* of another Cell, a Cell scope, an assignment nobody registered, a command to
\* itself, a Cell that no manifest declares and an event that no route carries.
MCRequests ==
  {Command("cell-probe-requested", Platform, TenantScope("c1", 1), "c1"),
   Command("platform-probe-requested", "c1", TenantScope("c1", 1), Platform),
   Command("cell-probe-requested", Platform, TenantScope("c1", 1), "c2"),
   Command("platform-probe-requested", "c1", CellScope("c1"), Platform),
   Command("cell-probe-requested", Platform, TenantScope("c2", 1), "c2"),
   Command("platform-probe-requested", "c2", TenantScope("c2", 1), Platform),
   Command("platform-probe-requested", "c1", TenantScope("c1", 1), "c1"),
   Command("cell-probe-requested", Platform, TenantScope("c3", 1), "c3"),
   Event(Platform, PlatformScope)}
============================================================================
