------------------------- MODULE MCSchemaDeployment -------------------------
(* One database of either authority. Operators run each migrator with its     *)
(* credential, once against another Cell and once with a runtime credential,  *)
(* and start each binary, once with a credential that may change the schema.  *)
EXTENDS SchemaDeployment

CONSTANTS d1, c1, c2

Migrating(a, role, mode) ==
  [db |-> d1, server |-> 180004, scope |-> a, mode |-> mode,
   cred |-> [role |-> role, may |-> {"create", "owner"}]]

MCRequests ==
  {Migrating(c1, "edtech_cell_migrator", "run"),
   Migrating(c1, "edtech_cell_migrator", "check-database"),
   Migrating(c2, "edtech_cell_migrator", "run"),
   Migrating("platform", "edtech_platform_migrator", "run"),
   Migrating(c1, "edtech_cell_worker", "run")}

Starting(app, a, role, may) ==
  [db |-> d1, server |-> 180004, scope |-> a, mode |-> "run", app |-> app,
   cred |-> [role |-> role, may |-> may]]

MCLinks ==
  {Starting("cell-api", c1, "edtech_cell_api", {}),
   Starting("cell-worker", c1, "edtech_cell_worker", {}),
   [Starting("cell-worker", c1, "edtech_cell_worker", {"owner"}) EXCEPT !.mode = "check-database"],
   [Starting("cell-worker", c1, "edtech_cell_worker", {}) EXCEPT !.mode = "check-runtime"],
   Starting("platform-api", "platform", "edtech_platform_api", {}),
   Starting("platform-worker", "platform", "edtech_platform_worker", {})}
=============================================================================
