-------------------------- MODULE MCInboxConsumer --------------------------
EXTENDS InboxConsumer, TLC

\* r1 and r2 are the same message stored twice, outside the duplicate window;
\* r3 reuses its identity with another body; r4 fails validation and r5 has
\* headers outside the bounds.
Carries(r, a) ==
  CASE a = "id" -> IF r \in {"r4", "r5"} THEN "j" ELSE "i"
    [] a = "body" -> IF r = "r3" THEN "y" ELSE "x"
    [] a = "form" -> IF r = "r4" THEN "invalid" ELSE IF r = "r5" THEN "unbounded" ELSE "valid"

MCId(r) == Carries(r, "id")
MCBody(r) == Carries(r, "body")
MCForm(r) == Carries(r, "form")
MCEpoch(r) == 1

WorkerSymmetry == Permutations(Worker)
============================================================================
