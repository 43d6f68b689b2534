------------------------ MODULE TopologyProvisioner ------------------------
(***************************************************************************)
(* nats-provisioner: plan the JetStream topology, refuse unsafe drift,     *)
(* create or enlarge the declared assets one by one, wait for their        *)
(* replicas, plan again and report convergence.  Runs may overlap, fail    *)
(* between two requests and be repeated; other administrators may leave    *)
(* drift behind.  A run reads the broker one asset at a time.              *)
(***************************************************************************)
EXTENDS Integers, Sequences

CONSTANTS
  Stream, Consumer, StreamOf(_),
  Provisioner,        \* runs of nats-provisioner, each with its manifest
  Order(_),           \* declared assets of a manifest, in apply order
  Missing,            \* the asset does not exist
  Replicas, Limit,    \* desired replica count and capacity bounds
  Drifted             \* configurations other administrators leave behind

Asset == Stream \cup Consumer
Unlimited == -1       \* the broker's sentinel for "no bound"

Config == [identity : BOOLEAN,   \* subjects, retention, storage, durable, filter...
           replicas : Nat,
           limit : Nat \cup {Unlimited},   \* messages, bytes, age, duplicate window...
           forbidden : {"none",
                        "inspected",  \* discard, direct access, memory storage
                        "other"},     \* mirror, republish, backoff, rate limit...
           described : BOOLEAN]  \* description, replaced if it differs

Declared(p) == {Order(p)[i] : i \in DOMAIN Order(p)}

ASSUME TopologyAssumption ==
  /\ Stream \cap Consumer = {}
  /\ \A c \in Consumer : StreamOf(c) \in Stream
  /\ \A p \in Provisioner :
       /\ Order(p) \in Seq(Asset)
       /\ \A i \in DOMAIN Order(p) : Order(p)[i] \in Consumer =>
            \E j \in 1..(i - 1) : Order(p)[j] = StreamOf(Order(p)[i])
  /\ Replicas \in Nat
  /\ Limit \in Nat
  /\ Drifted \subseteq Config
  /\ Missing \notin Config

VARIABLES
  config,   \* what the broker holds for each asset
  phase,    \* where each provisioner stands
  next,     \* position in the list of declared assets
  plan,     \* action planned for each asset
  stale,    \* runs that meet drift after they began the plan they act on
  calm      \* TRUE once faults and drift have stopped

vars == <<config, phase, next, plan, stale, calm>>

Ended == {"off", "refused", "failed", "converged"}
Planning == {"preview", "apply", "verify"}

TypeOK ==
  /\ config \in [Asset -> Config \cup {Missing}]
  /\ phase \in [Provisioner -> Ended \cup Planning \cup {"mutate", "wait"}]
  /\ next \in [Provisioner -> Nat]
  /\ \A p \in Provisioner : next[p] \in 1..(Len(Order(p)) + 1)
  /\ plan \in [Provisioner -> [Asset -> {"none", "create", "update", "nochange", "refused"}]]
  /\ stale \subseteq Provisioner
  /\ calm \in BOOLEAN

\* provider_config of a declared asset.
DesiredConfig == [identity |-> TRUE, replicas |-> Replicas, limit |-> Limit,
                  forbidden |-> "none", described |-> TRUE]

\* Mutants of Classify: capacity is not compared, or nothing is ever refused.
ClassifyLoose(c) ==
  IF ~c.identity \/ c.replicas > Replicas \/ c.limit > Limit \/ c.forbidden # "none" THEN "refused"
  ELSE IF ~c.described THEN "update" ELSE "nochange"

ClassifyTrusting(c) ==
  IF c.identity /\ c.replicas = Replicas /\ c.limit = Limit /\ c.described
  THEN "nochange" ELSE "update"

\* classify_stream and classify_consumer, the categories left out.
Classify(c) ==
  IF ~c.identity \/ c.replicas > Replicas \/ c.limit > Limit \/ c.forbidden # "none"
  THEN "refused"
  ELSE IF c.replicas < Replicas \/ c.limit < Limit \/ ~c.described
  THEN "update"
  ELSE "nochange"

\* The item that plan pushes for a declared asset: consumers of a stream the
\* plan found missing are planned without looking at them.
PlanItem(p, a) ==
  IF config[a] = Missing \/ (a \in Consumer /\ plan[p][StreamOf(a)] = "create")
  THEN "create" ELSE Classify(config[a])

HasRefusedChange(p) == \E a \in Declared(p) : plan[p][a] = "refused"
IsConverged(p) == \A a \in Declared(p) : plan[p][a] = "nochange"

\* What a worker demands of the topology before it binds to it: of the
\* forbidden features it looks for the inspected ones only.
StreamVerified(s) ==
  /\ config[s] # Missing
  /\ config[s].identity
  /\ config[s].replicas = Replicas
  /\ config[s].forbidden # "inspected"

ConsumerVerified(c) ==
  /\ config[c] # Missing
  /\ config[c].identity
  /\ config[c].replicas = Replicas
  /\ config[c].limit = Limit
  /\ config[c].forbidden # "inspected"

Init ==
  /\ config = [a \in Asset |-> Missing]
  /\ phase = [p \in Provisioner |-> "off"]
  /\ next = [p \in Provisioner |-> 1]
  /\ plan = [p \in Provisioner |-> [a \in Asset |-> "none"]]
  /\ stale = {}
  /\ calm = FALSE

----------------------------------------------------------------------------
(* A provisioner run: apply_topology, plan and apply.                      *)

Enter(p, ph) ==
  /\ phase' = [phase EXCEPT ![p] = ph]
  /\ next' = [next EXCEPT ![p] = 1]
  /\ plan' = [plan EXCEPT ![p] = IF ph \in {"mutate", "wait"} THEN @ ELSE [a \in Asset |-> "none"]]
  /\ stale' = IF ph \in {"mutate", "wait"} THEN stale ELSE stale \ {p}

Step(p) ==
  /\ next' = [next EXCEPT ![p] = @ + 1]
  /\ UNCHANGED <<phase, stale>>

AtEnd(p) == next[p] > Len(Order(p))

Start(p) ==
  /\ phase[p] \in Ended
  /\ Enter(p, "preview")
  /\ UNCHANGED <<config, calm>>

ReadAsset(p) ==
  /\ phase[p] \in Planning
  /\ ~AtEnd(p)
  /\ LET a == Order(p)[next[p]] IN plan' = [plan EXCEPT ![p][a] = PlanItem(p, a)]
  /\ Step(p)
  /\ UNCHANGED <<config, calm>>

\* A mutant of Decide: drift is refused asset by asset, while applying.
DecideLater(p) ==
  /\ phase[p] \in Planning
  /\ AtEnd(p)
  /\ Enter(p, CASE phase[p] = "preview" -> "apply"
                [] phase[p] = "apply" -> "mutate"
                [] phase[p] = "verify" -> IF IsConverged(p) THEN "converged" ELSE "failed")
  /\ UNCHANGED <<config, calm>>

\* main refuses on its own plan, apply plans again and refuses on that one,
\* and the last plan decides what is reported.
Decide(p) ==
  /\ phase[p] \in Planning
  /\ AtEnd(p)
  /\ \/ phase[p] = "preview" /\ Enter(p, IF HasRefusedChange(p) THEN "refused" ELSE "apply")
     \/ phase[p] = "apply" /\ Enter(p, IF HasRefusedChange(p) THEN "refused" ELSE "mutate")
     \/ phase[p] = "verify" /\ Enter(p, IF IsConverged(p) THEN "converged" ELSE "failed")
  /\ UNCHANGED <<config, calm>>

\* A mutant of Apply: creation fails when the consumer already exists, which
\* is what the next run meets after a crash; updates of consumers do nothing.
ApplyCreateOnly(p) ==
  /\ phase[p] = "mutate"
  /\ ~AtEnd(p)
  /\ LET a == Order(p)[next[p]] IN
     IF plan[p][a] \in {"create", "update"} /\ (a \in Stream \/ config[a] = Missing)
     THEN config' = [config EXCEPT ![a] = DesiredConfig]
     ELSE UNCHANGED config
  /\ Step(p)
  /\ UNCHANGED <<plan, calm>>

\* One iteration of apply's loops.  create_stream accepts an existing stream
\* only when it is identical; create_consumer creates or updates.
Apply(p) ==
  /\ phase[p] = "mutate"
  /\ ~AtEnd(p)
  /\ LET a == Order(p)[next[p]]
         rejected ==
           \/ a \in Consumer /\ config[StreamOf(a)] = Missing
           \/ a \in Stream /\ plan[p][a] = "create" /\ config[a] \notin {Missing, DesiredConfig}
           \/ a \in Stream /\ plan[p][a] = "update" /\ config[a] = Missing
           \/ plan[p][a] = "refused"
     IN \/ /\ rejected
           /\ Enter(p, "failed")
           /\ UNCHANGED config
        \/ /\ ~rejected
           /\ config' = IF plan[p][a] \in {"create", "update"}
                        THEN [config EXCEPT ![a] = DesiredConfig] ELSE config
           /\ Step(p)
           /\ UNCHANGED plan
  /\ UNCHANGED calm

Applied(p) ==
  /\ phase[p] = "mutate"
  /\ AtEnd(p)
  /\ Enter(p, "wait")
  /\ UNCHANGED <<config, calm>>

\* wait_ready: assets are polled in turn; one that has no leader or a lagging
\* replica starts the round again until the deadline.
WaitReady(p) ==
  /\ phase[p] = "wait"
  /\ \/ /\ AtEnd(p)
        /\ Enter(p, "verify")
     \/ /\ ~AtEnd(p)
        /\ config[Order(p)[next[p]]] # Missing
        /\ Step(p)
        /\ UNCHANGED plan
     \/ /\ ~calm
        /\ Enter(p, "wait")
     \/ /\ ~calm \/ (~AtEnd(p) /\ config[Order(p)[next[p]]] = Missing)
        /\ Enter(p, "failed")
  /\ UNCHANGED <<config, calm>>

\* Any request may fail, and the process may die, between two steps.
Fail(p) ==
  /\ ~calm
  /\ phase[p] \notin Ended
  /\ Enter(p, "failed")
  /\ UNCHANGED <<config, calm>>

Drift ==
  /\ ~calm
  /\ \E a \in Asset, c \in Drifted \cup {Missing} :
       /\ a \in Consumer /\ c # Missing => config[StreamOf(a)] # Missing
       /\ config' = [b \in Asset |->
            IF b = a \/ (c = Missing /\ b \in Consumer /\ StreamOf(b) = a) THEN c ELSE config[b]]
  /\ stale' = {p \in Provisioner : phase[p] \notin Ended}
  /\ UNCHANGED <<phase, next, plan, calm>>

Settle ==
  /\ ~calm
  /\ calm' = TRUE
  /\ UNCHANGED <<config, phase, next, plan, stale>>

Run(p) == Start(p) \/ ReadAsset(p) \/ Decide(p) \/ Apply(p) \/ Applied(p) \/ WaitReady(p)

Next ==
  \/ \E p \in Provisioner : Run(p) \/ Fail(p)
  \/ Drift
  \/ Settle

Spec == Init /\ [][Next]_vars

\* Operators repeat the run, requests are answered, faults end.
Fairness == WF_vars(Settle) /\ \A p \in Provisioner : WF_vars(Run(p))
FairSpec == Spec /\ Fairness

----------------------------------------------------------------------------
(* Correctness.                                                            *)

Writes(p) == phase[p] = "mutate" /\ config' # config /\ next'[p] # next[p]

\* Unsafe drift in any declared asset keeps a run from changing any of them,
\* also the ones it would have reached before the unsafe one; only drift that
\* arrives after the run began its plan escapes it.
RefusesTheWholeMutation ==
  [][\A p \in Provisioner \ stale : Writes(p) =>
       \A a \in Declared(p) : config[a] = Missing \/ Classify(config[a]) # "refused"]_vars

Capacity(l) == IF l = Unlimited THEN 1000000 ELSE l

\* docs/architecture/nats-topology.md: a provisioner never lowers a bound or a
\* replica count, never changes identity and never deletes what it planned on.
NeverDecreases ==
  [][\A a \in Asset :
       (\E p \in Provisioner \ stale : Writes(p)) /\ config[a] # Missing =>
         /\ config'[a] # Missing
         /\ config'[a].identity = config[a].identity
         /\ config'[a].replicas >= config[a].replicas
         /\ Capacity(config'[a].limit) >= Capacity(config[a].limit)]_vars

\* A run that reports convergence leaves a topology that every worker of the
\* manifest accepts when it connects and binds, unless it changed under the
\* last plan.
ConvergedMeansBindable ==
  [][\A p \in Provisioner \ stale : phase[p] # "converged" /\ phase'[p] = "converged" =>
       /\ \A s \in Stream \cap Declared(p) : StreamVerified(s)
       /\ \A c \in Consumer \cap Declared(p) : ConsumerVerified(c)]_vars

\* After any number of failed, overlapping or interrupted runs, repeating the
\* run converges unless an asset holds drift that is refused.
EventuallyConverged ==
  \A p \in Provisioner :
    calm ~> \/ /\ phase[p] = "converged"
               /\ \A a \in Declared(p) : config[a] # Missing /\ Classify(config[a]) = "nochange"
            \/ \E a \in Declared(p) : config[a] # Missing /\ Classify(config[a]) = "refused"
============================================================================
