--------------------- MODULE TopologyProvisionerProofs ---------------------
(***************************************************************************)
(* Proofs about TopologyProvisioner: a run that is not overtaken by drift  *)
(* changes nothing while a declared asset holds drift it must refuse,      *)
(* never lowers what the broker holds, and reports convergence only of a   *)
(* topology that workers accept, whatever the number of overlapping runs,  *)
(* their manifests and the assets.                                         *)
(***************************************************************************)
EXTENDS TopologyProvisioner, TLAPS

Planned == {"create", "update", "nochange"}

\* Nothing in the asset keeps a provisioner from applying its manifest.
Acceptable(c) == c = Missing \/ Classify(c) # "refused"

\* The broker deletes the consumers of a stream with it, and creates none
\* without it.
ConsumersHaveStreams ==
  \A c \in Consumer : config[c] # Missing => config[StreamOf(c)] # Missing

\* A plan has an item for every asset read so far, a run that ended has none,
\* and a run writes only from a complete plan without refusals.
PlansAreComplete ==
  \A p \in Provisioner :
    /\ phase[p] \in Ended => \A a \in Asset : plan[p][a] = "none"
    /\ phase[p] \in Planning =>
         \A i \in DOMAIN Order(p) : i < next[p] => plan[p][Order(p)[i]] # "none"
    /\ phase[p] = "mutate" => \A a \in Declared(p) : plan[p][a] \in Planned

\* What a plan says of an asset stays true of the broker until drift makes
\* the plan stale, although other runs write in the meantime.  A stream that
\* was missing vouches for its consumers, which are planned unread.
PlansStayTrue ==
  \A p \in Provisioner \ stale : \A a \in Asset :
    /\ plan[p][a] \in Planned => Acceptable(config[a])
    /\ plan[p][a] = "nochange" => config[a] # Missing /\ Classify(config[a]) = "nochange"
    /\ plan[p][a] = "create" =>
         \A c \in Consumer : StreamOf(c) = a => Acceptable(config[c])

TopologyInv == TypeOK /\ ConsumersHaveStreams /\ PlansAreComplete /\ PlansStayTrue

----------------------------------------------------------------------------
(* Classification.                                                         *)

\* What is written is what every provisioner wants to find.
LEMMA DesiredIsNoChange ==
  DesiredConfig \in Config /\ DesiredConfig # Missing /\ Classify(DesiredConfig) = "nochange"
<1>1. DesiredConfig \in Config
  BY TopologyAssumption DEF DesiredConfig, Config
<1>2. Classify(DesiredConfig) = "nochange"
  BY TopologyAssumption DEF DesiredConfig, Classify
<1> QED
  BY <1>1, <1>2, TopologyAssumption

\* The items of a plan.
LEMMA ClassifyType ==
  ASSUME NEW c \in Config
  PROVE  Classify(c) \in {"update", "nochange", "refused"}
BY DEF Classify

\* classify_stream and classify_consumer answer NoChange for the desired
\* values only, and accept nothing that exceeds them.
LEMMA ClassifyMeaning ==
  ASSUME NEW c \in Config
  PROVE  /\ Classify(c) = "nochange" =>
              c.identity /\ c.replicas = Replicas /\ c.limit = Limit /\ c.forbidden = "none"
         /\ Classify(c) # "refused" =>
              c.identity /\ c.replicas <= Replicas /\ c.limit <= Limit
BY TopologyAssumption DEF Classify, Config, Unlimited

----------------------------------------------------------------------------
(* The invariant.                                                          *)

\* Nothing is declared at the broker and nothing is planned.
LEMMA TopologyInit == Init => TopologyInv
<1> SUFFICES ASSUME Init PROVE TopologyInv
  OBVIOUS
<1>1. \A p \in Provisioner : 1 \in 1..(Len(Order(p)) + 1)
  BY TopologyAssumption
<1>2. TypeOK
  BY <1>1 DEF Init, TypeOK, Ended
<1>3. ConsumersHaveStreams
  BY DEF Init, ConsumersHaveStreams, Asset
<1>4. \A p \in Provisioner : phase[p] = "off" /\ \A a \in Asset : plan[p][a] = "none"
  BY DEF Init
<1> QED
  BY <1>2, <1>3, <1>4 DEF TopologyInv, PlansAreComplete, PlansStayTrue, Planning, Planned

\* Entering a phase keeps the invariant: a phase that plans or ends starts
\* from an empty plan.
LEMMA EnterKeepsInv ==
  ASSUME TopologyInv, NEW p \in Provisioner,
         NEW ph \in Ended \cup Planning \cup {"mutate", "wait"},
         Enter(p, ph), UNCHANGED <<config, calm>>,
         ph = "mutate" => \A a \in Declared(p) : plan[p][a] \in Planned
  PROVE  TopologyInv'
<1>1. 1 \in 1..(Len(Order(p)) + 1)
  BY TopologyAssumption
<1>2. TypeOK'
  BY <1>1 DEF TopologyInv, TypeOK, Enter
<1>3. ConsumersHaveStreams'
  BY DEF TopologyInv, ConsumersHaveStreams
<1>4. /\ phase' = [phase EXCEPT ![p] = ph] /\ next' = [next EXCEPT ![p] = 1]
      /\ \A q \in Provisioner \ {p} : plan'[q] = plan[q] /\ next'[q] = next[q] /\ phase'[q] = phase[q]
      /\ phase'[p] = ph
      /\ ph \in {"mutate", "wait"} => plan'[p] = plan[p]
      /\ ph \notin {"mutate", "wait"} => \A a \in Asset : plan'[p][a] = "none"
  BY DEF TopologyInv, TypeOK, Enter
<1>5. next'[p] = 1
  BY DEF TopologyInv, TypeOK, Enter
<1>6. PlansAreComplete'
  <2> SUFFICES ASSUME NEW q \in Provisioner
      PROVE /\ phase'[q] \in Ended => \A a \in Asset : plan'[q][a] = "none"
            /\ phase'[q] \in Planning =>
                 \A i \in DOMAIN Order(q) : i < next'[q] => plan'[q][Order(q)[i]] # "none"
            /\ phase'[q] = "mutate" => \A a \in Declared(q) : plan'[q][a] \in Planned
    BY DEF PlansAreComplete, Declared
  <2>1. CASE q # p
    BY <1>4, <2>1 DEF TopologyInv, PlansAreComplete
  <2>2. CASE q = p
    <3>1. \A i \in DOMAIN Order(q) : ~(i < 1)
      BY TopologyAssumption
    <3> QED
      BY <1>4, <1>5, <2>2, <3>1 DEF Ended
  <2> QED
    BY <2>1, <2>2
<1>7. PlansStayTrue'
  <2> SUFFICES ASSUME NEW q \in Provisioner, q \notin stale', NEW a \in Asset
      PROVE /\ plan'[q][a] \in Planned => Acceptable(config[a])
            /\ plan'[q][a] = "nochange" => config[a] # Missing /\ Classify(config[a]) = "nochange"
            /\ plan'[q][a] = "create" =>
                 \A c \in Consumer : StreamOf(c) = a => Acceptable(config[c])
    BY DEF PlansStayTrue, Acceptable, Classify
  <2>1. CASE plan'[q][a] = "none"
    BY <2>1 DEF Planned
  <2>2. CASE plan'[q][a] # "none"
    <3>1. plan'[q] = plan[q] /\ q \notin stale
      BY <1>4, <2>2 DEF Enter
    <3> QED
      BY <3>1 DEF TopologyInv, PlansStayTrue
  <2> QED
    BY <2>1, <2>2
<1> QED
  BY <1>2, <1>3, <1>6, <1>7 DEF TopologyInv

\* Reading one asset adds an item that is true of it.
LEMMA ReadKeepsInv ==
  ASSUME TopologyInv, NEW p \in Provisioner, ReadAsset(p)
  PROVE  TopologyInv'
<1> DEFINE a == Order(p)[next[p]]
<1>1. next[p] \in DOMAIN Order(p) /\ a \in Asset /\ next[p] + 1 \in 1..(Len(Order(p)) + 1)
      /\ DOMAIN Order(p) = 1..Len(Order(p)) /\ next[p] \in Nat
  BY TopologyAssumption DEF ReadAsset, AtEnd, TopologyInv, TypeOK
<1>2. PlanItem(p, a) \in Planned \cup {"refused"}
  BY <1>1, ClassifyType DEF PlanItem, TopologyInv, TypeOK, Planned
<1>3. /\ plan' = [plan EXCEPT ![p][a] = PlanItem(p, a)]
      /\ next' = [next EXCEPT ![p] = next[p] + 1]
      /\ UNCHANGED <<phase, stale, config, calm>>
  BY DEF ReadAsset, Step
<1>4. TypeOK'
  BY <1>1, <1>2, <1>3 DEF TopologyInv, TypeOK, Planned
<1>5. ConsumersHaveStreams'
  BY <1>3 DEF TopologyInv, ConsumersHaveStreams
<1>6. \A q \in Provisioner, b \in Asset :
        plan'[q][b] = IF q = p /\ b = a THEN PlanItem(p, a) ELSE plan[q][b]
  BY <1>1, <1>3 DEF TopologyInv, TypeOK
<1>7. PlansAreComplete'
  <2> SUFFICES ASSUME NEW q \in Provisioner
      PROVE /\ phase[q] \in Ended => \A b \in Asset : plan'[q][b] = "none"
            /\ phase[q] \in Planning =>
                 \A i \in DOMAIN Order(q) : i < next'[q] => plan'[q][Order(q)[i]] # "none"
            /\ phase[q] = "mutate" => \A b \in Declared(q) : plan'[q][b] \in Planned
    BY <1>3 DEF PlansAreComplete, Declared
  <2>0. \A i \in DOMAIN Order(q) : Order(q)[i] \in Asset
    BY TopologyAssumption
  <2>1. CASE q # p
    <3>1. next'[q] = next[q] /\ \A b \in Asset : plan'[q][b] = plan[q][b]
      BY <1>3, <1>6, <2>1 DEF TopologyInv, TypeOK
    <3> QED
      BY <2>0, <3>1 DEF TopologyInv, PlansAreComplete, Declared
  <2>2. CASE q = p
    <3>1. phase[p] \in Planning /\ next'[p] = next[p] + 1
      BY <1>3 DEF ReadAsset, TopologyInv, TypeOK
    <3>2. \A i \in DOMAIN Order(p) : i < next[p] + 1 => i < next[p] \/ Order(p)[i] = a
      BY <1>1
    <3>3. \A i \in DOMAIN Order(p) : i < next[p] + 1 => plan'[p][Order(p)[i]] # "none"
      BY <1>2, <1>6, <2>0, <2>2, <3>1, <3>2 DEF TopologyInv, PlansAreComplete, Planned
    <3> QED
      BY <2>2, <3>1, <3>3 DEF Planning, Ended
  <2> QED
    BY <2>1, <2>2
<1>8. p \notin stale =>
        LET item == PlanItem(p, a) IN
        /\ item \in Planned => Acceptable(config[a])
        /\ item = "nochange" => config[a] # Missing /\ Classify(config[a]) = "nochange"
        /\ item = "create" => \A c \in Consumer : StreamOf(c) = a => Acceptable(config[c])
  <2> SUFFICES ASSUME p \notin stale
      PROVE LET item == PlanItem(p, a) IN
            /\ item \in Planned => Acceptable(config[a])
            /\ item = "nochange" => config[a] # Missing /\ Classify(config[a]) = "nochange"
            /\ item = "create" => \A c \in Consumer : StreamOf(c) = a => Acceptable(config[c])
    OBVIOUS
  <2>1. CASE config[a] = Missing
    <3>1. \A c \in Consumer : StreamOf(c) = a => config[c] = Missing
      BY <2>1 DEF TopologyInv, ConsumersHaveStreams
    <3> QED
      BY <2>1, <3>1 DEF PlanItem, Acceptable
  <2>2. CASE config[a] # Missing /\ a \in Consumer /\ plan[p][StreamOf(a)] = "create"
    <3>1. StreamOf(a) \in Asset /\ \A c \in Consumer : StreamOf(c) # a
      BY <2>2, TopologyAssumption DEF Asset
    <3> QED
      BY <2>2, <3>1 DEF PlanItem, TopologyInv, PlansStayTrue
  <2>3. CASE config[a] # Missing /\ ~(a \in Consumer /\ plan[p][StreamOf(a)] = "create")
    <3>1. PlanItem(p, a) = Classify(config[a]) /\ config[a] \in Config
      BY <1>1, <2>3 DEF PlanItem, TopologyInv, TypeOK
    <3> QED
      BY <2>3, <3>1, ClassifyType DEF Acceptable, Planned
  <2> QED
    BY <2>1, <2>2, <2>3
<1>9. PlansStayTrue'
  <2> SUFFICES ASSUME NEW q \in Provisioner, q \notin stale, NEW b \in Asset
      PROVE /\ plan'[q][b] \in Planned => Acceptable(config[b])
            /\ plan'[q][b] = "nochange" => config[b] # Missing /\ Classify(config[b]) = "nochange"
            /\ plan'[q][b] = "create" =>
                 \A c \in Consumer : StreamOf(c) = b => Acceptable(config[c])
    BY <1>3 DEF PlansStayTrue, Acceptable, Classify
  <2>1. CASE q = p /\ b = a
    BY <1>6, <1>8, <2>1
  <2>2. CASE ~(q = p /\ b = a)
    BY <1>6, <2>2 DEF TopologyInv, PlansStayTrue
  <2> QED
    BY <2>1, <2>2
<1> QED
  BY <1>4, <1>5, <1>7, <1>9 DEF TopologyInv

\* Writing the desired configuration spoils nobody's plan.
LEMMA WriteKeepsInv ==
  ASSUME TopologyInv, NEW a \in Asset, NEW p \in Provisioner, ~AtEnd(p), phase[p] = "mutate",
         a \in Consumer => config[StreamOf(a)] # Missing,
         \/ config' = [config EXCEPT ![a] = DesiredConfig]
         \/ config' = config,
         Step(p), UNCHANGED <<plan, calm>>
  PROVE  TopologyInv'
<1>0. /\ next[p] + 1 \in 1..(Len(Order(p)) + 1)
      /\ next' = [next EXCEPT ![p] = next[p] + 1]
      /\ UNCHANGED <<phase, stale, plan, calm>>
  BY TopologyAssumption DEF AtEnd, TopologyInv, TypeOK, Step
<1>1. \A b \in Asset : config'[b] = config[b] \/ config'[b] = DesiredConfig
  BY DEF TopologyInv, TypeOK
<1>2. TypeOK'
  <2>1. config' \in [Asset -> Config \cup {Missing}]
    BY DesiredIsNoChange DEF TopologyInv, TypeOK
  <2>2. /\ next' \in [Provisioner -> Nat]
        /\ \A q \in Provisioner : next'[q] \in 1..(Len(Order(q)) + 1)
    BY <1>0 DEF TopologyInv, TypeOK
  <2> QED
    BY <1>0, <2>1, <2>2 DEF TopologyInv, TypeOK
<1>3. ConsumersHaveStreams'
  <2> SUFFICES ASSUME NEW c \in Consumer, config'[c] # Missing PROVE config'[StreamOf(c)] # Missing
    BY DEF ConsumersHaveStreams
  <2>1. c \in Asset /\ StreamOf(c) \in Asset
    BY TopologyAssumption DEF Asset
  <2>2. config[StreamOf(c)] # Missing
    <3>1. CASE c = a
      BY <3>1
    <3>2. CASE c # a
      BY <2>1, <3>2 DEF TopologyInv, TypeOK, ConsumersHaveStreams
    <3> QED
      BY <3>1, <3>2
  <2> QED
    BY <1>1, <2>1, <2>2, DesiredIsNoChange
<1>4. PlansAreComplete'
  <2>1. \A q \in Provisioner : phase[q] \in Planning => next'[q] = next[q]
    BY <1>0 DEF Planning, TopologyInv, TypeOK
  <2> QED
    BY <1>0, <2>1 DEF TopologyInv, PlansAreComplete, Declared
<1>5. \A b \in Asset : Acceptable(config[b]) => Acceptable(config'[b])
  BY <1>1, DesiredIsNoChange DEF Acceptable
<1>6. PlansStayTrue'
  <2> SUFFICES ASSUME NEW q \in Provisioner, q \notin stale, NEW b \in Asset
      PROVE /\ plan[q][b] \in Planned => Acceptable(config'[b])
            /\ plan[q][b] = "nochange" => config'[b] # Missing /\ Classify(config'[b]) = "nochange"
            /\ plan[q][b] = "create" =>
                 \A c \in Consumer : StreamOf(c) = b => Acceptable(config'[c])
    BY <1>0 DEF PlansStayTrue, Acceptable, Classify
  <2>1. plan[q][b] = "nochange" => config'[b] # Missing /\ Classify(config'[b]) = "nochange"
    BY <1>1, DesiredIsNoChange DEF TopologyInv, PlansStayTrue
  <2> QED
    BY <1>5, <2>1 DEF TopologyInv, PlansStayTrue, Asset
<1> QED
  BY <1>2, <1>3, <1>4, <1>6 DEF TopologyInv

\* Drift may break what plans say; it makes them stale.
LEMMA DriftKeepsInv ==
  ASSUME TopologyInv, Drift
  PROVE  TopologyInv'
<1>1. PICK a \in Asset, c \in Drifted \cup {Missing} :
        /\ a \in Consumer /\ c # Missing => config[StreamOf(a)] # Missing
        /\ config' = [b \in Asset |->
             IF b = a \/ (c = Missing /\ b \in Consumer /\ StreamOf(b) = a) THEN c ELSE config[b]]
  BY DEF Drift
<1>2. UNCHANGED <<phase, next, plan, calm>> /\ stale' = {p \in Provisioner : phase[p] \notin Ended}
  BY DEF Drift
<1>3. TypeOK'
  BY <1>1, <1>2, TopologyAssumption DEF TopologyInv, TypeOK
<1>4. ConsumersHaveStreams'
  <2> SUFFICES ASSUME NEW d \in Consumer, config'[d] # Missing PROVE config'[StreamOf(d)] # Missing
    BY DEF ConsumersHaveStreams
  <2>1. d \in Asset /\ StreamOf(d) \in Asset /\ StreamOf(d) \notin Consumer
    BY TopologyAssumption DEF Asset
  <2>2. CASE StreamOf(d) = a
    BY <1>1, <2>1, <2>2 DEF TopologyInv, ConsumersHaveStreams
  <2>3. CASE StreamOf(d) # a
    BY <1>1, <2>1, <2>3 DEF TopologyInv, ConsumersHaveStreams
  <2> QED
    BY <2>2, <2>3
<1>5. PlansAreComplete'
  BY <1>2 DEF TopologyInv, PlansAreComplete, Declared
<1>6. PlansStayTrue'
  <2>1. \A q \in Provisioner \ stale' : \A b \in Asset : plan'[q][b] = "none"
    BY <1>2 DEF TopologyInv, PlansAreComplete
  <2> QED
    BY <2>1 DEF PlansStayTrue, Planned
<1> QED
  BY <1>3, <1>4, <1>5, <1>6 DEF TopologyInv

\* The plan of a run that reached its end has an item for every declared asset.
LEMMA PlanAtEnd ==
  ASSUME TopologyInv, NEW p \in Provisioner, phase[p] \in Planning, AtEnd(p)
  PROVE  \A a \in Declared(p) : a \in Asset /\ plan[p][a] \in Planned \cup {"refused"}
<1> SUFFICES ASSUME NEW i \in DOMAIN Order(p)
             PROVE  Order(p)[i] \in Asset /\ plan[p][Order(p)[i]] \in Planned \cup {"refused"}
  BY DEF Declared
<1>1. Order(p)[i] \in Asset /\ i < next[p]
  BY TopologyAssumption DEF AtEnd, TopologyInv, TypeOK
<1> QED
  BY <1>1 DEF TopologyInv, TypeOK, PlansAreComplete, Planned

\* Every step of a run, drift and faults keep the invariant.
LEMMA TopologyStep ==
  ASSUME TopologyInv, [Next]_vars
  PROVE  TopologyInv'
<1>1. ASSUME NEW p \in Provisioner, Start(p) PROVE TopologyInv'
  BY <1>1, EnterKeepsInv DEF Start, Planning
<1>2. ASSUME NEW p \in Provisioner, ReadAsset(p) PROVE TopologyInv'
  BY <1>2, ReadKeepsInv
<1>3. ASSUME NEW p \in Provisioner, Decide(p) PROVE TopologyInv'
  <2>1. PICK ph \in {"refused", "apply", "mutate", "converged", "failed"} :
          Enter(p, ph) /\ (ph = "mutate" => ~HasRefusedChange(p))
    BY <1>3 DEF Decide
  <2>2. ph = "mutate" => \A a \in Declared(p) : plan[p][a] \in Planned
    BY <1>3, <2>1, PlanAtEnd DEF Decide, HasRefusedChange
  <2>3. UNCHANGED <<config, calm>>
    BY <1>3 DEF Decide
  <2> QED
    BY <2>1, <2>2, <2>3, EnterKeepsInv DEF Ended, Planning
<1>4. ASSUME NEW p \in Provisioner, Apply(p) PROVE TopologyInv'
  <2>0. Order(p)[next[p]] \in Asset
    BY <1>4, TopologyAssumption DEF Apply, AtEnd, TopologyInv, TypeOK
  <2>1. CASE Enter(p, "failed") /\ UNCHANGED config
    BY <1>4, <2>1, EnterKeepsInv DEF Apply, Ended
  <2>2. CASE ~(Enter(p, "failed") /\ UNCHANGED config)
    BY <1>4, <2>0, <2>2, WriteKeepsInv DEF Apply
  <2> QED
    BY <2>1, <2>2
<1>5. ASSUME NEW p \in Provisioner, Applied(p) PROVE TopologyInv'
  BY <1>5, EnterKeepsInv DEF Applied
<1>6. ASSUME NEW p \in Provisioner, WaitReady(p) PROVE TopologyInv'
  <2>1. CASE \E ph \in {"verify", "wait", "failed"} : Enter(p, ph)
    BY <1>6, <2>1, EnterKeepsInv DEF WaitReady, Ended, Planning
  <2>2. CASE ~AtEnd(p) /\ Step(p) /\ UNCHANGED plan
    <3>1. /\ next[p] + 1 \in 1..(Len(Order(p)) + 1)
          /\ next' = [next EXCEPT ![p] = next[p] + 1]
          /\ UNCHANGED <<config, phase, stale, plan, calm>>
      BY <1>6, <2>2, TopologyAssumption DEF AtEnd, TopologyInv, TypeOK, Step, WaitReady
    <3>2. TypeOK'
      BY <3>1 DEF TopologyInv, TypeOK
    <3>3. \A q \in Provisioner : phase[q] \in Planning => next'[q] = next[q]
      BY <1>6, <3>1 DEF Planning, TopologyInv, TypeOK, WaitReady
    <3>4. PlansAreComplete'
      BY <3>1, <3>3 DEF TopologyInv, PlansAreComplete, Declared
    <3>5. ConsumersHaveStreams' /\ PlansStayTrue'
      BY <3>1 DEF TopologyInv, ConsumersHaveStreams, PlansStayTrue, Acceptable, Classify
    <3> QED
      BY <3>2, <3>4, <3>5 DEF TopologyInv
  <2> QED
    BY <1>6, <2>1, <2>2 DEF WaitReady
<1>7. ASSUME NEW p \in Provisioner, Fail(p) PROVE TopologyInv'
  BY <1>7, EnterKeepsInv DEF Fail, Ended
<1>8. ASSUME Settle \/ UNCHANGED vars PROVE TopologyInv'
  <2>1. UNCHANGED <<config, phase, next, plan, stale>> /\ calm' \in {calm, TRUE}
    BY <1>8 DEF Settle, vars
  <2>2. TypeOK'
    BY <2>1 DEF TopologyInv, TypeOK
  <2> QED
    BY <2>1, <2>2 DEF TopologyInv, ConsumersHaveStreams, PlansAreComplete, PlansStayTrue,
                      Acceptable, Classify, Declared
<1> QED
  BY <1>1, <1>2, <1>3, <1>4, <1>5, <1>6, <1>7, <1>8, DriftKeepsInv DEF Next, Run

\* The inductive invariant of overlapping provisioner runs.
THEOREM TopologyInvariant == Spec => []TopologyInv
BY TopologyInit, TopologyStep, PTL DEF Spec

----------------------------------------------------------------------------
(* What runs may do.                                                       *)

\* apply refuses the whole mutation when the manifest meets unsafe drift: at
\* every write all declared assets are still acceptable, also those that
\* other runs wrote since the plan was made.
THEOREM WholeMutationRefused == Spec => RefusesTheWholeMutation
<1>1. ASSUME TopologyInv, NEW p \in Provisioner \ stale, Writes(p), NEW a \in Declared(p)
      PROVE  config[a] = Missing \/ Classify(config[a]) # "refused"
  <2>1. a \in Asset
    BY TopologyAssumption DEF Declared
  <2>2. plan[p][a] \in Planned
    BY <1>1 DEF TopologyInv, PlansAreComplete, Writes
  <2> QED
    BY <2>1, <2>2, <1>1 DEF TopologyInv, PlansStayTrue, Acceptable
<1>2. TopologyInv =>
        [\A p \in Provisioner \ stale : Writes(p) =>
           \A a \in Declared(p) : config[a] = Missing \/ Classify(config[a]) # "refused"]_vars
  BY <1>1
<1> QED
  BY <1>2, TopologyInvariant, PTL DEF RefusesTheWholeMutation

\* A step that writes on behalf of a run is one iteration of apply's loops.
LEMMA WritesIsApply ==
  ASSUME TopologyInv, [Next]_vars, NEW p \in Provisioner, Writes(p)
  PROVE  /\ Order(p)[next[p]] \in Declared(p) \cap Asset
         /\ config' = [config EXCEPT ![Order(p)[next[p]]] = DesiredConfig]
<1>1. ASSUME NEW q \in Provisioner, Run(q) \/ Fail(q) PROVE q = p
  <2>1. \E v : next' = [next EXCEPT ![q] = v]
    BY <1>1 DEF Run, Start, ReadAsset, Decide, Apply, Applied, WaitReady, Fail, Enter, Step
  <2> QED
    BY <2>1 DEF Writes
<1>2. Run(p) \/ Fail(p)
  BY <1>1 DEF Next, Writes, Drift, Settle, vars
<1>3. Apply(p)
  BY <1>2 DEF Run, Start, ReadAsset, Decide, Applied, WaitReady, Fail, Writes
<1>4. next[p] \in DOMAIN Order(p)
  BY <1>3, TopologyAssumption DEF Apply, AtEnd, TopologyInv, TypeOK
<1>5. Order(p)[next[p]] \in Declared(p) \cap Asset
  BY <1>4, TopologyAssumption DEF Declared
<1> QED
  BY <1>3, <1>5 DEF Apply, Writes

\* Bounds, replica counts and identity never shrink under a provisioner,
\* provided no administrator leaves an asset without a bound: the broker's -1
\* passes classify as a bound below the desired one.
THEOREM NothingDecreases ==
  ASSUME \A c \in Drifted : c.limit # Unlimited
  PROVE  Spec => NeverDecreases
<1> DEFINE Bounded == \A a \in Asset : config[a] # Missing => config[a].limit \in Nat
<1>1. Init => Bounded
  BY DEF Init
<1>2. ASSUME TopologyInv, Bounded, [Next]_vars PROVE Bounded'
  <2>1. DesiredConfig.limit \in Nat
    BY TopologyAssumption DEF DesiredConfig
  <2>2. ASSUME NEW p \in Provisioner, Run(p) \/ Fail(p) PROVE Bounded'
    <3>1. UNCHANGED config \/ \E a \in Asset : config' = [config EXCEPT ![a] = DesiredConfig]
      <4>1. CASE Apply(p)
        <5>1. Order(p)[next[p]] \in Asset
          BY <1>2, <4>1, TopologyAssumption DEF Apply, AtEnd, TopologyInv, TypeOK
        <5> QED
          BY <4>1, <5>1 DEF Apply
      <4> QED
        BY <2>2, <4>1 DEF Run, Start, ReadAsset, Decide, Applied, WaitReady, Fail
    <3> QED
      BY <1>2, <2>1, <3>1 DEF TopologyInv, TypeOK
  <2>3. ASSUME Drift PROVE Bounded'
    <3>1. \A c \in Drifted : c.limit \in Nat
      BY TopologyAssumption DEF Config
    <3> QED
      BY <1>2, <2>3, <3>1 DEF Drift
  <2>4. ASSUME UNCHANGED config PROVE Bounded'
    BY <1>2, <2>4
  <2> QED
    BY <1>2, <2>2, <2>3, <2>4 DEF Next, Settle, vars
<1>3. ASSUME TopologyInv, Bounded, [Next]_vars,
             NEW a \in Asset, NEW p \in Provisioner \ stale, Writes(p), config[a] # Missing
      PROVE  /\ config'[a] # Missing
             /\ config'[a].identity = config[a].identity
             /\ config'[a].replicas >= config[a].replicas
             /\ Capacity(config'[a].limit) >= Capacity(config[a].limit)
  <2> DEFINE b == Order(p)[next[p]]
  <2>1. b \in Declared(p) /\ b \in Asset /\ config' = [config EXCEPT ![b] = DesiredConfig]
    BY <1>3, WritesIsApply
  <2>2. config[a] \in Config /\ config[a].limit \in Nat /\ config[a].replicas \in Nat
    BY <1>3 DEF TopologyInv, TypeOK, Config
  <2>3. Capacity(config[a].limit) = config[a].limit
    BY <2>2 DEF Capacity, Unlimited
  <2>4. CASE a # b
    <3>1. config'[a] = config[a]
      BY <1>3, <2>1, <2>4 DEF TopologyInv, TypeOK
    <3> QED
      BY <1>3, <2>2, <2>3, <3>1
  <2>5. CASE a = b
    <3>1. config'[a] = DesiredConfig
      BY <1>3, <2>1, <2>5 DEF TopologyInv, TypeOK
    <3>2. plan[p][a] \in Planned
      BY <1>3, <2>1, <2>5 DEF TopologyInv, PlansAreComplete, Writes
    <3>3. Classify(config[a]) # "refused"
      BY <1>3, <3>2 DEF TopologyInv, PlansStayTrue, Acceptable
    <3>4. config[a].identity = TRUE /\ config[a].replicas <= Replicas /\ config[a].limit <= Limit
      BY <2>2, <3>3, ClassifyMeaning DEF Config
    <3>5. Capacity(Limit) = Limit
      BY TopologyAssumption DEF Capacity, Unlimited
    <3>6. DesiredConfig.identity = TRUE /\ DesiredConfig.replicas = Replicas
          /\ DesiredConfig.limit = Limit
      BY DEF DesiredConfig
    <3>7. Replicas \in Nat /\ Limit \in Nat
      BY TopologyAssumption
    <3> QED
      BY <2>2, <2>3, <3>1, <3>4, <3>5, <3>6, <3>7, DesiredIsNoChange
  <2> QED
    BY <2>4, <2>5
<1>4. TopologyInv /\ Bounded /\ [Next]_vars =>
        [\A a \in Asset :
           (\E p \in Provisioner \ stale : Writes(p)) /\ config[a] # Missing =>
             /\ config'[a] # Missing
             /\ config'[a].identity = config[a].identity
             /\ config'[a].replicas >= config[a].replicas
             /\ Capacity(config'[a].limit) >= Capacity(config[a].limit)]_vars
  BY <1>3
<1> QED
  BY <1>1, <1>2, <1>4, TopologyInvariant, PTL DEF Spec, NeverDecreases

\* is_converged on the last plan means that verify_topology and bind_consumer
\* accept every declared asset at the moment convergence is reported.
THEOREM ConvergedIsBindable == Spec => ConvergedMeansBindable
<1>1. ASSUME TopologyInv, [Next]_vars, NEW p \in Provisioner \ stale,
             phase[p] # "converged", phase'[p] = "converged"
      PROVE  /\ \A s \in Stream \cap Declared(p) : StreamVerified(s)
             /\ \A c \in Consumer \cap Declared(p) : ConsumerVerified(c)
  <2>1. PICK q \in Provisioner : Run(q) \/ Fail(q)
    BY <1>1 DEF Next, Drift, Settle, vars
  <2>2. q = p
    <3>1. phase' = phase \/ \E ph : phase' = [phase EXCEPT ![q] = ph]
      BY <2>1 DEF Run, Start, ReadAsset, Decide, Apply, Applied, WaitReady, Fail, Enter, Step
    <3> QED
      BY <1>1, <3>1 DEF TopologyInv, TypeOK
  <2>3. AtEnd(p) /\ phase[p] \in Planning /\ IsConverged(p)
    <3>1. Decide(p)
      BY <1>1, <2>1, <2>2 DEF Run, Start, ReadAsset, Apply, Applied, WaitReady, Fail, Enter, Step,
                              TopologyInv, TypeOK
    <3> QED
      BY <1>1, <3>1 DEF Decide, Enter, TopologyInv, TypeOK
  <2>4. ASSUME NEW a \in Declared(p)
        PROVE  /\ config[a] # Missing /\ config[a].identity /\ config[a].replicas = Replicas
               /\ config[a].limit = Limit /\ config[a].forbidden = "none"
    <3>1. a \in Asset
      BY TopologyAssumption DEF Declared
    <3>2. config[a] # Missing /\ Classify(config[a]) = "nochange" /\ config[a] \in Config
      BY <1>1, <2>3, <3>1 DEF IsConverged, TopologyInv, TypeOK, PlansStayTrue
    <3> QED
      BY <3>2, ClassifyMeaning
  <2> QED
    BY <2>4 DEF StreamVerified, ConsumerVerified
<1>2. TopologyInv /\ [Next]_vars =>
        [\A p \in Provisioner \ stale : phase[p] # "converged" /\ phase'[p] = "converged" =>
           /\ \A s \in Stream \cap Declared(p) : StreamVerified(s)
           /\ \A c \in Consumer \cap Declared(p) : ConsumerVerified(c)]_vars
  BY <1>1
<1> QED
  BY <1>2, TopologyInvariant, PTL DEF Spec, ConvergedMeansBindable
============================================================================
