--------------------------- MODULE ProcessProofs ---------------------------
(***************************************************************************)
(* What the processes promise at their edges, for every value of the       *)
(* constants: what a worker's supervisor reports is true, a process starts *)
(* with every configuration it accepts, dependency paths respect the       *)
(* architecture, and the codec reads what it writes.                       *)
(***************************************************************************)
EXTENDS WorkerLifecycle, Boundaries, TLAPS, SequenceTheorems, FiniteSetTheorems, NaturalsInduction, WellFoundedInduction

-----------------------------------------------------------------------------
(* What the supervisor reports is true, for every set of tasks. *)
\* Aborting ends what runs and touches nothing else.
LEMMA AbortAllEffect ==
  ASSUME TypeOK, AbortAll
  PROVE  /\ task' \in [Task -> {"unspawned", "running"} \cup Ended]
         /\ \A t \in Task : task'[t] = IF task[t] = "running" THEN "aborted" ELSE task[t]
         /\ holding' \subseteq Task
  BY DEF TypeOK, AbortAll, Running, Ended

\* A task that did not return cleanly is a failure.
LEMMA VerdictType == \A t : Verdict(t) \in {"taskFailed", "joinFailed"}
  BY DEF Verdict

\* Every step keeps the types.
LEMMA TypeStep ==
  ASSUME TypeOK, [Next]_vars
  PROVE  TypeOK'
<1>1. ASSUME NEW t \in Task, Spawn(t) PROVE TypeOK'
  BY <1>1 DEF TypeOK, Spawn, Phases
<1>2. ASSUME NEW t \in Task, JoinWhileRunning(t) PROVE TypeOK'
  BY <1>2, VerdictType DEF TypeOK, JoinWhileRunning, Phases, Results
<1>3. ASSUME NEW t \in Task, JoinWhileDraining(t) PROVE TypeOK'
  BY <1>3, VerdictType DEF TypeOK, JoinWhileDraining, Phases, Results
<1>4. ASSUME ShutdownArrives PROVE TypeOK'
  BY <1>4 DEF TypeOK, ShutdownArrives, Phases, Results
<1>5. ASSUME GraceExpires PROVE TypeOK'
  BY <1>5, AbortAllEffect DEF TypeOK, GraceExpires, Phases, Results
<1>6. ASSUME DrainComplete \/ DrainNats \/ ClosePool \/ CloseDatabase PROVE TypeOK'
  BY <1>6 DEF TypeOK, DrainComplete, DrainNats, ClosePool, CloseDatabase, Phases
<1>7. ASSUME Exit PROVE TypeOK'
  BY <1>7, AbortAllEffect DEF TypeOK, Exit, Phases
<1>8. ASSUME NEW t \in Task, TaskEnds(t) PROVE TypeOK'
  BY <1>8 DEF TypeOK, TaskEnds, Ended
<1>9. ASSUME Signal \/ UNCHANGED vars PROVE TypeOK'
  BY <1>9 DEF TypeOK, Signal, vars
<1>10. ASSUME NEW t \in Task, Acquire(t) \/ Release(t) PROVE TypeOK'
  BY <1>10 DEF TypeOK, Acquire, Release
<1> QED
  BY <1>1, <1>2, <1>3, <1>4, <1>5, <1>6, <1>7, <1>8, <1>9, <1>10 DEF Next, Supervise

----------------------------------------------------------------------------
(* The inductive invariant.  The report is about all tasks, but the        *)
(* supervisor takes results one by one while others still end, so the      *)
(* invariant says what it knows of the ones it has joined so far.          *)

\* main registers every task before it waits, and results are final.
TasksAreAccountedFor ==
  /\ phase # "start" => \A t \in Task : task[t] # "unspawned"
  /\ \A t \in joined : task[t] \in Ended

\* Until shutdown nothing but Ok was joined, and a result that stays the
\* shutdown reason means that this is still so.
OnlyOkWasJoined ==
  phase \in {"start", "run"} \/ result = "reason" => \A t \in joined : task[t] = "ok"

\* The provisional result of a drain comes from the select, never a timeout.
ResultFollowsPhase ==
  /\ phase \in {"start", "run"} => result = "none"
  /\ phase = "drain" => result # "timedOut"

SupervisorInv ==
  /\ TypeOK
  /\ TasksAreAccountedFor
  /\ OnlyOkWasJoined
  /\ ResultFollowsPhase
  /\ ReportedOutcomeIsTrue

\* Every step keeps the supervisor's invariant.
LEMMA SupervisorStep ==
  ASSUME SupervisorInv, [Next]_vars
  PROVE  SupervisorInv'
<1> USE DEF TasksAreAccountedFor, OnlyOkWasJoined, ResultFollowsPhase, ReportedOutcomeIsTrue
<1>0. TypeOK /\ TypeOK'
  BY TypeStep DEF SupervisorInv
<1>1. ASSUME NEW t \in Task, Spawn(t) PROVE SupervisorInv'
  <2>1. \A u \in Task : task'[u] = IF u = t THEN "running" ELSE task[u]
    BY <1>0, <1>1 DEF Spawn, TypeOK
  <2>2. phase' = "run" => \A u \in Task : task'[u] # "unspawned"
    BY <1>1, <2>1 DEF Spawn, Registered
  <2>3. phase' \in {"start", "run"} /\ t \notin joined
    BY <1>1 DEF Spawn, SupervisorInv, Ended
  <2> QED
    BY <1>0, <1>1, <2>1, <2>2, <2>3 DEF SupervisorInv, Spawn, TypeOK
<1>2. ASSUME NEW t \in Task, JoinWhileRunning(t) PROVE SupervisorInv'
  BY <1>0, <1>2, VerdictType DEF SupervisorInv, JoinWhileRunning
<1>3. ASSUME NEW t \in Task, JoinWhileDraining(t) PROVE SupervisorInv'
  BY <1>0, <1>3, VerdictType DEF SupervisorInv, JoinWhileDraining
<1>4. ASSUME ShutdownArrives PROVE SupervisorInv'
  BY <1>0, <1>4 DEF SupervisorInv, ShutdownArrives, TypeOK
<1>5. ASSUME GraceExpires PROVE SupervisorInv'
  <2>1. \A t \in Task : task[t] \in {"unspawned", "running"} \cup Ended /\ task[t] # "unspawned"
    BY <1>0, <1>5 DEF SupervisorInv, GraceExpires, TypeOK
  <2>2. \A t \in Task : task'[t] \in Ended
    BY <1>0, <1>5, <2>1, AbortAllEffect DEF GraceExpires, Ended
  <2>3. Running' = {}
    BY <2>2 DEF Running, Ended
  <2> QED
    BY <1>0, <1>5, <2>2, <2>3 DEF SupervisorInv, GraceExpires, Ended
<1>6. ASSUME DrainComplete PROVE SupervisorInv'
  <2>1. \A t \in Task : t \in joined
    BY <1>6 DEF SupervisorInv, DrainComplete, Registered
  <2> QED
    BY <1>0, <1>6, <2>1 DEF SupervisorInv, DrainComplete
<1>7. ASSUME DrainNats \/ ClosePool \/ CloseDatabase PROVE SupervisorInv'
  BY <1>0, <1>7 DEF SupervisorInv, DrainNats, ClosePool, CloseDatabase, Running
<1>8. ASSUME Exit PROVE SupervisorInv'
  <2>1. \A t \in Task : task'[t] = IF task[t] = "running" THEN "aborted" ELSE task[t]
    BY <1>0, <1>8, AbortAllEffect DEF Exit
  <2>2. Running' = {} /\ joined \subseteq Task
    BY <1>0, <2>1 DEF Running, TypeOK
  <2> QED
    BY <1>0, <1>8, <2>1, <2>2 DEF SupervisorInv, Exit, Ended
<1>9. ASSUME NEW t \in Task, TaskEnds(t) PROVE SupervisorInv'
  <2>1. PICK r \in {"ok", "failed", "panicked"} : task' = [task EXCEPT ![t] = r]
    BY <1>9 DEF TaskEnds
  <2>2. \A u \in Task : task'[u] = IF u = t THEN r ELSE task[u]
    BY <1>0, <2>1 DEF TypeOK
  <2>3. t \notin joined /\ joined \subseteq Task /\ Running' \subseteq Running
    BY <1>0, <1>9, <2>2 DEF SupervisorInv, TaskEnds, TypeOK, Ended, Running
  <2> QED
    BY <1>0, <1>9, <2>2, <2>3 DEF SupervisorInv, TaskEnds
<1>10. ASSUME Signal \/ UNCHANGED vars PROVE SupervisorInv'
  BY <1>0, <1>10 DEF SupervisorInv, Signal, vars, Running
<1>11. ASSUME NEW t \in Task, Acquire(t) \/ Release(t) PROVE SupervisorInv'
  BY <1>0, <1>11 DEF SupervisorInv, Acquire, Release, Running
<1> QED
  BY <1>1, <1>2, <1>3, <1>4, <1>5, <1>6, <1>7, <1>8, <1>9, <1>10, <1>11 DEF Next, Supervise

\* The invariant holds from spawn to exit, whatever fails, panics or hangs.
THEOREM SupervisorInvariant == Spec => []SupervisorInv
<1>1. ASSUME Init PROVE SupervisorInv
  BY <1>1 DEF Init, SupervisorInv, TypeOK, TasksAreAccountedFor, OnlyOkWasJoined,
              ResultFollowsPhase, ReportedOutcomeIsTrue, Phases, Results
<1> QED
  BY <1>1, SupervisorStep, PTL DEF Spec

\* What run_until_shutdown returns is true when main acts on it: a clean
\* shutdown hides no task failure and no running task, a timeout leaves none.
THEOREM ReportedOutcomeHolds == Spec => []ReportedOutcomeIsTrue
<1>1. SupervisorInv => ReportedOutcomeIsTrue
  BY DEF SupervisorInv
<1> QED
  BY <1>1, SupervisorInvariant, PTL

-----------------------------------------------------------------------------
(* The delay before a retry, for every attempt and every accepted configuration. *)

\* The shifts of the retry arithmetic grow, and the widest one exceeds every
\* delay that the configuration admits.
LEMMA ShiftsGrow ==
  /\ \A m, n \in 0..Width : m <= n => shl(m) <= shl(n)
  /\ \A m \in 0..Width : shl(m) \in Nat
  /\ shl(Width - 1) > MAX_TRANSPORT_TIMEOUT_MS
  /\ Top \in Nat /\ Top > MAX_TRANSPORT_TIMEOUT_MS + 1000
  /\ shl(Width - 1) \in Nat /\ shl(Width - 1) <= Top
<1>1. shl(19) = 524288 /\ shl(20) = 1048576
  BY SMT DEF shl
<1>2. shl(19) <= shl(Width - 1) /\ shl(20) <= shl(Width) /\ shl(Width - 1) <= shl(Width)
  BY RuntimeConfigAssumption, SMT
<1>3. shl(Width - 1) \in Nat /\ shl(Width) \in Nat
  BY RuntimeConfigAssumption, SMT
<1>4. \A m, n \in 0..Width : m <= n => shl(m) <= shl(n)
  BY RuntimeConfigAssumption
<1>5. shl(Width - 1) < shl(Width)
  BY RuntimeConfigAssumption
<1> QED
  BY <1>1, <1>2, <1>3, <1>4, <1>5, RuntimeConfigAssumption, SMT DEF Top, MAX_TRANSPORT_TIMEOUT_MS

\* A saturating product with a factor of at least one neither shrinks nor
\* loses its order.
LEMMA SaturatingProduct ==
  ASSUME NEW a \in Nat, a >= 1, NEW b \in Nat, NEW c \in Nat, b <= c
  PROVE  /\ saturating_mul(a, b) \in Nat
         /\ saturating_mul(a, b) <= saturating_mul(a, c)
         /\ b <= Top => saturating_mul(a, b) >= b
<1>1. Top \in Nat
  BY ShiftsGrow
<1>2. a * b \in Nat /\ a * c \in Nat /\ a * b <= a * c /\ a * b >= b
  BY SMT
<1>3. \A d \in Nat : d # 0 => ((a > Top \div d) <=> (a * d > Top))
  BY <1>1, SMT
<1> QED
  BY <1>1, <1>2, <1>3, SMT DEF saturating_mul

\* The upper end of the delay lies between base and maximum, grows with the
\* attempts and ends at the maximum, for every width of the arithmetic.
LEMMA RetryCap ==
  ASSUME NEW attempt \in Nat, NEW base \in Nat, base >= 1, NEW max \in Nat, base <= max,
         max <= MAX_TRANSPORT_TIMEOUT_MS
  PROVE  /\ retry_cap(attempt, base, max) \in base..max
         /\ retry_cap(attempt, base, max) <= retry_cap(attempt + 1, base, max)
         /\ attempt >= Width => retry_cap(attempt, base, max) = max
<1> DEFINE e(n) == Least(saturating_sub(n, 1), Width - 1)
<1>1. ASSUME NEW n \in Nat PROVE e(n) \in 0..(Width - 1) /\ e(n) <= e(n + 1) /\ (n >= Width => e(n) = Width - 1)
  BY RuntimeConfigAssumption DEF Least, saturating_sub
<1>2. \A m, n \in 0..(Width - 1) : m <= n => shl(m) <= shl(n) /\ shl(n) \in Nat
  BY ShiftsGrow, RuntimeConfigAssumption
<1>3. shl(0) = 1
  BY SMT DEF shl
<1>4. e(attempt) \in 0..(Width - 1) /\ e(attempt + 1) \in 0..(Width - 1) /\ e(attempt) <= e(attempt + 1)
      /\ (attempt >= Width => e(attempt) = Width - 1)
  BY <1>1
<1> DEFINE s == shl(e(attempt))
           t == shl(e(attempt + 1))
           p == saturating_mul(base, s)
           q == saturating_mul(base, t)
<1>5. s \in Nat /\ t \in Nat /\ 1 <= s /\ s <= t /\ s <= shl(Width - 1)
  BY <1>2, <1>3, <1>4, RuntimeConfigAssumption
<1>6. p \in Nat /\ p <= q /\ p >= s /\ q \in Nat
  <2>1. s <= Top
    BY <1>5, ShiftsGrow
  <2> HIDE DEF s, t
  <2>2. p \in Nat /\ p <= q /\ p >= s
    BY <1>5, <2>1, SaturatingProduct
  <2>3. q \in Nat
    BY <1>5, SaturatingProduct
  <2> QED
    BY <2>2, <2>3
<1>7. p >= base
  <2>1. Top \in Nat /\ base <= Top /\ base * s >= base
    BY <1>5, ShiftsGrow, SMT DEF MAX_TRANSPORT_TIMEOUT_MS
  <2> QED
    BY <2>1, <1>5, SMT DEF saturating_mul
<1>8. attempt >= Width => p > max
  BY <1>4, <1>6, ShiftsGrow, RuntimeConfigAssumption, SMT DEF MAX_TRANSPORT_TIMEOUT_MS
<1>9. retry_cap(attempt, base, max) = Least(p, max) /\ retry_cap(attempt + 1, base, max) = Least(q, max)
  BY DEF retry_cap
<1> QED
  BY <1>6, <1>7, <1>8, <1>9, SMT DEF Least

\* Adding and subtracting far below the top is exact.
LEMMA SaturatingSum ==
  ASSUME NEW a \in Nat, NEW b \in Nat, a + b <= Top
  PROVE  saturating_add(a, b) = a + b
  BY ShiftsGrow DEF saturating_add

\* One delay, for every attempt, base, maximum and random number.
LEMMA RetryDelayBounds ==
  ASSUME NEW attempt \in Nat, NEW base \in Nat, base >= 1, NEW max \in Nat, base <= max,
         max <= MAX_TRANSPORT_TIMEOUT_MS, NEW entropy \in Nat \cup {Absent}
  PROVE  LET delay == plan_retry_delay(attempt, base, max, entropy) IN
         /\ delay \in RoundedUp(base)..RoundedUp(max)
         /\ delay > 0 /\ RetryDelay_new(delay)
<1> DEFINE cap == retry_cap(attempt, base, max)
           span == saturating_add(saturating_sub(cap, base), 1)
           jittered == IF entropy = Absent THEN base ELSE saturating_add(base, entropy % span)
<1>1. cap \in base..max
  BY RetryCap
<1> HIDE DEF cap
<1>2. span = cap - base + 1
  <2>1. saturating_sub(cap, base) = cap - base /\ cap - base \in Nat /\ cap - base + 1 <= Top
    BY <1>1, ShiftsGrow, SMT DEF saturating_sub, MAX_TRANSPORT_TIMEOUT_MS
  <2> QED
    BY <2>1, SaturatingSum
<1> HIDE DEF span
<1>3. jittered \in base..max
  <2>1. CASE entropy = Absent
    BY <2>1
  <2>2. CASE entropy # Absent
    <3>1. span \in Nat /\ span >= 1
      BY <1>1, <1>2
    <3>2. entropy % span \in 0..(span - 1)
      BY <2>2, <3>1
    <3>3. base + (entropy % span) \in base..max /\ base + (entropy % span) <= Top /\ entropy % span \in Nat
      BY <1>1, <1>2, <3>1, <3>2, ShiftsGrow, SMT DEF MAX_TRANSPORT_TIMEOUT_MS
    <3> QED
      BY <2>2, <3>3, SaturatingSum
  <2> QED
    BY <2>1, <2>2
<1> HIDE DEF jittered
<1>4. saturating_add(jittered, 999) = jittered + 999
  <2>1. jittered \in Nat /\ jittered + 999 <= Top
    BY <1>3, ShiftsGrow, SMT DEF MAX_TRANSPORT_TIMEOUT_MS
  <2> QED
    BY <2>1, SaturatingSum
<1>5. plan_retry_delay(attempt, base, max, entropy) = (jittered + 999) \div 1000
  BY <1>4 DEF plan_retry_delay, jittered, span, cap
<1> QED
  BY <1>3, <1>5, SMT DEF RoundedUp, RetryDelay_new, MAX_TRANSPORT_TIMEOUT_MS

\* A step edits what is looked at and never turns to something else, so the
\* steps that concern one kind of input are its own.
LEMMA StepsByKind ==
  ASSUME "about" \in DOMAIN input, [BoundaryNext]_boundary_vars
  PROVE  /\ "about" \in DOMAIN input' /\ input'.about = input.about
         /\ input'.about = "config" =>
              \/ \E source \in {"env", "file"}, f \in DOMAIN FieldValues :
                   \E v \in FieldValues[f] : EditSource(source, f, v)
              \/ input' = input
         /\ input'.about = "retry" => NextAttempt \/ input' = input
         /\ input'.about = "message" =>
              \/ \E part \in DOMAIN MetadataEdits : \E v \in MetadataEdits[part] : EditMetadata(part, v)
              \/ input' = input
         /\ input'.about = "delivery" =>
              \/ \E key \in DOMAIN EnvelopeEdits : \E v \in EnvelopeEdits[key] : EditEnvelope(key, v)
              \/ \E h \in HeaderEdits : AddHeader(h)
              \/ \E m \in Metadata : SwapEnvelope(m)
              \/ input' = input
         /\ input'.about = "workspace" =>
              \/ \E p \in Package, q \in Package \cup External, k \in {"normal", "dev"} : AddDependency(p, q, k)
              \/ input' = input
<1> DEFINE Same == "about" \in DOMAIN input' /\ input'.about = input.about
<1>1. ASSUME NEW source \in {"env", "file"}, NEW f, NEW v, EditSource(source, f, v)
      PROVE  Same /\ input.about = "config"
  BY <1>1 DEF EditSource, MayEdit
<1>2. ASSUME NextAttempt PROVE Same /\ input.about = "retry"
  BY <1>2 DEF NextAttempt
<1>3. ASSUME NEW part, NEW v, EditMetadata(part, v) PROVE Same /\ input.about = "message"
  BY <1>3 DEF EditMetadata, MayEdit
<1>4. ASSUME NEW key, NEW v, EditEnvelope(key, v) PROVE Same /\ input.about = "delivery"
  BY <1>4 DEF EditEnvelope, MayEdit
<1>5. ASSUME NEW h, AddHeader(h) PROVE Same /\ input.about = "delivery"
  BY <1>5 DEF AddHeader, MayEdit
<1>6. ASSUME NEW m, SwapEnvelope(m) PROVE Same /\ input.about = "delivery"
  BY <1>6 DEF SwapEnvelope, MayEdit
<1>7. ASSUME NEW p, NEW q, NEW k, AddDependency(p, q, k) PROVE Same /\ input.about = "workspace"
  BY <1>7 DEF AddDependency
<1>8. ASSUME UNCHANGED boundary_vars PROVE Same /\ input' = input
  BY <1>8 DEF boundary_vars
<1> HIDE DEF Same
<1>9. Same
  BY <1>1, <1>2, <1>3, <1>4, <1>5, <1>6, <1>7, <1>8 DEF BoundaryNext
<1> USE DEF Same
<1> QED
  BY <1>1, <1>2, <1>3, <1>4, <1>5, <1>6, <1>7, <1>8, <1>9 DEF BoundaryNext

\* The retry arithmetic is only ever asked about values the code can have.
RetryInput ==
  /\ "about" \in DOMAIN input
  /\ input.about = "retry" =>
       input \in [about : {"retry"}, attempt : Nat, base : Delays, max : Delays, entropy : Entropies]

\* The kind of input is set once and the retry inputs keep their types.
LEMMA RetryInputInvariant == BoundarySpec => []RetryInput
<1>1. BoundaryInit => RetryInput
  BY DEF BoundaryInit, RetryInput
<1>2. RetryInput /\ [BoundaryNext]_boundary_vars => RetryInput'
  <2> SUFFICES ASSUME RetryInput, [BoundaryNext]_boundary_vars PROVE RetryInput'
    OBVIOUS
  <2>1. ASSUME input'.about = "retry", NextAttempt PROVE RetryInput'
    BY <2>1 DEF RetryInput, NextAttempt
  <2>2. ASSUME input' = input PROVE RetryInput'
    BY <2>2 DEF RetryInput
  <2> QED
    BY <2>1, <2>2, StepsByKind DEF RetryInput
<1> QED
  BY <1>1, <1>2, PTL DEF BoundarySpec

\* Every delay that the configuration admits is a positive number.
LEMMA DelayType == \A d \in Delays : d \in Nat /\ d >= 1 /\ d <= MAX_TRANSPORT_TIMEOUT_MS
<1> DEFINE top == MAX_TRANSPORT_TIMEOUT_MS
<1>1. top \in Nat
  BY SMT DEF MAX_TRANSPORT_TIMEOUT_MS
<1> HIDE DEF top
<1> QED
  BY <1>1, BoundariesAssumption DEF contains, top

\* For every width of the arithmetic from 20 bits on, every pair of delays
\* that the configuration admits, every attempt and every random number: the
\* delay of plan_retry_delay is bounded by base and maximum, positive,
\* accepted by RetryDelay, and its upper end never shrinks.
THEOREM RetryDelaysAreBounded == BoundarySpec => []RetryDelayIsBounded
<1>1. RetryInput => RetryDelayIsBounded
  <2> SUFFICES ASSUME RetryInput, input.about = "retry", input.base <= input.max
               PROVE  LET delay == plan_retry_delay(input.attempt, input.base, input.max, input.entropy) IN
                      /\ delay \in RoundedUp(input.base)..RoundedUp(input.max)
                      /\ delay > 0 /\ RetryDelay_new(delay)
                      /\ retry_cap(input.attempt, input.base, input.max) <= retry_cap(input.attempt + 1, input.base, input.max)
                      /\ input.attempt >= Width => retry_cap(input.attempt, input.base, input.max) = input.max
    BY DEF RetryDelayIsBounded
  <2>1. /\ input.attempt \in Nat
        /\ input.base \in Nat /\ input.base >= 1
        /\ input.max \in Nat /\ input.max <= MAX_TRANSPORT_TIMEOUT_MS
        /\ input.entropy \in Nat \cup {Absent}
    BY DelayType, BoundariesAssumption DEF RetryInput
  <2> QED
    BY <2>1, RetryCap, RetryDelayBounds
<1> QED
  BY <1>1, RetryInputInvariant, PTL

-----------------------------------------------------------------------------
(* What a list of configuration checks guarantees when it reports no error. *)

\* A list of checks none of which fails with what stands for success.
IsChecks(s) == \E S : s \in Seq(S) /\ \A c \in S : c.error # <<"ok">>
Pass(s) == \A i \in DOMAIN s : s[i].holds

\* Every nonempty set of numbers has a least element.
LEMMA LeastOf ==
  ASSUME NEW T \in SUBSET Nat, T # {}
  PROVE  \E i \in T : \A j \in T : i <= j
<1>1. PICK x \in T : \A y \in T : ~ (<<y, x>> \in OpToRel(<, Nat))
  BY NatLessThanWellFounded, WFMin
<1>2. \A y \in T : ~ (y < x)
  BY <1>1 DEF OpToRel
<1> QED
  BY <1>2

\* No error is reported only when every check holds.
LEMMA NoError ==
  ASSUME NEW s, IsChecks(s), FirstError(s) = <<"ok">>
  PROVE  Pass(s)
<1> PICK S : s \in Seq(S) /\ \A c \in S : c.error # <<"ok">>
  BY DEF IsChecks
<1> DEFINE failing == {i \in DOMAIN s : ~s[i].holds}
<1> SUFFICES ASSUME failing # {} PROVE FALSE
  BY DEF Pass
<1>1. DOMAIN s \subseteq Nat /\ \A i \in DOMAIN s : s[i] \in S
  BY LenProperties, ElementOfSeq
<1>2. \E i \in failing : \A j \in failing : i <= j
  BY <1>1, LeastOf
<1> DEFINE first == CHOOSE i \in failing : \A j \in failing : i <= j
<1>3. first \in failing
  BY <1>2
<1>4. FirstError(s) = s[first].error
  BY DEF FirstError
<1> QED
  BY <1>1, <1>3, <1>4

\* Checks in a row: all of them hold when those of both parts do.
LEMMA ChecksInARow ==
  ASSUME NEW s, NEW t, IsChecks(s), IsChecks(t)
  PROVE  IsChecks(s \o t) /\ (Pass(s \o t) => Pass(s) /\ Pass(t))
<1> PICK A : s \in Seq(A) /\ \A c \in A : c.error # <<"ok">>
  BY DEF IsChecks
<1> PICK B : t \in Seq(B) /\ \A c \in B : c.error # <<"ok">>
  BY DEF IsChecks
<1> DEFINE S == A \cup B
           u == s \o t
<1>0. s \in Seq(S) /\ t \in Seq(S) /\ \A c \in S : c.error # <<"ok">>
  BY SeqMonotonic
<1> HIDE DEF S
<1>1. /\ u \in Seq(S) /\ Len(u) = Len(s) + Len(t)
      /\ \A i \in 1..Len(s) + Len(t) : u[i] = IF i <= Len(s) THEN s[i] ELSE t[i - Len(s)]
  BY <1>0, ConcatProperties
<1>2. /\ DOMAIN u = 1..(Len(s) + Len(t)) /\ DOMAIN s = 1..Len(s) /\ DOMAIN t = 1..Len(t)
      /\ Len(s) \in Nat /\ Len(t) \in Nat
  BY <1>0, <1>1, LenProperties
<1>3. IsChecks(u)
  BY <1>0, <1>1 DEF IsChecks
<1>4. ASSUME \A i \in DOMAIN u : u[i].holds PROVE \A i \in DOMAIN s : s[i].holds
  BY <1>4, <1>1, <1>2
<1>5. ASSUME \A i \in DOMAIN u : u[i].holds PROVE \A i \in DOMAIN t : t[i].holds
  <2> SUFFICES ASSUME NEW i \in DOMAIN t PROVE t[i].holds
    OBVIOUS
  <2>1. i + Len(s) \in 1..(Len(s) + Len(t)) /\ ~ (i + Len(s) <= Len(s)) /\ (i + Len(s)) - Len(s) = i
    BY <1>2
  <2> QED
    BY <1>5, <1>1, <1>2, <2>1
<1> QED
  BY <1>3, <1>4, <1>5 DEF Pass

\* Checks that are written out one by one.
IsCheck(c) == c.error # <<"ok">>

\* Checks that all have an error of their own form such a list.
LEMMA WrittenOut ==
  ASSUME NEW S, NEW s \in Seq(S), \A c \in S : IsCheck(c)
  PROVE  IsChecks(s)
<1> SUFFICES \E T : s \in Seq(T) /\ \A c \in T : c.error # <<"ok">>
  BY DEF IsChecks
<1> WITNESS S
<1> QED
  BY DEF IsCheck

\* A list of one check: it passes only when that check holds.
LEMMA OneCheck ==
  ASSUME NEW c1,
         IsCheck(c1)
  PROVE  IsChecks(<<c1>>) /\ (Pass(<<c1>>) => c1.holds)
<1> DEFINE S == {c1}
           s == <<c1>>
<1>1. s \in Seq(S) /\ \A c \in S : IsCheck(c)
  OBVIOUS
<1>2. Pass(s) => c1.holds
  BY DEF Pass
<1> HIDE DEF S, s
<1>3. IsChecks(s)
  BY <1>1, WrittenOut
<1> QED
  BY <1>2, <1>3 DEF s

\* The same for two checks.
LEMMA TwoCheck ==
  ASSUME NEW c1, NEW c2,
         IsCheck(c1) /\ IsCheck(c2)
  PROVE  IsChecks(<<c1, c2>>) /\ (Pass(<<c1, c2>>) => c1.holds /\ c2.holds)
<1> DEFINE S == {c1, c2}
           s == <<c1, c2>>
<1>1. s \in Seq(S) /\ \A c \in S : IsCheck(c)
  OBVIOUS
<1>2. Pass(s) => c1.holds /\ c2.holds
  BY DEF Pass
<1> HIDE DEF S, s
<1>3. IsChecks(s)
  BY <1>1, WrittenOut
<1> QED
  BY <1>2, <1>3 DEF s

\* The same for three.
LEMMA ThreeCheck ==
  ASSUME NEW c1, NEW c2, NEW c3,
         IsCheck(c1) /\ IsCheck(c2) /\ IsCheck(c3)
  PROVE  IsChecks(<<c1, c2, c3>>) /\ (Pass(<<c1, c2, c3>>) => c1.holds /\ c2.holds /\ c3.holds)
<1> DEFINE S == {c1, c2, c3}
           s == <<c1, c2, c3>>
<1>1. s \in Seq(S) /\ \A c \in S : IsCheck(c)
  OBVIOUS
<1>2. Pass(s) => c1.holds /\ c2.holds /\ c3.holds
  BY DEF Pass
<1> HIDE DEF S, s
<1>3. IsChecks(s)
  BY <1>1, WrittenOut
<1> QED
  BY <1>2, <1>3 DEF s

\* The same for four.
LEMMA FourCheck ==
  ASSUME NEW c1, NEW c2, NEW c3, NEW c4,
         IsCheck(c1) /\ IsCheck(c2) /\ IsCheck(c3) /\ IsCheck(c4)
  PROVE  IsChecks(<<c1, c2, c3, c4>>) /\ (Pass(<<c1, c2, c3, c4>>) => c1.holds /\ c2.holds /\ c3.holds /\ c4.holds)
<1> DEFINE S == {c1, c2, c3, c4}
           s == <<c1, c2, c3, c4>>
<1>1. s \in Seq(S) /\ \A c \in S : IsCheck(c)
  OBVIOUS
<1>2. Pass(s) => c1.holds /\ c2.holds /\ c3.holds /\ c4.holds
  BY DEF Pass
<1> HIDE DEF S, s
<1>3. IsChecks(s)
  BY <1>1, WrittenOut
<1> QED
  BY <1>2, <1>3 DEF s

\* The same for five.
LEMMA FiveCheck ==
  ASSUME NEW c1, NEW c2, NEW c3, NEW c4, NEW c5,
         IsCheck(c1) /\ IsCheck(c2) /\ IsCheck(c3) /\ IsCheck(c4) /\ IsCheck(c5)
  PROVE  /\ IsChecks(<<c1, c2, c3, c4, c5>>)
         /\ Pass(<<c1, c2, c3, c4, c5>>) => c1.holds /\ c2.holds /\ c3.holds /\ c4.holds /\ c5.holds
<1> DEFINE S == {c1, c2, c3, c4, c5}
           s == <<c1, c2, c3, c4, c5>>
<1>1. s \in Seq(S) /\ \A c \in S : IsCheck(c)
  OBVIOUS
<1>2. Pass(s) => c1.holds /\ c2.holds /\ c3.holds /\ c4.holds /\ c5.holds
  BY DEF Pass
<1> HIDE DEF S, s
<1>3. IsChecks(s)
  BY <1>1, WrittenOut
<1> QED
  BY <1>2, <1>3 DEF s

\* The same for ten, the settings of validate_transport.
LEMMA TenCheck ==
  ASSUME NEW c1, NEW c2, NEW c3, NEW c4, NEW c5, NEW c6, NEW c7, NEW c8, NEW c9, NEW c10,
         IsCheck(c1) /\ IsCheck(c2) /\ IsCheck(c3) /\ IsCheck(c4) /\ IsCheck(c5)
         /\ IsCheck(c6) /\ IsCheck(c7) /\ IsCheck(c8) /\ IsCheck(c9) /\ IsCheck(c10)
  PROVE  /\ IsChecks(<<c1, c2, c3, c4, c5, c6, c7, c8, c9, c10>>)
         /\ Pass(<<c1, c2, c3, c4, c5, c6, c7, c8, c9, c10>>) =>
              /\ c1.holds /\ c2.holds /\ c3.holds /\ c4.holds /\ c5.holds
              /\ c6.holds /\ c7.holds /\ c8.holds /\ c9.holds /\ c10.holds
<1> DEFINE S == {c1, c2, c3, c4, c5, c6, c7, c8, c9, c10}
           s == <<c1, c2, c3, c4, c5, c6, c7, c8, c9, c10>>
<1>1. s \in Seq(S) /\ \A c \in S : IsCheck(c)
  OBVIOUS
<1>2. Pass(s) =>
        /\ c1.holds /\ c2.holds /\ c3.holds /\ c4.holds /\ c5.holds
        /\ c6.holds /\ c7.holds /\ c8.holds /\ c9.holds /\ c10.holds
  BY DEF Pass
<1> HIDE DEF S, s
<1>3. IsChecks(s)
  BY <1>1, WrittenOut
<1> QED
  BY <1>2, <1>3 DEF s

-----------------------------------------------------------------------------
(* The checks of runtime-config, one validator after the other. *)

\* An error names its cause, so no check reports success.
LEMMA ErrorsAreErrors ==
  /\ \A f, h : IsCheck(InvalidField(f, h)) /\ IsCheck(MissingField(f, h)) /\ IsCheck(UnexpectedField(f, h))
  /\ \A h : IsCheck(Check(h, <<"ServiceMismatch">>)) /\ IsCheck(Check(h, <<"UnknownField">>))
            /\ IsCheck(Check(h, <<"InvalidSource">>)) /\ \A f : IsCheck(Check(h, <<"InvalidField", f>>))
  BY DEF IsCheck, InvalidField, MissingField, UnexpectedField, Check

\* validate_tls_mode lets only dev turn TLS off.
LEMMA TlsMode ==
  ASSUME NEW raw, NEW f
  PROVE  /\ IsChecks(validate_tls_mode(raw, f))
         /\ Pass(validate_tls_mode(raw, f)) =>
              /\ Value(raw, f) \in {"disable", "verify_full"}
              /\ Value(raw, f) = "disable" => raw["environment"] = "dev"
<1> DEFINE a == InvalidField(f, Value(raw, f) \in {"disable", "verify_full"})
           b == InvalidField(f, Value(raw, f) = "disable" => raw["environment"] = "dev")
<1>1. IsCheck(a) /\ (a.holds => Value(raw, f) \in {"disable", "verify_full"})
  BY Zenon, ErrorsAreErrors DEF InvalidField, Check
<1>2. IsCheck(b) /\ (b.holds => (Value(raw, f) = "disable" => raw["environment"] = "dev"))
  BY Zenon, ErrorsAreErrors DEF InvalidField, Check
<1>3. validate_tls_mode(raw, f) = <<a, b>>
  BY DEF validate_tls_mode
<1> HIDE DEF a, b
<1> QED
  BY <1>1, <1>2, <1>3, TwoCheck

\* A rejected field is not given.
LEMMA RejectedFields ==
  ASSUME NEW raw
  PROVE  IsChecks(reject_migration_fields(raw)) /\ IsChecks(reject_provisioner_fields(raw))
<1> DEFINE S == {UnexpectedField(f, Given(raw, f)) :
                   f \in {"migration_scope", "migration_timeout_ms", "topology_file", "topology_apply_timeout_ms"}}
<1>1. \A c \in S : IsCheck(c)
  BY ErrorsAreErrors
<1>2. reject_migration_fields(raw) \in Seq(S) /\ reject_provisioner_fields(raw) \in Seq(S)
  BY DEF reject_migration_fields, reject_provisioner_fields, Each
<1> HIDE DEF S
<1> QED
  BY <1>1, <1>2, WrittenOut

\* The identifier of a Cell.
LEMMA CellIdChecks ==
  ASSUME NEW raw
  PROVE  IsChecks(validate_cell_id(raw))
  BY ErrorsAreErrors, TwoCheck, Zenon DEF validate_cell_id

\* validate_base accepts the three known environments only.
LEMMA Base ==
  ASSUME NEW raw
  PROVE  /\ IsChecks(validate_base(raw))
         /\ Pass(validate_base(raw)) => raw["environment"] \in {"dev", "npr", "prd"}
<1> DEFINE a == MissingField("environment", Given(raw, "environment"))
           b == InvalidField("environment", raw["environment"] \in {"dev", "npr", "prd"})
           c == InvalidField("log_filter", Bounded(Value(raw, "log_filter")))
           d == InvalidField("shutdown_grace_ms", contains(100, MAX_SHUTDOWN_GRACE_MS, Value(raw, "shutdown_grace_ms")))
<1>1. IsCheck(a) /\ IsCheck(b) /\ IsCheck(c) /\ IsCheck(d)
  BY Zenon, ErrorsAreErrors
<1>2. b.holds => raw["environment"] \in {"dev", "npr", "prd"}
  BY Zenon DEF InvalidField, Check
<1>3. validate_base(raw) = <<a, b, c, d>>
  BY DEF validate_base
<1> HIDE DEF a, b, c, d
<1> QED
  BY <1>1, <1>2, <1>3, FourCheck

\* One range check for every field of a list.
RangeChecks(F, low, high, raw) == Each(F, LAMBDA f : InvalidField(f, contains(low, high, Value(raw, f))))

\* The check of a list of fields passes only when every field is in range.
LEMMA EveryField ==
  ASSUME NEW F, \E X : F \in Seq(X), NEW low, NEW high, NEW raw
  PROVE  /\ IsChecks(RangeChecks(F, low, high, raw))
         /\ Pass(RangeChecks(F, low, high, raw)) => \A f \in ToSet(F) : contains(low, high, Value(raw, f))
<1> DEFINE check(f) == InvalidField(f, contains(low, high, Value(raw, f)))
           s == RangeChecks(F, low, high, raw)
           S == {check(f) : f \in ToSet(F)}
<1>1. \A f : IsCheck(check(f)) /\ (check(f).holds => contains(low, high, Value(raw, f)))
  BY Zenon, ErrorsAreErrors DEF InvalidField, Check
<1>2. s = [i \in DOMAIN F |-> check(F[i])]
  BY DEF RangeChecks, Each
<1> HIDE DEF check
<1>3. DOMAIN F = 1..Len(F) /\ Len(F) \in Nat /\ ToSet(F) = {F[i] : i \in DOMAIN F}
  BY LenProperties DEF ToSet
<1>4. Pass(s) => \A f \in ToSet(F) : check(f).holds
  BY <1>2, <1>3 DEF Pass
<1>5. (\A c \in S : IsCheck(c)) /\ (\A i \in DOMAIN F : check(F[i]) \in S)
  BY <1>1, <1>3
<1> HIDE DEF s, S
<1>6. s \in Seq(S)
  BY <1>2, <1>3, <1>5
<1> QED
  BY <1>1, <1>4, <1>5, <1>6, WrittenOut DEF s

\* The timeouts are listed one after the other.
LEMMA TimeoutLists == (\E X : DatabaseTimeouts \in Seq(X)) /\ (\E X : TransportTimeouts \in Seq(X))
<1>1. DatabaseTimeouts \in Seq({"database.acquire_timeout_ms", "database.connect_timeout_ms",
        "database.statement_timeout_ms", "database.lock_timeout_ms", "database.idle_in_transaction_timeout_ms"})
  BY DEF DatabaseTimeouts
<1>2. TransportTimeouts \in Seq({"transport.connect_timeout_ms", "transport.request_timeout_ms",
        "transport.publish_ack_timeout_ms", "transport.startup_timeout_ms"})
  BY DEF TransportTimeouts
<1> QED
  BY <1>1, <1>2, Zenon

\* What an accepted database section guarantees.
DatabaseIsSound(raw) ==
  /\ Value(raw, "database.tls_mode") \in {"disable", "verify_full"}
  /\ Value(raw, "database.tls_mode") = "disable" => raw["environment"] = "dev"
  /\ contains(1, 100, Value(raw, "database.max_connections"))
  /\ Value(raw, "database.min_connections") <= Value(raw, "database.max_connections")
  /\ \A f \in ToSet(DatabaseTimeouts) : contains(100, MAX_DATABASE_TIMEOUT_MS, Value(raw, f))
  /\ contains(1000, MAX_MAX_LIFETIME_MS, Value(raw, "database.max_lifetime_ms"))

\* validate_database passes only a sound database section.
LEMMA Database ==
  ASSUME NEW raw
  PROVE  IsChecks(validate_database(raw)) /\ (Pass(validate_database(raw)) => DatabaseIsSound(raw))
<1> DEFINE v(f) == Value(raw, f)
           a == MissingField("database", HasDatabase(raw))
           b == MissingField("database.credential_ref", Given(raw, "database.credential_ref"))
           c == InvalidField("database.credential_ref", Bounded(raw["database.credential_ref"]))
           d == InvalidField("database.max_connections", contains(1, 100, v("database.max_connections")))
           e == InvalidField("database.min_connections",
                  v("database.min_connections") <= v("database.max_connections"))
           g == InvalidField("database.max_lifetime_ms",
                  contains(1000, MAX_MAX_LIFETIME_MS, v("database.max_lifetime_ms")))
           s1 == <<a, b, c>>
           s2 == validate_tls_mode(raw, "database.tls_mode")
           s3 == <<d, e>>
           s4 == RangeChecks(DatabaseTimeouts, 100, MAX_DATABASE_TIMEOUT_MS, raw)
           s5 == <<g>>
<1>1. (IsCheck(a) /\ IsCheck(b) /\ IsCheck(c)) /\ (IsCheck(d) /\ IsCheck(e) /\ IsCheck(g))
  <2>1. IsCheck(a) /\ IsCheck(b) /\ IsCheck(c)
    BY Zenon, ErrorsAreErrors
  <2>2. IsCheck(d) /\ IsCheck(e) /\ IsCheck(g)
    BY ErrorsAreErrors
  <2> QED
    BY <2>1, <2>2
<1>2. /\ d.holds => contains(1, 100, v("database.max_connections"))
      /\ e.holds => v("database.min_connections") <= v("database.max_connections")
      /\ g.holds => contains(1000, MAX_MAX_LIFETIME_MS, v("database.max_lifetime_ms"))
  BY Zenon DEF InvalidField, Check
<1>3. validate_database(raw) = s1 \o s2 \o s3 \o s4 \o s5
  BY DEF validate_database, RangeChecks
<1> HIDE DEF a, b, c, d, e, g
<1>4. /\ IsChecks(s1) /\ IsChecks(s3) /\ IsChecks(s5)
      /\ Pass(s3) => d.holds /\ e.holds
      /\ Pass(s5) => g.holds
  BY <1>1, ThreeCheck, TwoCheck, OneCheck
<1>5. IsChecks(s2) /\ IsChecks(s4)
  BY TlsMode, EveryField, TimeoutLists
<1>6. Pass(s2) /\ Pass(s4) =>
        /\ v("database.tls_mode") \in {"disable", "verify_full"}
        /\ v("database.tls_mode") = "disable" => raw["environment"] = "dev"
        /\ \A f \in ToSet(DatabaseTimeouts) : contains(100, MAX_DATABASE_TIMEOUT_MS, Value(raw, f))
  BY TlsMode, EveryField, TimeoutLists
<1> HIDE DEF s1, s2, s3, s4, s5
<1>7. /\ IsChecks(s1 \o s2 \o s3 \o s4 \o s5)
      /\ Pass(s1 \o s2 \o s3 \o s4 \o s5) => Pass(s2) /\ Pass(s3) /\ Pass(s4) /\ Pass(s5)
  BY <1>4, <1>5, ChecksInARow
<1> QED
  BY <1>2, <1>3, <1>4, <1>6, <1>7 DEF DatabaseIsSound

\* What accepted servers guarantee.
ServersAreSound(raw) ==
  LET servers == raw["transport.servers"] IN
  /\ contains(1, 8, Len(servers)) /\ IsInjective(servers)
  /\ \A i \in DOMAIN servers : validate_transport_server(servers[i], Value(raw, "transport.tls_mode"))

\* validate_servers passes one to eight different servers, each fit for the TLS mode.
LEMMA Servers ==
  ASSUME NEW raw
  PROVE  IsChecks(validate_servers(raw)) /\ (Pass(validate_servers(raw)) => ServersAreSound(raw))
<1> DEFINE servers == raw["transport.servers"]
           tls == Value(raw, "transport.tls_mode")
           known == IF Given(raw, "transport.servers") THEN servers ELSE <<>>
           a == MissingField("transport.servers", Given(raw, "transport.servers"))
           b == InvalidField("transport.servers", contains(1, 8, Len(known)))
           c == InvalidField("transport.servers",
                  /\ \A i \in DOMAIN known : validate_transport_server(known[i], tls)
                  /\ IsInjective(known))
<1>1. IsCheck(a) /\ IsCheck(b) /\ IsCheck(c)
  BY Zenon, ErrorsAreErrors
<1>2. /\ a.holds => Given(raw, "transport.servers")
      /\ b.holds => contains(1, 8, Len(known))
      /\ c.holds => /\ \A i \in DOMAIN known : validate_transport_server(known[i], tls)
                    /\ IsInjective(known)
  BY Zenon DEF InvalidField, MissingField, Check
<1>3. validate_servers(raw) = <<a, b, c>>
  BY DEF validate_servers
<1>4. Given(raw, "transport.servers") => known = servers
  OBVIOUS
<1> HIDE DEF a, b, c, known
<1>5. IsChecks(<<a, b, c>>) /\ (Pass(<<a, b, c>>) => a.holds /\ b.holds /\ c.holds)
  BY <1>1, ThreeCheck
<1> QED
  BY <1>2, <1>3, <1>4, <1>5 DEF ServersAreSound

\* validate_ca_certificate asks for a certificate exactly when TLS is verified.
LEMMA CaCertificate ==
  ASSUME NEW raw
  PROVE  /\ IsChecks(validate_ca_certificate(raw))
         /\ Pass(validate_ca_certificate(raw)) =>
              (Value(raw, "transport.tls_mode") = "verify_full" <=> Given(raw, "transport.ca_certificate_file"))
<1> DEFINE f == "transport.ca_certificate_file"
           verified == Value(raw, "transport.tls_mode") = "verify_full"
           a == MissingField(f, verified => Given(raw, f))
           b == InvalidField(f, verified => Bounded(raw[f]))
           c == UnexpectedField(f, ~verified /\ Given(raw, f))
<1>1. IsCheck(a) /\ IsCheck(b) /\ IsCheck(c)
  BY Zenon, ErrorsAreErrors
<1>2. (a.holds => (verified => Given(raw, f))) /\ (c.holds => ~(~verified /\ Given(raw, f)))
  BY Zenon DEF UnexpectedField, MissingField, Check
<1>3. validate_ca_certificate(raw) = <<a, b, c>>
  BY DEF validate_ca_certificate
<1> HIDE DEF a, b, c
<1>5. IsChecks(<<a, b, c>>) /\ (Pass(<<a, b, c>>) => a.holds /\ b.holds /\ c.holds)
  BY <1>1, ThreeCheck
<1> QED
  BY <1>2, <1>3, <1>5

\* validate_outbox_lease passes whole seconds in the range of the timeouts.
LEMMA OutboxLease ==
  ASSUME NEW raw
  PROVE  /\ IsChecks(validate_outbox_lease(raw))
         /\ Pass(validate_outbox_lease(raw)) =>
              /\ contains(1000, MAX_TRANSPORT_TIMEOUT_MS, Value(raw, "transport.outbox_lease_ms"))
              /\ Value(raw, "transport.outbox_lease_ms") % 1000 = 0
<1> DEFINE v(f) == Value(raw, f)
           A == contains(1000, MAX_TRANSPORT_TIMEOUT_MS, v("transport.outbox_lease_ms"))
           B == v("transport.outbox_lease_ms") % 1000 = 0
           a == InvalidField("transport.outbox_lease_ms",
            /\ contains(1000, MAX_TRANSPORT_TIMEOUT_MS, v("transport.outbox_lease_ms"))
            /\ v("transport.outbox_lease_ms") % 1000 = 0)
           b == InvalidField("transport.outbox_lease_ms",
            v("transport.outbox_lease_ms") > v("transport.publish_ack_timeout_ms"))
<1>1. IsCheck(a) /\ IsCheck(b)
  BY Zenon, ErrorsAreErrors
<1>2. a.holds => A /\ B
  BY Zenon DEF InvalidField, Check
<1>3. validate_outbox_lease(raw) = <<a, b>>
  BY DEF validate_outbox_lease
<1> HIDE DEF a, b
<1>5. IsChecks(<<a, b>>) /\ (Pass(<<a, b>>) => a.holds /\ b.holds)
  BY <1>1, TwoCheck
<1> QED
  BY <1>2, <1>3, <1>5

\* A size that passes its check lies in its range.
SizeCheck(raw, f, max) == InvalidField(f, contains(1, max, Value(raw, f)))

\* Every such check has an error, and holds only inside the range.
LEMMA SizeChecks ==
  \A raw, f, max :
    IsCheck(SizeCheck(raw, f, max)) /\ (SizeCheck(raw, f, max).holds => contains(1, max, Value(raw, f)))
  BY Zenon, ErrorsAreErrors DEF SizeCheck, InvalidField, Check

\* The last checks of validate_transport, and what they guarantee.
SettingChecks(raw) ==
  <<SizeCheck(raw, "transport.publish_concurrency", 128),
    SizeCheck(raw, "transport.retry_base_ms", MAX_TRANSPORT_TIMEOUT_MS),
    InvalidField("transport.retry_max_ms",
      contains(Value(raw, "transport.retry_base_ms"), MAX_TRANSPORT_TIMEOUT_MS,
               Value(raw, "transport.retry_max_ms"))),
    SizeCheck(raw, "transport.consumer_fetch_batch_size", 500),
    SizeCheck(raw, "transport.consumer_fetch_expires_ms", MAX_TRANSPORT_TIMEOUT_MS),
    SizeCheck(raw, "transport.consumer_handler_timeout_ms", MAX_CONSUMER_ACK_WAIT_MS - 1),
    SizeCheck(raw, "transport.consumer_nak_delay_ms", MAX_TRANSPORT_TIMEOUT_MS),
    SizeCheck(raw, "transport.consumer_max_in_flight", 1024),
    InvalidField("transport.expected_server_minimum",
      Value(raw, "transport.expected_server_minimum") = "2.14.3"),
    InvalidField("transport.expected_server_maximum_exclusive",
      Value(raw, "transport.expected_server_maximum_exclusive") = "2.15.0")>>

SettingsAreSound(raw) ==
  /\ contains(1, 128, Value(raw, "transport.publish_concurrency"))
  /\ contains(1, MAX_TRANSPORT_TIMEOUT_MS, Value(raw, "transport.retry_base_ms"))
  /\ contains(Value(raw, "transport.retry_base_ms"), MAX_TRANSPORT_TIMEOUT_MS, Value(raw, "transport.retry_max_ms"))
  /\ contains(1, 500, Value(raw, "transport.consumer_fetch_batch_size"))
  /\ contains(1, MAX_TRANSPORT_TIMEOUT_MS, Value(raw, "transport.consumer_fetch_expires_ms"))
  /\ contains(1, MAX_CONSUMER_ACK_WAIT_MS - 1, Value(raw, "transport.consumer_handler_timeout_ms"))
  /\ contains(1, MAX_TRANSPORT_TIMEOUT_MS, Value(raw, "transport.consumer_nak_delay_ms"))
  /\ contains(1, 1024, Value(raw, "transport.consumer_max_in_flight"))

\* The checks pass only settings in their ranges.
LEMMA Settings ==
  ASSUME NEW raw
  PROVE  IsChecks(SettingChecks(raw)) /\ (Pass(SettingChecks(raw)) => SettingsAreSound(raw))
<1> DEFINE c1 == SizeCheck(raw, "transport.publish_concurrency", 128)
           c2 == SizeCheck(raw, "transport.retry_base_ms", MAX_TRANSPORT_TIMEOUT_MS)
           c3 == InvalidField("transport.retry_max_ms",
                   contains(Value(raw, "transport.retry_base_ms"), MAX_TRANSPORT_TIMEOUT_MS,
                            Value(raw, "transport.retry_max_ms")))
           c4 == SizeCheck(raw, "transport.consumer_fetch_batch_size", 500)
           c5 == SizeCheck(raw, "transport.consumer_fetch_expires_ms", MAX_TRANSPORT_TIMEOUT_MS)
           c6 == SizeCheck(raw, "transport.consumer_handler_timeout_ms", MAX_CONSUMER_ACK_WAIT_MS - 1)
           c7 == SizeCheck(raw, "transport.consumer_nak_delay_ms", MAX_TRANSPORT_TIMEOUT_MS)
           c8 == SizeCheck(raw, "transport.consumer_max_in_flight", 1024)
           c9 == InvalidField("transport.expected_server_minimum",
                   Value(raw, "transport.expected_server_minimum") = "2.14.3")
           c10 == InvalidField("transport.expected_server_maximum_exclusive",
                    Value(raw, "transport.expected_server_maximum_exclusive") = "2.15.0")
<1>1. IsCheck(c3) /\ IsCheck(c9) /\ IsCheck(c10)
  BY Zenon, ErrorsAreErrors
<1>2. c3.holds => contains(Value(raw, "transport.retry_base_ms"), MAX_TRANSPORT_TIMEOUT_MS,
                           Value(raw, "transport.retry_max_ms"))
  BY Zenon DEF InvalidField, Check
<1>3. /\ IsCheck(c1) /\ (c1.holds => contains(1, 128, Value(raw, "transport.publish_concurrency")))
      /\ IsCheck(c2) /\ (c2.holds => contains(1, MAX_TRANSPORT_TIMEOUT_MS, Value(raw, "transport.retry_base_ms")))
      /\ IsCheck(c4) /\ (c4.holds => contains(1, 500, Value(raw, "transport.consumer_fetch_batch_size")))
      /\ IsCheck(c5) /\ (c5.holds => contains(1, MAX_TRANSPORT_TIMEOUT_MS, Value(raw, "transport.consumer_fetch_expires_ms")))
      /\ IsCheck(c6) /\ (c6.holds => contains(1, MAX_CONSUMER_ACK_WAIT_MS - 1, Value(raw, "transport.consumer_handler_timeout_ms")))
      /\ IsCheck(c7) /\ (c7.holds => contains(1, MAX_TRANSPORT_TIMEOUT_MS, Value(raw, "transport.consumer_nak_delay_ms")))
      /\ IsCheck(c8) /\ (c8.holds => contains(1, 1024, Value(raw, "transport.consumer_max_in_flight")))
  BY SizeChecks
<1> DEFINE s == <<c1, c2, c3, c4, c5, c6, c7, c8, c9, c10>>
<1>4. s = SettingChecks(raw)
  BY DEF SettingChecks
<1> HIDE DEF c1, c2, c3, c4, c5, c6, c7, c8, c9, c10
<1>5. IsChecks(s) /\ (Pass(s) =>
        /\ c1.holds /\ c2.holds /\ c3.holds /\ c4.holds /\ c5.holds /\ c6.holds /\ c7.holds /\ c8.holds)
  BY <1>1, <1>3, TenCheck
<1> QED
  BY <1>2, <1>3, <1>4, <1>5 DEF SettingsAreSound

\* What an accepted transport section guarantees.
TransportIsSound(raw) ==
  /\ Value(raw, "transport.tls_mode") \in {"disable", "verify_full"}
  /\ Value(raw, "transport.tls_mode") = "disable" => raw["environment"] = "dev"
  /\ ServersAreSound(raw)
  /\ Value(raw, "transport.tls_mode") = "verify_full" <=> Given(raw, "transport.ca_certificate_file")
  /\ \A f \in ToSet(TransportTimeouts) : contains(MIN_TRANSPORT_TIMEOUT_MS, MAX_TRANSPORT_TIMEOUT_MS, Value(raw, f))
  /\ Value(raw, "transport.startup_timeout_ms") >= Value(raw, "transport.connect_timeout_ms")
  /\ contains(1, MAX_TRANSPORT_TIMEOUT_MS, Value(raw, "transport.outbox_poll_interval_ms"))
  /\ contains(1, 500, Value(raw, "transport.outbox_claim_batch_size"))
  /\ contains(1000, MAX_TRANSPORT_TIMEOUT_MS, Value(raw, "transport.outbox_lease_ms"))
  /\ Value(raw, "transport.outbox_lease_ms") % 1000 = 0
  /\ SettingsAreSound(raw)

\* validate_transport passes only a sound transport section.
LEMMA Transport ==
  ASSUME NEW raw
  PROVE  IsChecks(validate_transport(raw)) /\ (Pass(validate_transport(raw)) => TransportIsSound(raw))
<1> DEFINE a == MissingField("transport", HasTransport(raw))
           b == MissingField("transport.credential_ref", Given(raw, "transport.credential_ref"))
           c == InvalidField("transport.credential_ref", Bounded(raw["transport.credential_ref"]))
           d == InvalidField("transport.startup_timeout_ms",
                  Value(raw, "transport.startup_timeout_ms") >= Value(raw, "transport.connect_timeout_ms"))
           e == SizeCheck(raw, "transport.outbox_poll_interval_ms", MAX_TRANSPORT_TIMEOUT_MS)
           g == SizeCheck(raw, "transport.outbox_claim_batch_size", 500)
           s1 == <<a>>
           s2 == validate_tls_mode(raw, "transport.tls_mode")
           s3 == validate_servers(raw)
           s4 == <<b, c>>
           s5 == validate_ca_certificate(raw)
           s6 == RangeChecks(TransportTimeouts, MIN_TRANSPORT_TIMEOUT_MS, MAX_TRANSPORT_TIMEOUT_MS, raw)
           s7 == <<d, e, g>>
           s8 == validate_outbox_lease(raw)
           s9 == SettingChecks(raw)
<1>1. IsCheck(a) /\ IsCheck(b) /\ IsCheck(c) /\ IsCheck(d)
  BY Zenon, ErrorsAreErrors
<1>2. d.holds => Value(raw, "transport.startup_timeout_ms") >= Value(raw, "transport.connect_timeout_ms")
  BY Zenon DEF InvalidField, Check
<1>3. /\ IsCheck(e) /\ (e.holds => contains(1, MAX_TRANSPORT_TIMEOUT_MS, Value(raw, "transport.outbox_poll_interval_ms")))
      /\ IsCheck(g) /\ (g.holds => contains(1, 500, Value(raw, "transport.outbox_claim_batch_size")))
  BY SizeChecks
<1>4. validate_transport(raw) = s1 \o s2 \o s3 \o s4 \o s5 \o s6 \o s7 \o s8 \o s9
  BY DEF validate_transport, RangeChecks, SettingChecks, SizeCheck
<1> HIDE DEF a, b, c, d, e, g
<1>5. IsChecks(s1) /\ IsChecks(s4) /\ IsChecks(s7) /\ (Pass(s7) => d.holds /\ e.holds /\ g.holds)
  BY <1>1, <1>3, OneCheck, TwoCheck, ThreeCheck
<1>6. IsChecks(s2) /\ IsChecks(s3) /\ IsChecks(s5) /\ IsChecks(s6) /\ IsChecks(s8) /\ IsChecks(s9)
  <2>1. IsChecks(s2) /\ IsChecks(s3) /\ IsChecks(s5)
    BY TlsMode, Servers, CaCertificate
  <2>2. IsChecks(s8) /\ IsChecks(s9)
    BY OutboxLease, Settings
  <2>3. IsChecks(s6)
    BY EveryField, TimeoutLists
  <2> QED
    BY <2>1, <2>2, <2>3
<1>7. /\ Pass(s2) =>
           /\ Value(raw, "transport.tls_mode") \in {"disable", "verify_full"}
           /\ Value(raw, "transport.tls_mode") = "disable" => raw["environment"] = "dev"
      /\ Pass(s3) => ServersAreSound(raw)
      /\ Pass(s5) => (Value(raw, "transport.tls_mode") = "verify_full" <=> Given(raw, "transport.ca_certificate_file"))
      /\ Pass(s6) => \A f \in ToSet(TransportTimeouts) :
                       contains(MIN_TRANSPORT_TIMEOUT_MS, MAX_TRANSPORT_TIMEOUT_MS, Value(raw, f))
      /\ Pass(s8) => /\ contains(1000, MAX_TRANSPORT_TIMEOUT_MS, Value(raw, "transport.outbox_lease_ms"))
                     /\ Value(raw, "transport.outbox_lease_ms") % 1000 = 0
      /\ Pass(s9) => SettingsAreSound(raw)
  BY TlsMode, Servers, CaCertificate, EveryField, TimeoutLists, OutboxLease, Settings
<1> HIDE DEF s1, s2, s3, s4, s5, s6, s7, s8, s9
<1>8. /\ IsChecks(s1 \o s2 \o s3 \o s4 \o s5)
      /\ Pass(s1 \o s2 \o s3 \o s4 \o s5) => Pass(s2) /\ Pass(s3) /\ Pass(s5)
  BY <1>5, <1>6, ChecksInARow
<1>9. /\ IsChecks(s1 \o s2 \o s3 \o s4 \o s5 \o s6 \o s7 \o s8 \o s9)
      /\ Pass(s1 \o s2 \o s3 \o s4 \o s5 \o s6 \o s7 \o s8 \o s9) =>
           Pass(s1 \o s2 \o s3 \o s4 \o s5) /\ Pass(s6) /\ Pass(s7) /\ Pass(s8) /\ Pass(s9)
  <2> DEFINE s == s1 \o s2 \o s3 \o s4 \o s5
  <2> HIDE DEF s
  <2>1. IsChecks(s \o s6 \o s7 \o s8 \o s9)
        /\ (Pass(s \o s6 \o s7 \o s8 \o s9) => Pass(s) /\ Pass(s6) /\ Pass(s7) /\ Pass(s8) /\ Pass(s9))
    BY <1>5, <1>6, <1>8, ChecksInARow DEF s
  <2> QED
    BY <2>1 DEF s
<1> QED
  BY <1>2, <1>3, <1>4, <1>5, <1>7, <1>8, <1>9, Zenon DEF TransportIsSound

-----------------------------------------------------------------------------
(* What each loader accepts, and that only dev runs in plain text. *)

\* The environment of an accepted process is its own environment variable.
LEMMA Sources ==
  ASSUME NEW env, NEW file
  PROVE  /\ IsChecks(deserialize_sources(env, file))
         /\ Pass(deserialize_sources(env, file)) => env["environment"] # Absent
<1> DEFINE a == MissingField("environment", env["environment"] # Absent)
           b == Check(env["unknown"] = Absent, <<"UnknownField">>)
           c == Check(\A f \in Field : Parses(f, env[f]), <<"InvalidField", "number">>)
           d == InvalidField("transport.servers", parse_environment_servers(env["transport.servers"]))
           e == Check(/\ file["unknown"] = Absent
                      /\ \A f \in Field : Parses(f, merge(env, file)[f]), <<"InvalidSource">>)
<1>1. IsCheck(a) /\ IsCheck(b) /\ IsCheck(c) /\ IsCheck(d) /\ IsCheck(e)
  BY Zenon, ErrorsAreErrors
<1>2. a.holds => env["environment"] # Absent
  BY Zenon DEF MissingField, Check
<1>3. deserialize_sources(env, file) = <<a, b, c, d, e>>
  BY DEF deserialize_sources
<1> HIDE DEF a, b, c, d, e
<1>4. IsChecks(<<a, b, c, d, e>>) /\ (Pass(<<a, b, c, d, e>>) => a.holds)
  BY <1>1, FiveCheck
<1> QED
  BY <1>2, <1>3, <1>4

\* What every loader guarantees of the values it hands on.
ConfigIsSound(s, raw) ==
  /\ raw["environment"] \in {"dev", "npr", "prd"}
  /\ UsesDatabase(s) => DatabaseIsSound(raw)
  /\ UsesTransport(s) => TransportIsSound(raw)

\* The APIs have no transport, the workers need one.
LEMMA TransportOfService ==
  ASSUME NEW s, NEW raw
  PROVE  IsChecks(TransportOf(s, raw)) /\ (Pass(TransportOf(s, raw)) => (RunsMessages(s) => TransportIsSound(raw)))
<1>1. IsCheck(UnexpectedField("transport", HasTransport(raw)))
  BY Zenon, ErrorsAreErrors
<1> DEFINE c == UnexpectedField("transport", HasTransport(raw))
<1> HIDE DEF c
<1>2. IsChecks(<<c>>)
  BY <1>1, OneCheck DEF c
<1> QED
  BY <1>2, Transport DEF TransportOf, RunsMessages, c

\* load_platform accepts only what its API or worker can run with.
LEMMA PlatformLoader ==
  ASSUME NEW s, NEW raw, s \in {"platform-api", "platform-worker"}
  PROVE  IsChecks(load_platform(s, raw)) /\ (Pass(load_platform(s, raw)) => ConfigIsSound(s, raw))
<1> DEFINE a == Check(accepts_platform_config(s), <<"ServiceMismatch">>)
           b == UnexpectedField("cell_id", Given(raw, "cell_id"))
           s1 == <<a>>
           s2 == reject_migration_fields(raw)
           s3 == reject_provisioner_fields(raw)
           s4 == <<b>>
           s5 == validate_base(raw)
           s6 == validate_database(raw)
           s7 == TransportOf(s, raw)
<1>1. IsCheck(a) /\ IsCheck(b)
  BY Zenon, ErrorsAreErrors
<1>2. load_platform(s, raw) = s1 \o s2 \o s3 \o s4 \o s5 \o s6 \o s7
  BY DEF load_platform
<1> HIDE DEF a, b
<1>3. IsChecks(s1) /\ IsChecks(s2) /\ IsChecks(s3) /\ IsChecks(s4) /\ IsChecks(s5) /\ IsChecks(s6) /\ IsChecks(s7)
  BY <1>1, OneCheck, RejectedFields, Base, Database, TransportOfService
<1>4. Pass(s5) /\ Pass(s6) /\ Pass(s7) =>
        raw["environment"] \in {"dev", "npr", "prd"} /\ DatabaseIsSound(raw) /\ (RunsMessages(s) => TransportIsSound(raw))
  BY Base, Database, TransportOfService
<1> HIDE DEF s1, s2, s3, s4, s5, s6, s7
<1>5. /\ IsChecks(s1 \o s2 \o s3 \o s4 \o s5 \o s6 \o s7)
      /\ Pass(s1 \o s2 \o s3 \o s4 \o s5 \o s6 \o s7) => Pass(s5) /\ Pass(s6) /\ Pass(s7)
  BY <1>3, ChecksInARow
<1>6. RunsMessages(s) <=> UsesTransport(s)
  BY DEF RunsMessages, UsesTransport
<1> QED
  BY <1>2, <1>4, <1>5, <1>6 DEF ConfigIsSound

\* load_cell accepts only what its API or worker can run with.
LEMMA CellLoader ==
  ASSUME NEW s, NEW raw, s \in {"cell-api", "cell-worker"}
  PROVE  IsChecks(load_cell(s, raw)) /\ (Pass(load_cell(s, raw)) => ConfigIsSound(s, raw))
<1> DEFINE a == Check(accepts_cell_config(s), <<"ServiceMismatch">>)
           s1 == <<a>>
           s2 == reject_migration_fields(raw)
           s3 == reject_provisioner_fields(raw)
           s4 == validate_cell_id(raw)
           s5 == validate_base(raw)
           s6 == validate_database(raw)
           s7 == TransportOf(s, raw)
<1>1. IsCheck(a)
  BY Zenon, ErrorsAreErrors
<1>2. load_cell(s, raw) = s1 \o s2 \o s3 \o s4 \o s5 \o s6 \o s7
  BY DEF load_cell
<1> HIDE DEF a
<1>3. IsChecks(s1) /\ IsChecks(s2) /\ IsChecks(s3) /\ IsChecks(s4) /\ IsChecks(s5) /\ IsChecks(s6) /\ IsChecks(s7)
  BY <1>1, OneCheck, RejectedFields, CellIdChecks, Base, Database, TransportOfService
<1>4. Pass(s5) /\ Pass(s6) /\ Pass(s7) =>
        raw["environment"] \in {"dev", "npr", "prd"} /\ DatabaseIsSound(raw) /\ (RunsMessages(s) => TransportIsSound(raw))
  BY Base, Database, TransportOfService
<1> HIDE DEF s1, s2, s3, s4, s5, s6, s7
<1>5. /\ IsChecks(s1 \o s2 \o s3 \o s4 \o s5 \o s6 \o s7)
      /\ Pass(s1 \o s2 \o s3 \o s4 \o s5 \o s6 \o s7) => Pass(s5) /\ Pass(s6) /\ Pass(s7)
  BY <1>3, ChecksInARow
<1>6. RunsMessages(s) <=> UsesTransport(s)
  BY DEF RunsMessages, UsesTransport
<1> QED
  BY <1>2, <1>4, <1>5, <1>6 DEF ConfigIsSound

\* load_router accepts neither a database nor a transport.
LEMMA RouterLoader ==
  ASSUME NEW raw
  PROVE  IsChecks(load_router(raw)) /\ (Pass(load_router(raw)) => ConfigIsSound("tenant-router", raw))
<1> DEFINE a == UnexpectedField("cell_id", Given(raw, "cell_id"))
           b == UnexpectedField("database", HasDatabase(raw))
           c == UnexpectedField("transport", HasTransport(raw))
           s1 == reject_migration_fields(raw)
           s2 == reject_provisioner_fields(raw)
           s3 == <<a, b, c>>
           s4 == validate_base(raw)
<1>1. IsCheck(a) /\ IsCheck(b) /\ IsCheck(c)
  BY Zenon, ErrorsAreErrors
<1>2. load_router(raw) = s1 \o s2 \o s3 \o s4
  BY DEF load_router
<1> HIDE DEF a, b, c
<1>3. IsChecks(s1) /\ IsChecks(s2) /\ IsChecks(s3) /\ IsChecks(s4)
  BY <1>1, ThreeCheck, RejectedFields, Base
<1>4. Pass(s4) => raw["environment"] \in {"dev", "npr", "prd"}
  BY Base
<1> HIDE DEF s1, s2, s3, s4
<1>5. IsChecks(s1 \o s2 \o s3 \o s4) /\ (Pass(s1 \o s2 \o s3 \o s4) => Pass(s4))
  BY <1>3, ChecksInARow
<1> QED
  BY <1>2, <1>4, <1>5 DEF ConfigIsSound, UsesDatabase, UsesTransport

\* load_migrator accepts only a sound database, for either scope.
LEMMA MigratorLoader ==
  ASSUME NEW raw
  PROVE  IsChecks(load_migrator(raw)) /\ (Pass(load_migrator(raw)) => ConfigIsSound("db-migrator", raw))
<1> DEFINE scope == raw["migration_scope"]
           a == UnexpectedField("transport", HasTransport(raw))
           b == MissingField("migration_scope", Given(raw, "migration_scope"))
           c == InvalidField("migration_scope", scope \in {"platform", "cell"})
           d == UnexpectedField("cell_id", scope = "platform" /\ Given(raw, "cell_id"))
           e == InvalidField("migration_timeout_ms",
                    contains(1000, MAX_MIGRATION_TIMEOUT_MS, Value(raw, "migration_timeout_ms")))
           s1 == <<a>>
           s2 == reject_provisioner_fields(raw)
           s3 == <<b, c, d>>
           s4 == IF scope = "cell" THEN validate_cell_id(raw) ELSE <<>>
           s5 == validate_base(raw)
           s6 == validate_database(raw)
           s7 == <<e>>
<1>1. (IsCheck(a) /\ IsCheck(b) /\ IsCheck(c) /\ IsCheck(d)) /\ IsCheck(e)
  <2>1. IsCheck(a) /\ IsCheck(b) /\ IsCheck(c) /\ IsCheck(d)
    BY Zenon, ErrorsAreErrors
  <2>2. IsCheck(e)
    BY ErrorsAreErrors
  <2> QED
    BY <2>1, <2>2
<1>2. load_migrator(raw) = s1 \o s2 \o s3 \o s4 \o s5 \o s6 \o s7
  BY DEF load_migrator
<1> HIDE DEF a, b, c, d, e
<1>3. IsChecks(s4)
  <2>1. IsChecks(<<>>)
    <3> DEFINE none == <<>>
               S == {}
    <3>1. none \in Seq(S) /\ \A x \in S : IsCheck(x)
      OBVIOUS
    <3> HIDE DEF none, S
    <3> QED
      BY <3>1, WrittenOut DEF none
  <2> QED
    BY <2>1, CellIdChecks
<1>4. IsChecks(s1) /\ IsChecks(s2) /\ IsChecks(s3) /\ IsChecks(s5) /\ IsChecks(s6) /\ IsChecks(s7)
  BY <1>1, OneCheck, ThreeCheck, RejectedFields, Base, Database
<1>5. Pass(s5) /\ Pass(s6) => raw["environment"] \in {"dev", "npr", "prd"} /\ DatabaseIsSound(raw)
  BY Base, Database
<1> HIDE DEF s1, s2, s3, s4, s5, s6, s7
<1>6. /\ IsChecks(s1 \o s2 \o s3 \o s4 \o s5 \o s6 \o s7)
      /\ Pass(s1 \o s2 \o s3 \o s4 \o s5 \o s6 \o s7) => Pass(s5) /\ Pass(s6)
  BY <1>3, <1>4, ChecksInARow
<1> QED
  BY <1>2, <1>5, <1>6 DEF ConfigIsSound, UsesTransport

\* load_nats_provisioner accepts only a sound transport.
LEMMA ProvisionerLoader ==
  ASSUME NEW raw
  PROVE  /\ IsChecks(load_nats_provisioner(raw))
         /\ Pass(load_nats_provisioner(raw)) => ConfigIsSound("nats-provisioner", raw)
<1> DEFINE a == UnexpectedField("database", HasDatabase(raw))
           b == UnexpectedField("cell_id", Given(raw, "cell_id"))
           c == MissingField("topology_file", Given(raw, "topology_file"))
           d == InvalidField("topology_file", Bounded(raw["topology_file"]))
           e == InvalidField("topology_apply_timeout_ms",
                 contains(MIN_TRANSPORT_TIMEOUT_MS, MAX_TRANSPORT_TIMEOUT_MS,
                          Value(raw, "topology_apply_timeout_ms")))
           s1 == reject_migration_fields(raw)
           s2 == <<a, b>>
           s3 == validate_base(raw)
           s4 == validate_transport(raw)
           s5 == <<c, d, e>>
<1>1. IsCheck(a) /\ IsCheck(b) /\ IsCheck(c) /\ IsCheck(d) /\ IsCheck(e)
  BY Zenon, ErrorsAreErrors
<1>2. load_nats_provisioner(raw) = s1 \o s2 \o s3 \o s4 \o s5
  BY DEF load_nats_provisioner
<1> HIDE DEF a, b, c, d, e
<1>3. IsChecks(s1) /\ IsChecks(s2) /\ IsChecks(s3) /\ IsChecks(s4) /\ IsChecks(s5)
  BY <1>1, TwoCheck, ThreeCheck, RejectedFields, Base, Transport
<1>4. Pass(s3) /\ Pass(s4) => raw["environment"] \in {"dev", "npr", "prd"} /\ TransportIsSound(raw)
  BY Base, Transport
<1> HIDE DEF s1, s2, s3, s4, s5
<1>5. IsChecks(s1 \o s2 \o s3 \o s4 \o s5) /\ (Pass(s1 \o s2 \o s3 \o s4 \o s5) => Pass(s3) /\ Pass(s4))
  BY <1>3, ChecksInARow
<1> QED
  BY <1>2, <1>4, <1>5 DEF ConfigIsSound, UsesDatabase

\* Whatever a loader accepts is sound, for every pair of sources.
LEMMA AcceptedIsSound ==
  ASSUME NEW s \in Service, NEW env, NEW file, Accepted(s, env, file)
  PROVE  env["environment"] # Absent /\ ConfigIsSound(s, merge(env, file))
<1> DEFINE raw == merge(env, file)
           loader == IF accepts_platform_config(s) THEN load_platform(s, raw)
                     ELSE IF accepts_cell_config(s) THEN load_cell(s, raw)
                     ELSE IF s = "tenant-router" THEN load_router(raw)
                     ELSE IF s = "db-migrator" THEN load_migrator(raw)
                     ELSE load_nats_provisioner(raw)
           first == deserialize_sources(env, file)
<1>1. FirstError(first \o loader) = <<"ok">>
  BY DEF Accepted, load
<1> HIDE DEF raw, first
<1>2. IsChecks(loader) /\ (Pass(loader) => ConfigIsSound(s, raw))
  <2>1. CASE s \in {"platform-api", "platform-worker"}
    BY <2>1, PlatformLoader DEF accepts_platform_config
  <2>2. CASE s \in {"cell-api", "cell-worker"}
    BY <2>2, CellLoader DEF accepts_platform_config, accepts_cell_config
  <2>3. CASE s = "tenant-router"
    BY <2>3, RouterLoader DEF accepts_platform_config, accepts_cell_config
  <2>4. CASE s = "db-migrator"
    BY <2>4, MigratorLoader DEF accepts_platform_config, accepts_cell_config
  <2>5. CASE s = "nats-provisioner"
    BY <2>5, ProvisionerLoader DEF accepts_platform_config, accepts_cell_config
  <2> QED
    BY <2>1, <2>2, <2>3, <2>4, <2>5 DEF Service
<1>3. IsChecks(first) /\ (Pass(first) => env["environment"] # Absent)
  BY Sources DEF first
<1> HIDE DEF loader
<1>4. Pass(first) /\ Pass(loader)
  BY <1>1, <1>2, <1>3, ChecksInARow, NoError
<1> QED
  BY <1>2, <1>3, <1>4 DEF raw

\* The configuration that is looked at belongs to a service.
ConfigInput ==
  /\ "about" \in DOMAIN input
  /\ input.about = "config" =>
       /\ DOMAIN input = {"about", "service", "env", "file"} /\ input.service \in Service

\* Edits change sources and never the service.
LEMMA ConfigInputInvariant == BoundarySpec => []ConfigInput
<1>1. BoundaryInit => ConfigInput
  BY BoundariesAssumption DEF BoundaryInit, ConfigInput
<1>2. ConfigInput /\ [BoundaryNext]_boundary_vars => ConfigInput'
  <2> SUFFICES ASSUME ConfigInput, [BoundaryNext]_boundary_vars PROVE ConfigInput'
    OBVIOUS
  <2>1. ASSUME input'.about = "config", input.about = "config",
               NEW source \in {"env", "file"}, NEW f, NEW v, EditSource(source, f, v)
        PROVE  ConfigInput'
    BY <2>1 DEF ConfigInput, EditSource, MayEdit
  <2>2. ASSUME input' = input PROVE ConfigInput'
    BY <2>2 DEF ConfigInput
  <2> QED
    BY <2>1, <2>2, StepsByKind DEF ConfigInput
<1> QED
  BY <1>1, <1>2, PTL DEF BoundarySpec

\* For every pair of sources, edited in any way: a process whose own
\* environment is not dev verifies its database and its broker.
THEOREM OnlyDevRunsInPlainText == BoundarySpec => []OnlyDevTurnsTlsOff
<1>1. ConfigInput => OnlyDevTurnsTlsOff
  <2> DEFINE raw == merge(input.env, input.file)
  <2> SUFFICES ASSUME ConfigInput, ConfigIsAccepted, input.env["environment"] # "dev"
               PROVE  /\ UsesDatabase(input.service) => Value(raw, "database.tls_mode") = "verify_full"
                      /\ UsesTransport(input.service) =>
                           /\ Value(raw, "transport.tls_mode") = "verify_full"
                           /\ \A i \in DOMAIN raw["transport.servers"] : raw["transport.servers"][i][1] = "tls"
    BY DEF OnlyDevTurnsTlsOff, Raw
  <2>1. input.env["environment"] # Absent /\ ConfigIsSound(input.service, raw)
    BY AcceptedIsSound DEF ConfigInput, ConfigIsAccepted
  <2>2. raw["environment"] = input.env["environment"]
    BY <2>1 DEF merge, Field, RawConfig
  <2> HIDE DEF raw
  <2>3. UsesDatabase(input.service) => Value(raw, "database.tls_mode") = "verify_full"
    BY <2>1, <2>2 DEF ConfigIsSound, DatabaseIsSound
  <2>4. UsesTransport(input.service) => Value(raw, "transport.tls_mode") = "verify_full"
    BY <2>1, <2>2 DEF ConfigIsSound, TransportIsSound
  <2>5. ASSUME UsesTransport(input.service), NEW i \in DOMAIN raw["transport.servers"]
        PROVE  raw["transport.servers"][i][1] = "tls"
    <3>1. validate_transport_server(raw["transport.servers"][i], "verify_full")
      BY <2>1, <2>4, <2>5 DEF ConfigIsSound, TransportIsSound, ServersAreSound
    <3> QED
      BY <3>1 DEF validate_transport_server
  <2> QED
    BY <2>3, <2>4, <2>5
<1> QED
  BY <1>1, ConfigInputInvariant, PTL

-----------------------------------------------------------------------------
(* A process starts with every configuration that its loader accepts. *)

\* A range of whole numbers.
LEMMA InRange ==
  ASSUME NEW low \in Int, NEW high \in Int, NEW n, contains(low, high, n)
  PROVE  n \in Int /\ low <= n /\ n <= high
  BY DEF contains

\* The bounds that two crates write down separately are the same.
LEMMA SameBounds ==
  /\ MIN_TIMEOUT = MIN_TRANSPORT_TIMEOUT_MS /\ MAX_TIMEOUT = MAX_TRANSPORT_TIMEOUT_MS
  /\ MAX_TRANSPORT_TIMEOUT_MS = from_mins(5) /\ MAX_CONSUMER_ACK_WAIT_MS = from_secs(30)
  /\ MAX_EXPIRES_MS = from_secs(5)
  /\ MAX_TRANSPORT_TIMEOUT_MS \in Int /\ MAX_CONSUMER_ACK_WAIT_MS - 1 \in Int
  /\ MAX_CONSUMER_ACK_WAIT_MS \in Int /\ from_secs(5) \in Int
  /\ MAX_DATABASE_TIMEOUT_MS \in Int /\ MAX_MAX_LIFETIME_MS \in Int
  /\ MAX_TRANSPORT_TIMEOUT_MS = 300000
  BY SMT DEF MIN_TIMEOUT, MAX_TIMEOUT, MIN_TRANSPORT_TIMEOUT_MS, MAX_TRANSPORT_TIMEOUT_MS, from_mins, from_secs,
             MAX_CONSUMER_ACK_WAIT_MS, MAX_EXPIRES_MS, MAX_DATABASE_TIMEOUT_MS, MAX_MAX_LIFETIME_MS

\* PoolSettings::new takes every accepted database section.
LEMMA PoolStarts ==
  ASSUME NEW raw, DatabaseIsSound(raw)
  PROVE  PoolSettings_new(raw)
<1>1. Value(raw, "database.max_connections") # 0
  BY InRange DEF DatabaseIsSound
<1>2. \A f \in ToSet(DatabaseTimeouts) : Value(raw, f) # 0
  BY InRange, SameBounds DEF DatabaseIsSound
<1>3. Value(raw, "database.max_lifetime_ms") # 0
  BY InRange, SameBounds DEF DatabaseIsSound
<1> QED
  BY <1>1, <1>2, <1>3 DEF PoolSettings_new, DatabaseIsSound

\* The application name of every accepted process can be composed.
LEMMA NameStarts ==
  ASSUME NEW s \in Service, NEW raw, raw["environment"] \in {"dev", "npr", "prd"}, CellIdFits(raw["cell_id"])
  PROVE  ApplicationName_compose(s, raw)
<1> DEFINE cell == IF Given(raw, "cell_id") THEN 1 + CellIdLength(raw["cell_id"]) ELSE 0
<1>1. cell \in 0..64
  BY DEF Given, CellIdFits
<1> HIDE DEF cell
<1>2. Len("edtech-") = 7 /\ Len(s) \in 1..16 /\ Len(raw["environment"]) = 3
  BY NameLengths
<1> DEFINE prefix == Len("edtech-")
           service == Len(s)
           environment == Len(raw["environment"])
<1> HIDE DEF prefix, service, environment
<1>3. prefix = 7 /\ service \in 1..16 /\ environment = 3
  BY <1>2 DEF prefix, service, environment
<1>4. prefix + service + 1 + environment + cell <= 128
  BY <1>1, <1>3
<1> QED
  BY <1>4 DEF ApplicationName_compose, cell, prefix, service, environment

\* NatsConnectionConfig::new takes every accepted transport section.
LEMMA ConnectionStarts ==
  ASSUME NEW s \in Service, NEW raw, raw["environment"] \in {"dev", "npr", "prd"}, TransportIsSound(raw)
  PROVE  NatsConnectionConfig_new(s, raw)
<1> DEFINE servers == raw["transport.servers"]
           tls == Value(raw, "transport.tls_mode")
<1>1. contains(1, 64, Len(s)) /\ contains(1, 16, Len(raw["environment"]))
  BY NameLengths DEF contains
<1>2. /\ contains(1, 8, Len(servers)) /\ IsInjective(servers)
      /\ \A i \in DOMAIN servers : validate_transport_server(servers[i], tls)
      /\ tls \in {"disable", "verify_full"}
  BY DEF TransportIsSound, ServersAreSound
<1>3. \A i \in DOMAIN servers : validate_server_url(servers[i], tls)
  BY <1>2, Zenon DEF validate_transport_server, validate_server_url
<1>4. \A f \in ToSet(TransportTimeouts) : contains(MIN_TIMEOUT, MAX_TIMEOUT, Value(raw, f))
  BY SameBounds DEF TransportIsSound
<1>5. /\ Value(raw, "transport.startup_timeout_ms") >= Value(raw, "transport.connect_timeout_ms")
      /\ tls = "verify_full" <=> Given(raw, "transport.ca_certificate_file")
  BY DEF TransportIsSound
<1> QED
  BY <1>1, <1>2, <1>3, <1>4, <1>5, Zenon DEF NatsConnectionConfig_new

\* PublisherSettings::new takes every accepted transport section.
LEMMA PublisherStarts ==
  ASSUME NEW raw, TransportIsSound(raw)
  PROVE  PublisherSettings_new(raw)
<1>1. Value(raw, "transport.outbox_poll_interval_ms") # 0 /\ Value(raw, "transport.retry_base_ms") # 0
  BY InRange, SameBounds DEF TransportIsSound, SettingsAreSound
<1>2. Value(raw, "transport.retry_base_ms") \in Int
  BY InRange, SameBounds DEF TransportIsSound, SettingsAreSound
<1>3. /\ Value(raw, "transport.retry_max_ms") >= Value(raw, "transport.retry_base_ms")
      /\ Value(raw, "transport.retry_max_ms") <= from_mins(5)
  BY <1>2, InRange, SameBounds DEF TransportIsSound, SettingsAreSound
<1>4. LeaseDuration_new(Value(raw, "transport.outbox_lease_ms"))
  <2> DEFINE ms == Value(raw, "transport.outbox_lease_ms")
  <2>1. ms \in Int /\ 1000 <= ms /\ ms <= 300000 /\ ms % 1000 = 0
    BY InRange, SameBounds, SMT DEF TransportIsSound
  <2> HIDE DEF ms
  <2>2. ms \div 1000 \in Int /\ 1 <= ms \div 1000 /\ ms \div 1000 <= 300
    BY <2>1, SMT
  <2>3. contains(1, 300, ms \div 1000)
    BY <2>2 DEF contains
  <2> QED
    BY <2>1, <2>3 DEF LeaseDuration_new, ms
<1>5. /\ contains(1, 128, Value(raw, "transport.publish_concurrency"))
      /\ ClaimBatchSize_new(Value(raw, "transport.outbox_claim_batch_size"))
  BY DEF TransportIsSound, SettingsAreSound, ClaimBatchSize_new
<1> QED
  BY <1>1, <1>3, <1>4, <1>5 DEF PublisherSettings_new

\* ConsumerSettings::new, and the broker's limit on a fetch, take every accepted
\* transport section but the ones that RefusedLater names.
LEMMA ConsumerStarts ==
  ASSUME NEW raw, TransportIsSound(raw), ~RefusedLater(raw)
  PROVE  ConsumerSettings_new(raw) /\ fetch_is_granted(raw)
<1> DEFINE batch == Value(raw, "transport.consumer_fetch_batch_size")
           expires == Value(raw, "transport.consumer_fetch_expires_ms")
           handler == Value(raw, "transport.consumer_handler_timeout_ms")
           nak == Value(raw, "transport.consumer_nak_delay_ms")
<1>1. batch \in Int /\ expires \in Int /\ expires # 0 /\ handler \in Int /\ handler # 0 /\ nak # 0
  BY InRange, SameBounds DEF TransportIsSound, SettingsAreSound
<1>2. handler < from_secs(30) /\ nak <= from_mins(5)
  BY InRange, SameBounds DEF TransportIsSound, SettingsAreSound
<1>3. batch <= MAX_BATCH /\ expires <= MAX_EXPIRES_MS /\ expires <= from_secs(5)
  BY <1>1, SameBounds DEF RefusedLater, MAX_BATCH
<1>4. contains(1, 500, batch) /\ contains(1, 1024, Value(raw, "transport.consumer_max_in_flight"))
  BY DEF TransportIsSound, SettingsAreSound
<1> QED
  BY <1>1, <1>2, <1>3, <1>4 DEF ConsumerSettings_new, fetch_is_granted

\* Besides its service, a configuration has two sources with every field, and
\* cell identifiers that are identifiers.
SourcesInput ==
  /\ ConfigInput
  /\ input.about = "config" =>
       /\ DOMAIN input.env = Field /\ CellIdFits(input.env["cell_id"])
       /\ DOMAIN input.file = Field /\ CellIdFits(input.file["cell_id"])

\* Edits keep the sources complete and the Cell names within their length.
LEMMA SourcesInputInvariant == BoundarySpec => []SourcesInput
<1>1. BoundaryInit /\ ConfigInput => SourcesInput
  <2> SUFFICES ASSUME BoundaryInit, ConfigInput, input.about = "config"
               PROVE  /\ DOMAIN input.env = Field /\ CellIdFits(input.env["cell_id"])
                      /\ DOMAIN input.file = Field /\ CellIdFits(input.file["cell_id"])
    BY DEF SourcesInput
  <2>1. PICK s \in Services :
          input = [about |-> "config", service |-> s, env |-> BaseSources[s], file |-> Nothing]
    BY DEF BoundaryInit
  <2>2. input.env = BaseSources[s] /\ input.file = Nothing
    BY <2>1
  <2>3. DOMAIN Nothing = Field /\ Nothing["cell_id"] = Absent
    BY DEF Nothing, Field, RawConfig
  <2> QED
    BY <2>2, <2>3, BoundariesAssumption DEF CellIdFits
<1>2. SourcesInput /\ [BoundaryNext]_boundary_vars /\ ConfigInput' => SourcesInput'
  <2> SUFFICES ASSUME SourcesInput, [BoundaryNext]_boundary_vars, ConfigInput', input'.about = "config"
               PROVE  SourcesInput'
    BY DEF SourcesInput
  <2>1. ASSUME NEW source \in {"env", "file"}, NEW f \in DOMAIN FieldValues, NEW v \in FieldValues[f],
               EditSource(source, f, v)
        PROVE  SourcesInput'
    <3>1. input.about = "config" /\ input' = [input EXCEPT ![source][f] = v]
      BY <2>1 DEF EditSource, MayEdit
    <3>2. DOMAIN input = {"about", "service", "env", "file"}
      BY <3>1 DEF SourcesInput, ConfigInput
    <3>3. f \in Field /\ (f = "cell_id" => CellIdFits(v)) /\ "cell_id" \in Field
      BY BoundariesAssumption DEF Field, RawConfig
    <3>4. /\ input'.env = IF source = "env" THEN [input.env EXCEPT ![f] = v] ELSE input.env
          /\ input'.file = IF source = "file" THEN [input.file EXCEPT ![f] = v] ELSE input.file
      BY <3>1, <3>2
    <3>5. ASSUME NEW old, DOMAIN old = Field, CellIdFits(old["cell_id"])
          PROVE  DOMAIN [old EXCEPT ![f] = v] = Field /\ CellIdFits([old EXCEPT ![f] = v]["cell_id"])
      BY <3>3, <3>5
    <3> QED
      BY <3>1, <3>4, <3>5 DEF SourcesInput
  <2>2. ASSUME input' = input PROVE SourcesInput'
    BY <2>2 DEF SourcesInput
  <2>3. "about" \in DOMAIN input
    BY DEF SourcesInput, ConfigInput
  <2> QED
    BY <2>1, <2>2, <2>3, StepsByKind
<1> QED
  BY <1>1, <1>2, ConfigInputInvariant, PTL DEF BoundarySpec

\* For every pair of sources: what the loader of a service accepts, the
\* constructors of its runtimes accept, except for the two settings that
\* RefusedLater names.
THEOREM AcceptedConfigsRun == BoundarySpec => []AcceptedConfigRuns
<1>1. SourcesInput => AcceptedConfigRuns
  <2> DEFINE raw == merge(input.env, input.file)
             s == input.service
  <2> SUFFICES ASSUME SourcesInput, ConfigIsAccepted, ~(RunsMessages(s) /\ RefusedLater(raw))
               PROVE  Starts(s, raw) /\ (RunsMessages(s) => fetch_is_granted(raw))
    BY DEF AcceptedConfigRuns, Raw
  <2>1. s \in Service /\ ConfigIsSound(s, raw)
    BY AcceptedIsSound DEF SourcesInput, ConfigInput, ConfigIsAccepted
  <2>2. CellIdFits(raw["cell_id"])
    <3>1. raw["cell_id"] = input.env["cell_id"] \/ raw["cell_id"] = input.file["cell_id"]
      BY DEF merge, Field, RawConfig
    <3> QED
      BY <3>1 DEF SourcesInput, ConfigIsAccepted
  <2> HIDE DEF raw, s
  <2>3. UsesDatabase(s) => PoolSettings_new(raw) /\ ApplicationName_compose(s, raw)
    BY <2>1, <2>2, PoolStarts, NameStarts DEF ConfigIsSound
  <2>4. UsesTransport(s) => NatsConnectionConfig_new(s, raw)
    BY <2>1, ConnectionStarts DEF ConfigIsSound
  <2>5. RunsMessages(s) => UsesTransport(s)
    BY DEF RunsMessages, UsesTransport
  <2>6. RunsMessages(s) => PublisherSettings_new(raw) /\ ConsumerSettings_new(raw) /\ fetch_is_granted(raw)
    BY <2>1, <2>5, PublisherStarts, ConsumerStarts DEF ConfigIsSound
  <2> QED
    BY <2>3, <2>4, <2>6 DEF Starts
<1> QED
  BY <1>1, SourcesInputInvariant, PTL

-----------------------------------------------------------------------------
(* Dependency paths: the packages that can reach a package form a closed set. *)

\* A set of packages that only its own members depend on is reached from
\* inside only.
LEMMA NothingReached ==
  ASSUME NEW graph, NEW bad, NEW p, p \notin bad,
         \A d \in graph : d.kind = "normal" /\ d.to \in bad => d.from \in bad
  PROVE  BuiltWith(graph, p) \cap bad = {}
<1>1. ASSUME NEW P, P \cap bad = {} PROVE Direct(graph, P) \cap bad = {}
  BY <1>1 DEF Direct
<1>2. ASSUME NEW P, P \cap bad = {} PROVE Twice(graph, P) \cap bad = {}
  BY <1>1, <1>2 DEF Further, Twice
<1>3. Direct(graph, {p}) \cap bad = {}
  BY <1>1
<1> QED
  BY <1>2, <1>3 DEF BuiltWith, Closure

\* A set whose members depend on its own members only is never left.
LEMMA NeverLeft ==
  ASSUME NEW graph, NEW good, NEW p \in good,
         \A d \in graph : d.kind = "normal" /\ d.from \in good => d.to \in good
  PROVE  BuiltWith(graph, p) \subseteq good
<1>1. ASSUME NEW P \in SUBSET good PROVE Direct(graph, P) \subseteq good
  BY <1>1 DEF Direct
<1>2. ASSUME NEW P \in SUBSET good PROVE Twice(graph, P) \subseteq good
  BY <1>1, <1>2 DEF Further, Twice
<1>3. Direct(graph, {p}) \subseteq good
  BY <1>1
<1> QED
  BY <1>2, <1>3 DEF BuiltWith, Closure

\* The dependencies between p and q that an accepted graph may have.
MayDepend(p, q) == IF q \in Package THEN q \in Normal(p) ELSE p \in Importers(q)

\* An accepted graph has no other normal edges.
LEMMA AcceptedEdge ==
  ASSUME NEW graph, validate_graph(graph), NEW d \in graph, d.kind = "normal"
  PROVE  MayDepend(d.from, d.to)
  BY DEF MayDepend, validate_graph, validate_workspace_edge, allowed_workspace_edges,
         validate_external_edge, allowed_external_dependencies

\* A closed set stays closed in every graph that the check accepts.
LEMMA AcceptedEdges ==
  ASSUME NEW graph, validate_graph(graph), NEW bad, \A p, q : MayDepend(p, q) /\ q \in bad => p \in bad,
         NEW p, p \notin bad
  PROVE  BuiltWith(graph, p) \cap bad = {}
  BY AcceptedEdge, NothingReached

\* Who depends on the packages of one authority.
CellSide == CellAuthority \cup cell_binary \cup qualification_tool \cup {"db-migrator"}
PlatformSide == PlatformAuthority \cup {"platform-api", "platform-worker", "db-migrator"} \cup qualification_tool

\* Who is built with a database, a broker or a secret.
Infrastructure ==
  postgres_provider \cup migration_adapter \cup qualification_tool \cup authority_message_runtime
  \cup secret_adapter \cup (deployable_binary \ {"tenant-router"})
  \cup {"nats-jetstream", "nats-jetstream-admin", "sqlx", "async-nats", "secrecy"}
Messaging == {"async-nats", "nats-jetstream", "nats-jetstream-admin", "nats-qualification", "platform-worker",
              "cell-worker", "nats-provisioner"} \cup authority_message_runtime
Migrating == migration_adapter \cup qualification_tool \cup {"db-migrator"}
Administering == {"nats-jetstream-admin", "nats-provisioner", "nats-qualification"}
Testing == qualification_tool \cup {"test-support"}
Crates == {"sqlx", "async-nats", "tokio", "serde", "secrecy"}

\* These sets are packages of the workspace, but for the external crates.
LEMMA IsPackage ==
  /\ CellSide \subseteq Package /\ PlatformSide \subseteq Package
  /\ (Infrastructure \ {"sqlx", "async-nats", "secrecy"}) \subseteq Package
  /\ (Messaging \ {"async-nats"}) \subseteq Package
  /\ Migrating \subseteq Package /\ Administering \subseteq Package /\ Testing \subseteq Package
  /\ Crates \cap Package = {}
  BY DEF CellSide, PlatformSide, Infrastructure, Messaging, Migrating, Administering, Testing, Crates,
     Package, CellAuthority, PlatformAuthority, domain, application, deployable_binary, platform_binary,
     cell_binary, composition_support, secret_adapter, postgres_provider, migration_adapter,
     qualification_tool, authority_message_runtime

\* Only the Cell side depends on the Cell side.
LEMMA CellSideIsClosed == \A p, q : MayDepend(p, q) /\ q \in CellSide => p \in CellSide
  BY IsPackage DEF MayDepend, Normal, CellSide, CellAuthority, cell_binary, postgres_provider,
     migration_adapter, qualification_tool

\* Only the Platform side depends on the Platform side.
LEMMA PlatformSideIsClosed == \A p, q : MayDepend(p, q) /\ q \in PlatformSide => p \in PlatformSide
  BY IsPackage DEF MayDepend, Normal, PlatformSide, PlatformAuthority, postgres_provider, migration_adapter,
     qualification_tool

\* Only the migrator and the qualification tools depend on migrations.
LEMMA MigratingIsClosed == \A p, q : MayDepend(p, q) /\ q \in Migrating => p \in Migrating
  BY IsPackage DEF MayDepend, Normal, Migrating, postgres_provider, migration_adapter, qualification_tool

\* Only the provisioner and its tools depend on the administration of the broker.
LEMMA AdministeringIsClosed == \A p, q : MayDepend(p, q) /\ q \in Administering => p \in Administering
  BY IsPackage DEF MayDepend, Normal, Administering, postgres_provider, migration_adapter, qualification_tool

\* Only tests and tools depend on tests and tools.
LEMMA TestingIsClosed == \A p, q : MayDepend(p, q) /\ q \in Testing => p \in Testing
  BY IsPackage DEF MayDepend, Normal, Testing, postgres_provider, migration_adapter, qualification_tool

\* Only the workers and the provisioner depend on the broker's client.
LEMMA MessagingIsClosed == \A p, q : MayDepend(p, q) /\ q \in Messaging => p \in Messaging
<1>1. ASSUME NEW p, NEW q \in Messaging \ {"async-nats"}, q \in Normal(p) PROVE p \in Messaging
  BY <1>1 DEF Normal, Messaging, postgres_provider, migration_adapter, qualification_tool,
     authority_message_runtime
<1>2. Importers("async-nats") \subseteq Messaging
  BY DEF Importers, Messaging
<1>3. "async-nats" \notin Package
  BY IsPackage DEF Crates
<1> QED
  BY <1>1, <1>2, <1>3, IsPackage DEF MayDepend

\* Nothing outside the infrastructure depends on it; the router is outside.
LEMMA InfrastructureIsClosed == \A p, q : MayDepend(p, q) /\ q \in Infrastructure => p \in Infrastructure
<1>1. ASSUME NEW p, NEW q \in Infrastructure \ {"sqlx", "async-nats", "secrecy"}, q \in Normal(p) PROVE p \in Infrastructure
  BY <1>1 DEF Normal, Infrastructure, postgres_provider, migration_adapter, qualification_tool,
     authority_message_runtime,
     secret_adapter, deployable_binary, platform_binary, cell_binary
<1>2. Importers("sqlx") \cup Importers("async-nats") \cup Importers("secrecy") \subseteq Infrastructure
  BY DEF Importers, Infrastructure, postgres_provider, migration_adapter, qualification_tool, secret_adapter
<1>3. {"sqlx", "async-nats", "secrecy"} \cap Package = {}
  BY IsPackage DEF Crates
<1> QED
  BY <1>1, <1>2, <1>3, IsPackage DEF MayDepend

\* Domain and application code.
Inner == domain \cup application
\* Domain and application code depends on domain and application code only.
LEMMA InnerIsClosed == \A p, q : MayDepend(p, q) /\ p \in Inner => q \in Inner
<1>1. ASSUME NEW p \in Inner, NEW q \in Normal(p) PROVE q \in Inner
  BY <1>1 DEF Inner, Normal, domain, application
<1>2. ASSUME NEW q, NEW p \in Importers(q) PROVE p \notin Inner
  BY <1>2 DEF Importers, Inner, domain, application, postgres_provider, migration_adapter,
     qualification_tool, secret_adapter,
     deployable_binary, platform_binary, cell_binary, authority_message_runtime
<1> QED
  BY <1>1, <1>2 DEF MayDepend

\* For every graph that the check accepts, added to in any way: the
\* authorities, layers and tools stay apart on whole paths.
LEMMA AcceptedGraphsAreIsolated ==
  ASSUME NEW graph, validate_graph(graph)
  PROVE  /\ \A p \in platform_binary : BuiltWith(graph, p) \cap CellAuthority = {}
         /\ \A p \in cell_binary : BuiltWith(graph, p) \cap PlatformAuthority = {}
         /\ BuiltWith(graph, "tenant-router") \cap (postgres_provider \cup {"sqlx", "async-nats", "secrecy"}) = {}
         /\ \A p \in domain \cup application :
              BuiltWith(graph, p) \cap {"sqlx", "async-nats", "tokio", "serde", "secrecy"} = {}
         /\ \A p \in deployable_binary \ {"db-migrator"} : BuiltWith(graph, p) \cap migration_adapter = {}
         /\ \A p \in deployable_binary \ {"nats-provisioner"} : "nats-jetstream-admin" \notin BuiltWith(graph, p)
         /\ \A p \in {"platform-api", "cell-api"} : "async-nats" \notin BuiltWith(graph, p)
         /\ \A p \in deployable_binary : BuiltWith(graph, p) \cap (qualification_tool \cup {"test-support"}) = {}
<1>1. ASSUME NEW p \in platform_binary PROVE BuiltWith(graph, p) \cap CellAuthority = {}
  <2>1. p \notin CellSide /\ CellAuthority \subseteq CellSide
    BY DEF platform_binary, CellSide, CellAuthority, cell_binary, qualification_tool
  <2> QED
    BY <2>1, CellSideIsClosed, AcceptedEdges
<1>2. ASSUME NEW p \in cell_binary PROVE BuiltWith(graph, p) \cap PlatformAuthority = {}
  <2>1. p \notin PlatformSide /\ PlatformAuthority \subseteq PlatformSide
    BY DEF cell_binary, PlatformSide, PlatformAuthority, qualification_tool
  <2> QED
    BY <2>1, PlatformSideIsClosed, AcceptedEdges
<1>3. BuiltWith(graph, "tenant-router") \cap (postgres_provider \cup {"sqlx", "async-nats", "secrecy"}) = {}
  <2>1. /\ "tenant-router" \notin Infrastructure
        /\ (postgres_provider \cup {"sqlx", "async-nats", "secrecy"}) \subseteq Infrastructure
    BY DEF Infrastructure, postgres_provider, migration_adapter, qualification_tool, authority_message_runtime,
           secret_adapter
  <2> QED
    BY <2>1, InfrastructureIsClosed, AcceptedEdges
<1>4. ASSUME NEW p \in domain \cup application
      PROVE  BuiltWith(graph, p) \cap {"sqlx", "async-nats", "tokio", "serde", "secrecy"} = {}
  <2>1. p \in Inner
    BY DEF Inner
  <2>2. \A d \in graph : d.kind = "normal" /\ d.from \in Inner => d.to \in Inner
    BY AcceptedEdge, InnerIsClosed
  <2>3. BuiltWith(graph, p) \subseteq Inner
    BY <2>1, <2>2, NeverLeft
  <2>4. Inner \cap {"sqlx", "async-nats", "tokio", "serde", "secrecy"} = {}
    BY DEF Inner, domain, application
  <2> QED
    BY <2>3, <2>4
<1>5. ASSUME NEW p \in deployable_binary \ {"db-migrator"} PROVE BuiltWith(graph, p) \cap migration_adapter = {}
  <2>1. p \notin Migrating /\ migration_adapter \subseteq Migrating
    BY DEF Migrating, migration_adapter, qualification_tool, deployable_binary, platform_binary, cell_binary
  <2> QED
    BY <2>1, MigratingIsClosed, AcceptedEdges
<1>6. ASSUME NEW p \in deployable_binary \ {"nats-provisioner"} PROVE "nats-jetstream-admin" \notin BuiltWith(graph, p)
  <2>1. p \notin Administering /\ "nats-jetstream-admin" \in Administering
    BY DEF Administering, deployable_binary, platform_binary, cell_binary
  <2> QED
    BY <2>1, AdministeringIsClosed, AcceptedEdges
<1>7. ASSUME NEW p \in {"platform-api", "cell-api"} PROVE "async-nats" \notin BuiltWith(graph, p)
  <2>1. p \notin Messaging /\ "async-nats" \in Messaging
    BY DEF Messaging, authority_message_runtime
  <2> QED
    BY <2>1, MessagingIsClosed, AcceptedEdges
<1>8. ASSUME NEW p \in deployable_binary PROVE BuiltWith(graph, p) \cap (qualification_tool \cup {"test-support"}) = {}
  <2>1. p \notin Testing /\ qualification_tool \cup {"test-support"} = Testing
    BY DEF Testing, qualification_tool, deployable_binary, platform_binary, cell_binary
  <2> QED
    BY <2>1, TestingIsClosed, AcceptedEdges
<1> QED
  BY <1>1, <1>2, <1>3, <1>4, <1>5, <1>6, <1>7, <1>8

\* No dependency path joins what validate_graph keeps apart edge by edge, in
\* whatever way the graph is added to.
THEOREM IsolationHoldsOnPaths == BoundarySpec => []IsolationIsTransitive
<1>1. IsolationIsTransitive
  BY AcceptedGraphsAreIsolated DEF IsolationIsTransitive
<1> QED
  BY <1>1, PTL

-----------------------------------------------------------------------------
(* The codec: what is read from an envelope and what is written to one. *)

\* What a message must satisfy to be constructed.
Consistent(m) ==
  /\ m.descriptor.kind = "command" <=> m.target # None
  /\ m.causation_id # m.message_id
  /\ m.source.kind = "cell" => m.scope.kind # "platform" /\ m.scope.cell_id = m.source.cell_id
  /\ m.target # None /\ m.target.kind = "cell" => m.scope.cell_id = m.target.cell_id

\* MessageMetadata::new returns the consistent metadata and refuses the rest.
LEMMA MetadataNew ==
  ASSUME NEW m
  PROVE  /\ Consistent(m) => MessageMetadata_new(m) = m
         /\ MessageMetadata_new(m) # Invalid => Consistent(m) /\ MessageMetadata_new(m) = m
  BY Zenon DEF Consistent, MessageMetadata_new

\* The metadata that an envelope's parts make up.
Parts(bytes) ==
  [message_id |-> uuid_from_str(bytes.message_id),
   descriptor |-> ContractDescriptor(decode_kind(bytes.message_kind), MessageName_new(bytes.message_name),
                                     MessageSchemaVersion_new(bytes.message_schema_version)),
   emitted_at |-> parse_emitted_at(bytes.emitted_at), source |-> decode_authority(bytes.source),
   scope |-> decode_scope(bytes.scope), target |-> decode_optional_target(bytes.target),
   correlation_id |-> uuid_from_str(bytes.correlation_id),
   causation_id |-> decode_optional_message_id(bytes.causation_id)]

PartsAreValid(bytes) ==
  /\ DecodeEnvelope(bytes)
  /\ bytes.envelope_version = ENVELOPE_VERSION
  /\ bytes.payload.root = "object"
  /\ uuid_from_str(bytes.message_id) # Invalid
  /\ decode_kind(bytes.message_kind) # Invalid
  /\ MessageName_new(bytes.message_name) # Invalid
  /\ MessageSchemaVersion_new(bytes.message_schema_version) # Invalid
  /\ parse_emitted_at(bytes.emitted_at) # Invalid
  /\ decode_authority(bytes.source) # Invalid
  /\ decode_scope(bytes.scope) # Invalid
  /\ decode_optional_target(bytes.target) # Invalid
  /\ uuid_from_str(bytes.correlation_id) # Invalid
  /\ decode_optional_message_id(bytes.causation_id) # Invalid

\* parse returns the metadata of the parts exactly when all parts are valid and
\* consistent.
LEMMA Parsed ==
  ASSUME NEW bytes
  PROVE  /\ PartsAreValid(bytes) => parse(bytes) = MessageMetadata_new(Parts(bytes))
         /\ parse(bytes) # Invalid =>
              PartsAreValid(bytes) /\ Consistent(Parts(bytes)) /\ parse(bytes) = Parts(bytes)
<1> DEFINE p1 == uuid_from_str(bytes.message_id)
           p2 == decode_kind(bytes.message_kind)
           p3 == MessageName_new(bytes.message_name)
           p4 == MessageSchemaVersion_new(bytes.message_schema_version)
           p5 == parse_emitted_at(bytes.emitted_at)
           p6 == decode_authority(bytes.source)
           p7 == decode_scope(bytes.scope)
           p8 == decode_optional_target(bytes.target)
           p9 == uuid_from_str(bytes.correlation_id)
           p10 == decode_optional_message_id(bytes.causation_id)
           made == MessageMetadata_new(Parts(bytes))
           valid == /\ DecodeEnvelope(bytes) /\ bytes.envelope_version = ENVELOPE_VERSION
                    /\ bytes.payload.root = "object"
                    /\ ~AnyInvalid(<<p1, p2, p3, p4, p5, p6, p7, p8, p9, p10>>)
<1>1. parse(bytes) = IF valid THEN made ELSE Invalid
  BY DEF parse, Parts
<1> HIDE DEF p1, p2, p3, p4, p5, p6, p7, p8, p9, p10
<1>2. AnyInvalid(<<p1, p2, p3, p4, p5, p6, p7, p8, p9, p10>>) <=>
        Invalid \in {p1, p2, p3, p4, p5, p6, p7, p8, p9, p10}
  BY DEF AnyInvalid
<1>3. valid <=> PartsAreValid(bytes)
  BY <1>2 DEF PartsAreValid, p1, p2, p3, p4, p5, p6, p7, p8, p9, p10
<1> HIDE DEF valid, made
<1>4. made # Invalid => Consistent(Parts(bytes)) /\ made = Parts(bytes)
  BY MetadataNew DEF made
<1> QED
  BY <1>1, <1>3, <1>4 DEF made

\* A decoded message is what its bytes say, with the bytes themselves.
SizeIsLegal(n) == MIN_ENCODED_MESSAGE_BYTES <= n /\ n <= MAX_ENCODED_MESSAGE_BYTES

\* What decode_envelope accepts has valid, consistent parts and a legal size.
LEMMA Decoded ==
  ASSUME NEW bytes, decode_envelope(bytes) # Invalid
  PROVE  /\ decode_envelope(bytes) = [metadata |-> Parts(bytes), bytes |-> bytes]
         /\ PartsAreValid(bytes) /\ Consistent(Parts(bytes)) /\ parse(bytes) = Parts(bytes)
         /\ SizeIsLegal(envelope_size(bytes))
<1>1. parse(bytes) # Invalid /\ decode_envelope(bytes) = EncodedMessage_new(parse(bytes), bytes)
  BY DEF decode_envelope
<1>2. SizeIsLegal(envelope_size(bytes)) /\ decode_envelope(bytes) = [metadata |-> parse(bytes), bytes |-> bytes]
  BY <1>1 DEF EncodedMessage_new, SizeIsLegal
<1> QED
  BY <1>1, <1>2, Parsed

\* The literals of the codec are strings.
LEMMA AreStrings ==
  /\ "hyphenated" \in STRING /\ "plain" \in STRING /\ "micros" \in STRING /\ "canonical" \in STRING
  /\ "object" \in STRING /\ "command" \in STRING /\ "event" \in STRING /\ "platform" \in STRING
  /\ "cell" \in STRING /\ "tenant" \in STRING /\ "edtech" \in STRING /\ "v1" \in STRING
  /\ "platform-to-cell" \in STRING /\ "cell-to-platform" \in STRING
  BY Literals

\* A scope is written as a scope.
LEMMA ScopeTextType == \A s \in Scopes : encode_scope(s) \in ScopeTexts
<1> SUFFICES ASSUME NEW s \in Scopes PROVE encode_scope(s) \in ScopeTexts
  OBVIOUS
<1>1. CASE s.kind # "tenant"
  BY <1>1, AreStrings DEF Scopes, encode_scope, ScopeTexts, Optional, CellIds
<1>2. CASE s.kind = "tenant"
  <2>1. s.cell_id \in STRING /\ s.tenant_id \in STRING /\ s.assignment_epoch \in Nat
    BY <1>2 DEF Scopes, CellIds, Uuids
  <2>2. uuid_text(s.tenant_id) \in UuidTexts /\ epoch_text(s.assignment_epoch) \in Nat \X STRING
    BY <2>1, AreStrings DEF uuid_text, epoch_text, UuidTexts
  <2> QED
    BY <1>2, <2>1, <2>2, AreStrings DEF encode_scope, Scope, ScopeTexts, Optional
<1> QED
  BY <1>1, <1>2

\* An authority is written as it is.
LEMMA AuthorityTextType == Authorities \subseteq AuthorityTexts
  BY AreStrings DEF Authorities, AuthorityTexts, Optional, CellIds

\* The envelope of typed metadata and a typed payload is typed.
LEMMA EnvelopeType ==
  ASSUME NEW m \in Metadatas, NEW p \in PayloadTexts
  PROVE  EncodeEnvelope(m, p) \in Envelopes
<1>1. /\ m.message_id \in STRING /\ m.descriptor \in Descriptors /\ m.emitted_at \in Int
      /\ m.source \in Authorities /\ m.scope \in Scopes /\ m.target \in Optional(Authorities)
      /\ m.correlation_id \in STRING /\ m.causation_id \in Optional(STRING)
  BY DEF Metadatas, Uuids, Optional
<1>2. /\ m.descriptor.kind \in STRING /\ m.descriptor.name \in Seq(STRING)
      /\ m.descriptor.schema_version \in Int
  BY <1>1, AreStrings DEF Descriptors
<1>4. uuid_text(m.message_id) \in UuidTexts /\ uuid_text(m.correlation_id) \in UuidTexts
  BY <1>1, AreStrings DEF uuid_text, UuidTexts
<1>5. (IF m.causation_id = None THEN None ELSE uuid_text(m.causation_id)) \in Optional(UuidTexts)
  BY <1>1, AreStrings DEF uuid_text, UuidTexts, Optional
<1>6. encode_scope(m.scope) \in ScopeTexts /\ m.source \in AuthorityTexts
  BY <1>1, ScopeTextType, AuthorityTextType
<1>7. m.target \in Optional(AuthorityTexts)
  BY <1>1, AuthorityTextType DEF Optional
<1>8. format_emitted_at(m.emitted_at) \in [spelling : STRING, instant : Int]
  BY <1>1, AreStrings DEF format_emitted_at
<1>9. ENVELOPE_VERSION \in Nat
  BY DEF ENVELOPE_VERSION
<1> QED
  BY <1>2, <1>4, <1>5, <1>6, <1>7, <1>8, <1>9, AreStrings DEF EncodeEnvelope, Envelopes

\* Encoding succeeds exactly for an object of a legal size.
LEMMA Encoded ==
  ASSUME NEW m \in Metadatas, NEW p \in PayloadTexts, envelope_size(EncodeEnvelope(m, p)) \in Nat
  PROVE  LET message == encode(m, p)
             made == [metadata |-> m, bytes |-> EncodeEnvelope(m, p)]
             size == envelope_size(EncodeEnvelope(m, p))
         IN  /\ made \in EncodedMessages
             /\ p.root = "object" /\ SizeIsLegal(size) => message = made
             /\ message # Invalid => message = made /\ p.root = "object" /\ SizeIsLegal(size)
<1> DEFINE bytes == EncodeEnvelope(m, p)
           made == [metadata |-> m, bytes |-> bytes]
           size == envelope_size(bytes)
<1>1. bytes \in Envelopes
  BY EnvelopeType
<1>2. made \in EncodedMessages
  BY <1>1 DEF EncodedMessages
<1>3. encode(m, p) = IF p.root # "object" \/ size > MAX_ENCODED_MESSAGE_BYTES THEN Invalid
                     ELSE IF SizeIsLegal(size) THEN made ELSE Invalid
  BY DEF encode, EncodedMessage_new, SizeIsLegal
<1>4. size \in Nat /\ MAX_ENCODED_MESSAGE_BYTES \in Nat
  BY SMT DEF MAX_ENCODED_MESSAGE_BYTES
<1> HIDE DEF size
<1>5. SizeIsLegal(size) => ~(size > MAX_ENCODED_MESSAGE_BYTES)
  BY <1>4 DEF SizeIsLegal
<1> HIDE DEF bytes
<1>6. /\ p.root = "object" /\ SizeIsLegal(size) => encode(m, p) = made
      /\ encode(m, p) # Invalid => encode(m, p) = made /\ p.root = "object" /\ SizeIsLegal(size)
  BY <1>3, <1>5
<1> QED
  BY <1>2, <1>6 DEF size, bytes

\* The tokens that tell a subject's route and name.
Tells(subject, direction, m, cell) ==
  /\ subject \in Seq(STRING)
  /\ subject[3] = m.descriptor.kind /\ subject[4] = direction /\ subject[5] = cell
  /\ Len(subject) = Len(m.descriptor.name) + 4
  /\ \A i \in 2..Len(m.descriptor.name) : subject[i + 4] = m.descriptor.name[i]

\* A subject tells the route and the name of its message.
LEMMA SubjectTokens ==
  ASSUME NEW direction \in STRING, NEW m, m.descriptor.kind \in STRING, m.descriptor.name \in Seq(STRING),
         Len(m.descriptor.name) >= 1, NEW cell \in STRING, Subject(direction, m, cell) # Invalid
  PROVE  Tells(Subject(direction, m, cell), direction, m, cell)
<1> DEFINE name == m.descriptor.name
           front == <<"edtech", "v1", m.descriptor.kind, direction, cell>>
           tail == Tail(name)
           tokens == front \o tail
<1>1. Subject(direction, m, cell) = tokens
  BY DEF Subject
<1>2. /\ front \in Seq(STRING) /\ Len(front) = 5
      /\ front[3] = m.descriptor.kind /\ front[4] = direction /\ front[5] = cell
  BY AreStrings
<1>3. name \in Seq(STRING) /\ Len(name) >= 1 /\ Len(name) \in Nat
  BY LenProperties
<1> HIDE DEF front, name
<1>4. name # <<>>
  BY <1>3
<1>5. /\ tail \in Seq(STRING) /\ Len(tail) = Len(name) - 1
      /\ \A i \in 1..Len(tail) : tail[i] = name[i + 1]
  BY <1>3, <1>4, HeadTailProperties
<1> HIDE DEF tail
<1>6. /\ tokens \in Seq(STRING) /\ Len(tokens) = Len(front) + Len(tail)
      /\ \A i \in 1..Len(front) + Len(tail) : tokens[i] = IF i <= Len(front) THEN front[i] ELSE tail[i - Len(front)]
  <2>1. front \in Seq(STRING) /\ tail \in Seq(STRING)
    BY <1>2, <1>5
  <2> QED
    BY <2>1, ConcatProperties
<1> HIDE DEF tokens
<1>7. tokens[3] = m.descriptor.kind /\ tokens[4] = direction /\ tokens[5] = cell /\ Len(tokens) = Len(name) + 4
  BY <1>2, <1>3, <1>5, <1>6
<1>8. \A i \in 2..Len(name) : tokens[i + 4] = name[i]
  <2> SUFFICES ASSUME NEW i \in 2..Len(name) PROVE tokens[i + 4] = name[i]
    OBVIOUS
  <2>1. i + 4 \in 1..Len(front) + Len(tail) /\ ~(i + 4 <= Len(front)) /\ (i + 4) - Len(front) = i - 1
        /\ i - 1 \in 1..Len(tail) /\ (i - 1) + 1 = i
    BY <1>2, <1>3, <1>5
  <2> QED
    BY <1>5, <1>6, <2>1
<1> QED
  BY <1>1, <1>6, <1>7, <1>8, Zenon DEF name, Tells

\* What is read of an identifier is the identifier, of version 7.
LEMMA UuidRead ==
  ASSUME NEW text \in UuidTexts, uuid_from_str(text) # Invalid
  PROVE  uuid_from_str(text) = text[1] /\ text[1] \in Uuids
  BY DEF UuidTexts, uuid_from_str, uuid_v7, Uuids

\* What is read of an epoch is the number, and in range.
LEMMA EpochRead ==
  ASSUME NEW text \in Nat \X STRING, epoch_from_str(text) # Invalid
  PROVE  epoch_from_str(text) = text[1] /\ text[1] \in 1..MaxEpoch
  BY MessageCodecAssumption DEF epoch_from_str, AssignmentEpoch_new

\* An authority is read as it is written.
LEMMA AuthorityRead ==
  ASSUME NEW a \in AuthorityTexts, decode_authority(a) # Invalid
  PROVE  decode_authority(a) = a /\ a \in Authorities
<1>1. CASE a.kind = "platform" /\ a.cell_id = None
  <2>1. decode_authority(a) = Authority("platform", None)
    BY <1>1 DEF decode_authority
  <2>2. a = [kind |-> "platform", cell_id |-> None]
    BY <1>1 DEF AuthorityTexts
  <2> QED
    BY <2>1, <2>2 DEF Authority, Authorities
<1>2. CASE ~(a.kind = "platform" /\ a.cell_id = None)
  <2>1. a.kind = "cell" /\ a.cell_id # None /\ CellId_new(a.cell_id) # Invalid
    BY <1>2 DEF decode_authority
  <2>2. decode_authority(a) = Authority("cell", a.cell_id)
    BY <2>1 DEF decode_authority
  <2>3. a.cell_id \in CellIds /\ a = [kind |-> "cell", cell_id |-> a.cell_id]
    BY <2>1 DEF AuthorityTexts, CellId_new
  <2> QED
    BY <2>2, <2>3 DEF Authority, Authorities
<1> QED
  BY <1>1, <1>2

\* What is read of a target is the target, or none.
LEMMA TargetRead ==
  ASSUME NEW a \in Optional(AuthorityTexts), decode_optional_target(a) # Invalid
  PROVE  decode_optional_target(a) = a /\ a \in Optional(Authorities)
  BY AuthorityRead DEF decode_optional_target, Optional

\* A scope is read as it is written, but for the spelling of the tenant and
\* the epoch.
LEMMA ScopeRead ==
  ASSUME NEW s \in ScopeTexts, decode_scope(s) # Invalid
  PROVE  /\ decode_scope(s) \in Scopes
         /\ decode_scope(s).kind = s.kind /\ decode_scope(s).cell_id = s.cell_id
         /\ s.kind # "tenant" => decode_scope(s) = s
         /\ s.kind = "tenant" =>
              /\ s.tenant_id # None /\ s.assignment_epoch # None
              /\ s.tenant_id \in UuidTexts /\ s.assignment_epoch \in Nat \X STRING
              /\ decode_scope(s) = Scope("tenant", s.cell_id, s.tenant_id[1], s.assignment_epoch[1])
<1> DEFINE cell == s.cell_id # None /\ CellId_new(s.cell_id) # Invalid
           plain == s.tenant_id = None /\ s.assignment_epoch = None
           tenant == /\ s.kind = "tenant" /\ cell /\ s.tenant_id # None /\ s.assignment_epoch # None
                     /\ ~AnyInvalid(<<uuid_from_str(s.tenant_id), epoch_from_str(s.assignment_epoch)>>)
<1>0. decode_scope(s) = CASE s.kind = "platform" /\ s.cell_id = None /\ plain -> s
        [] s.kind = "cell" /\ cell /\ plain -> s
        [] tenant -> Scope("tenant", s.cell_id, uuid_from_str(s.tenant_id), epoch_from_str(s.assignment_epoch))
        [] OTHER -> Invalid
  BY DEF decode_scope
<1>c. cell => s.cell_id \in CellIds
  BY DEF CellId_new
<1>t. /\ s.cell_id \in Optional(STRING) /\ s.tenant_id \in Optional(UuidTexts) /\ s.assignment_epoch \in Optional(Nat \X STRING)
      /\ s = [kind |-> s.kind, cell_id |-> s.cell_id, tenant_id |-> s.tenant_id, assignment_epoch |-> s.assignment_epoch]
  BY DEF ScopeTexts
<1>k. tenant => s.kind = "tenant"
  BY DEF tenant
<1> HIDE DEF cell, plain, tenant
<1>1. CASE s.kind = "platform" /\ s.cell_id = None /\ plain
  <2>1. decode_scope(s) = s
    BY <1>0, <1>1, <1>k
  <2>2. s = [kind |-> "platform", cell_id |-> None, tenant_id |-> None, assignment_epoch |-> None]
    BY <1>1, <1>t DEF plain
  <2>3. s \in Scopes
    BY <2>2 DEF Scopes
  <2> QED
    BY <1>1, <2>1, <2>3
<1>2. CASE s.kind = "cell" /\ cell /\ plain
  <2>1. decode_scope(s) = s
    BY <1>0, <1>2, <1>k
  <2>2. s = [kind |-> "cell", cell_id |-> s.cell_id, tenant_id |-> None, assignment_epoch |-> None]
    BY <1>2, <1>t DEF plain
  <2>3. s \in Scopes
    BY <1>2, <1>c, <2>2 DEF Scopes
  <2> QED
    BY <1>2, <2>1, <2>3
<1>3. CASE tenant
  <2>1. s.kind = "tenant" /\ s.cell_id \in CellIds /\ s.tenant_id # None /\ s.assignment_epoch # None
    BY <1>3, <1>c DEF tenant
  <2>2. uuid_from_str(s.tenant_id) # Invalid /\ epoch_from_str(s.assignment_epoch) # Invalid
    <3> DEFINE x == uuid_from_str(s.tenant_id)
               y == epoch_from_str(s.assignment_epoch)
    <3> HIDE DEF x, y
    <3>1. ~AnyInvalid(<<x, y>>)
      BY <1>3 DEF tenant, x, y
    <3>2. x # Invalid /\ y # Invalid
      BY <3>1 DEF AnyInvalid
    <3> QED
      BY <3>2 DEF x, y
  <2>3. s.tenant_id \in UuidTexts /\ s.assignment_epoch \in Nat \X STRING
    BY <2>1, <1>t DEF Optional
  <2>4. decode_scope(s) = Scope("tenant", s.cell_id, uuid_from_str(s.tenant_id), epoch_from_str(s.assignment_epoch))
    BY <1>0, <1>3, <2>1
  <2>5. /\ uuid_from_str(s.tenant_id) = s.tenant_id[1] /\ s.tenant_id[1] \in Uuids
        /\ epoch_from_str(s.assignment_epoch) = s.assignment_epoch[1] /\ s.assignment_epoch[1] \in 1..MaxEpoch
    BY <2>2, <2>3, UuidRead, EpochRead
  <2>6. decode_scope(s) = Scope("tenant", s.cell_id, s.tenant_id[1], s.assignment_epoch[1])
    BY <2>4, <2>5
  <2>7. Scope("tenant", s.cell_id, s.tenant_id[1], s.assignment_epoch[1]) \in Scopes
    BY <2>1, <2>5 DEF Scope, Scopes
  <2> QED
    BY <2>1, <2>3, <2>6, <2>7 DEF Scope
<1> QED
  BY <1>0, <1>1, <1>2, <1>3

\* What is decoded has the types of the message domain.
LEMMA PartsType ==
  ASSUME NEW bytes \in Envelopes, PartsAreValid(bytes)
  PROVE  /\ Parts(bytes) \in Metadatas
         /\ Parts(bytes).message_id = bytes.message_id[1] /\ Parts(bytes).message_id \in Uuids
         /\ Parts(bytes).descriptor = [kind |-> bytes.message_kind, name |-> bytes.message_name,
                                       schema_version |-> bytes.message_schema_version]
         /\ Parts(bytes).emitted_at \in Int
         /\ format_emitted_at(Parts(bytes).emitted_at) = bytes.emitted_at
         /\ Parts(bytes).source = bytes.source /\ Parts(bytes).scope = decode_scope(bytes.scope)
         /\ Parts(bytes).target = bytes.target
         /\ Parts(bytes).correlation_id = bytes.correlation_id[1]
         /\ Parts(bytes).causation_id = IF bytes.causation_id = None THEN None ELSE bytes.causation_id[1]
<1>1. /\ bytes.message_id \in UuidTexts /\ bytes.message_kind \in STRING /\ bytes.message_name \in Seq(STRING)
      /\ bytes.message_schema_version \in Int /\ bytes.emitted_at \in [spelling : STRING, instant : Int]
      /\ bytes.source \in AuthorityTexts /\ bytes.scope \in ScopeTexts /\ bytes.target \in Optional(AuthorityTexts)
      /\ bytes.correlation_id \in UuidTexts /\ bytes.causation_id \in Optional(UuidTexts)
  BY DEF Envelopes
<1> DEFINE p1 == uuid_from_str(bytes.message_id)
           p2 == decode_kind(bytes.message_kind)
           p3 == MessageName_new(bytes.message_name)
           p4 == MessageSchemaVersion_new(bytes.message_schema_version)
           p5 == parse_emitted_at(bytes.emitted_at)
           p6 == decode_authority(bytes.source)
           p7 == decode_scope(bytes.scope)
           p8 == decode_optional_target(bytes.target)
           p9 == uuid_from_str(bytes.correlation_id)
           p10 == decode_optional_message_id(bytes.causation_id)
<1>2. p1 = bytes.message_id[1] /\ p1 \in Uuids /\ p9 = bytes.correlation_id[1] /\ p9 \in Uuids
  BY <1>1, UuidRead DEF PartsAreValid
<1>3. p2 = bytes.message_kind /\ p2 \in {"command", "event"} /\ p3 = bytes.message_name /\ p4 = bytes.message_schema_version
  BY <1>1 DEF PartsAreValid, decode_kind, MessageName_new, MessageSchemaVersion_new
<1>4. p5 \in Int /\ format_emitted_at(p5) = bytes.emitted_at
  <2> DEFINE t == rfc3339(bytes.emitted_at)
             e == EmittedAt_new(t)
  <2>1. p5 = e /\ e # Invalid /\ format_emitted_at(e) = bytes.emitted_at
    BY DEF PartsAreValid, parse_emitted_at
  <2>2. t \in 0..LastNano /\ e = (t \div 1000) * 1000
    BY <2>1 DEF EmittedAt_new
  <2>3. e \in Int
    BY <2>2
  <2> QED
    BY <2>1, <2>3
<1>5. p6 = bytes.source /\ p6 \in Authorities /\ p8 = bytes.target /\ p8 \in Optional(Authorities) /\ p7 \in Scopes
  BY <1>1, AuthorityRead, TargetRead, ScopeRead DEF PartsAreValid
<1>6. p10 = (IF bytes.causation_id = None THEN None ELSE bytes.causation_id[1]) /\ p10 \in Optional(Uuids)
  BY <1>1, UuidRead DEF PartsAreValid, decode_optional_message_id, Optional
<1> HIDE DEF p1, p2, p3, p4, p5, p6, p7, p8, p9, p10
<1> DEFINE d == [kind |-> p2, name |-> p3, schema_version |-> p4]
<1>7. d \in Descriptors /\ d = [kind |-> bytes.message_kind, name |-> bytes.message_name,
                                       schema_version |-> bytes.message_schema_version]
  BY <1>1, <1>3 DEF Descriptors
<1>8. Parts(bytes) = [message_id |-> p1, descriptor |-> d, emitted_at |-> p5, source |-> p6, scope |-> p7,
                      target |-> p8, correlation_id |-> p9, causation_id |-> p10]
  BY DEF Parts, ContractDescriptor, p1, p2, p3, p4, p5, p6, p7, p8, p9, p10
<1> HIDE DEF d
<1>9. p1 \in STRING
  BY <1>2 DEF Uuids
<1>10. Parts(bytes) \in Metadatas
  BY <1>2, <1>4, <1>5, <1>6, <1>7, <1>8, <1>9 DEF Metadatas
<1> QED
  BY <1>2, <1>4, <1>5, <1>6, <1>7, <1>8, <1>10 DEF p7

\* A message with a subject goes from Platform to the Cell of its scope or
\* from that Cell to Platform.
LEMMA Routes ==
  ASSUME NEW m \in Metadatas, TransportSubject_derive(m) # Invalid
  PROVE  /\ m.scope.kind # "platform" /\ m.scope.cell_id \in CellIds
         /\ \/ /\ m.source.kind = "platform"
               /\ TransportSubject_derive(m) = Subject("platform-to-cell", m, m.scope.cell_id)
            \/ /\ m.source.kind = "cell"
               /\ TransportSubject_derive(m) = Subject("cell-to-platform", m, m.scope.cell_id)
<1>1. m.scope \in Scopes
  BY DEF Metadatas
<1>2. m.scope.kind # "platform"
  BY DEF TransportSubject_derive
<1>3. m.scope.cell_id \in CellIds
  BY <1>1, <1>2 DEF Scopes
<1>4. \/ /\ m.source.kind = "platform"
         /\ TransportSubject_derive(m) = Subject("platform-to-cell", m, m.scope.cell_id)
      \/ /\ m.source.kind = "cell" /\ m.source.cell_id = m.scope.cell_id
         /\ TransportSubject_derive(m) = Subject("cell-to-platform", m, m.source.cell_id)
  BY DEF TransportSubject_derive
<1> QED
  BY <1>2, <1>3, <1>4

\* The parts of typed metadata that a subject is put together from.
LEMMA NamedParts ==
  ASSUME NEW m \in Metadatas
  PROVE  m.descriptor.kind \in {"command", "event"} /\ m.descriptor.name \in Seq(STRING)
         /\ m.source.kind \in {"platform", "cell"}
<1>1. m.descriptor \in Descriptors /\ m.source \in Authorities
  BY DEF Metadatas
<1> QED
  BY <1>1 DEF Descriptors, Authorities

\* A name that the constructor takes starts with "edtech".
LEMMA NamePrefix ==
  ASSUME NEW name, MessageName_new(name) # Invalid
  PROVE  Len(name) >= 4 /\ name[1] = "edtech" /\ MessageName_new(name) = name
  BY DEF MessageName_new

\* The subject of a message tells where it comes from.
LEMMA RouteIsTold ==
  ASSUME NEW m \in Metadatas, MessageName_new(m.descriptor.name) # Invalid, TransportSubject_derive(m) # Invalid
  PROVE  LET told(direction) == Tells(TransportSubject_derive(m), direction, m, m.scope.cell_id) IN
         \/ m.source.kind = "platform" /\ told("platform-to-cell")
         \/ m.source.kind = "cell" /\ told("cell-to-platform")
<1> DEFINE s == TransportSubject_derive(m)
<1>1. m.descriptor.kind \in STRING /\ m.descriptor.name \in Seq(STRING) /\ Len(m.descriptor.name) >= 1
  <2>1. m.descriptor.kind \in {"command", "event"} /\ m.descriptor.name \in Seq(STRING)
    BY NamedParts
  <2>2. Len(m.descriptor.name) >= 4 /\ Len(m.descriptor.name) \in Nat
    BY <2>1, NamePrefix, LenProperties
  <2> QED
    BY <2>1, <2>2, AreStrings
<1>2. m.scope.cell_id \in STRING
  BY Routes DEF CellIds
<1> HIDE DEF s
<1>3. ASSUME NEW direction \in STRING, s = Subject(direction, m, m.scope.cell_id)
      PROVE  Tells(s, direction, m, m.scope.cell_id)
  <2>1. Subject(direction, m, m.scope.cell_id) # Invalid
    BY <1>3 DEF s
  <2>2. Tells(Subject(direction, m, m.scope.cell_id), direction, m, m.scope.cell_id)
    BY <1>1, <1>2, <2>1, SubjectTokens
  <2> QED
    BY <1>3, <2>2
<1>4. "platform-to-cell" \in STRING /\ "cell-to-platform" \in STRING
  BY AreStrings
<1>5. \/ m.source.kind = "platform" /\ s = Subject("platform-to-cell", m, m.scope.cell_id)
      \/ m.source.kind = "cell" /\ s = Subject("cell-to-platform", m, m.scope.cell_id)
  BY Routes DEF s
<1> QED
  BY <1>3, <1>4, <1>5 DEF s

\* The subject of a delivery tells the route, the kind and the name of its
\* message: TransportSubject_derive is injective in them.
LEMMA SameSubjectSameRoute ==
  ASSUME NEW m \in Metadatas, NEW n \in Metadatas,
         MessageName_new(m.descriptor.name) # Invalid, MessageName_new(n.descriptor.name) # Invalid,
         TransportSubject_derive(m) # Invalid, TransportSubject_derive(m) = TransportSubject_derive(n)
  PROVE  /\ m.descriptor.kind = n.descriptor.kind /\ m.descriptor.name = n.descriptor.name
         /\ m.scope.cell_id = n.scope.cell_id /\ m.source.kind = n.source.kind
<1> DEFINE s == TransportSubject_derive(m)
<1>2. \/ m.source.kind = "platform" /\ Tells(s, "platform-to-cell", m, m.scope.cell_id)
      \/ m.source.kind = "cell" /\ Tells(s, "cell-to-platform", m, m.scope.cell_id)
  BY RouteIsTold
<1>3. \/ n.source.kind = "platform" /\ Tells(s, "platform-to-cell", n, n.scope.cell_id)
      \/ n.source.kind = "cell" /\ Tells(s, "cell-to-platform", n, n.scope.cell_id)
  BY RouteIsTold
<1> HIDE DEF s
<1>4. /\ m.descriptor.kind = n.descriptor.kind /\ m.scope.cell_id = n.scope.cell_id
      /\ m.source.kind = n.source.kind
  BY <1>2, <1>3 DEF Tells
<1>5. /\ m.descriptor.name \in Seq(STRING) /\ n.descriptor.name \in Seq(STRING)
      /\ m.descriptor.name[1] = "edtech" /\ n.descriptor.name[1] = "edtech"
  BY NamedParts, NamePrefix
<1> DEFINE a == m.descriptor.name
           b == n.descriptor.name
<1>6. /\ Len(s) = Len(a) + 4 /\ \A i \in 2..Len(a) : s[i + 4] = a[i]
      /\ Len(s) = Len(b) + 4 /\ \A i \in 2..Len(b) : s[i + 4] = b[i]
  BY <1>2, <1>3 DEF Tells
<1> HIDE DEF a, b
<1>7. a \in Seq(STRING) /\ b \in Seq(STRING) /\ a[1] = b[1]
  BY <1>5 DEF a, b
<1>8. Len(a) = Len(b) /\ Len(a) \in Nat
  BY <1>6, <1>7, LenProperties
<1>9. ASSUME NEW i \in 1..Len(a) PROVE a[i] = b[i]
  BY <1>6, <1>7, <1>8
<1>10. a = b
  BY <1>7, <1>8, <1>9, SeqEqual
<1> QED
  BY <1>4, <1>10 DEF a, b

\* Truncation stays in the range of the timestamps, and happens once.
LEMMA Truncated ==
  ASSUME NEW t \in Int, EmittedAt_new(t) # Invalid
  PROVE  /\ EmittedAt_new(t) \in 0..LastNano /\ EmittedAt_new(EmittedAt_new(t)) = EmittedAt_new(t)
         /\ EmittedAt_new(t) % 1000 = 0
<1> DEFINE k == t \div 1000
           e == k * 1000
<1>1. t \in 0..LastNano /\ EmittedAt_new(t) = e
  BY DEF EmittedAt_new
<1>2. k \in Nat /\ e \in Nat /\ e <= t
  BY <1>1, MessageCodecAssumption, SMT
<1>3. e \in 0..LastNano
  BY <1>1, <1>2, MessageCodecAssumption, SMT
<1>4. e \div 1000 = k /\ e % 1000 = 0
  BY <1>2, SMT
<1>5. EmittedAt_new(e) = e
  BY <1>3, <1>4 DEF EmittedAt_new
<1> QED
  BY <1>1, <1>3, <1>4, <1>5

\* What the constructors of a message's parts and of its metadata ask for.
InOrder(m) ==
  /\ m \in Metadatas /\ m.message_id \in Uuids
  /\ MessageName_new(m.descriptor.name) # Invalid
  /\ MessageSchemaVersion_new(m.descriptor.schema_version) # Invalid
  /\ EmittedAt_new(m.emitted_at) = m.emitted_at /\ m.emitted_at \in 0..LastNano
  /\ Consistent(m)

\* Construction changes nothing but the precision of the timestamp.
LEMMA ConstructedParts ==
  ASSUME NEW m \in Metadatas, Constructed(m) # Invalid
  PROVE  /\ InOrder(Constructed(m))
         /\ Constructed(m) = [m EXCEPT !.emitted_at = EmittedAt_new(@)]
<1> DEFINE p1 == uuid_v7(m.message_id)
           p2 == MessageName_new(m.descriptor.name)
           p3 == MessageSchemaVersion_new(m.descriptor.schema_version)
           p4 == EmittedAt_new(m.emitted_at)
           c == [m EXCEPT !.emitted_at = EmittedAt_new(@)]
<1>1. Constructed(m) = IF AnyInvalid(<<p1, p2, p3, p4>>) THEN Invalid ELSE MessageMetadata_new(c)
  BY DEF Constructed
<1>t. m.emitted_at \in Int /\ m.message_id \in STRING
  BY DEF Metadatas
<1>2. c = [m EXCEPT !.emitted_at = p4]
  BY <1>t
<1> HIDE DEF p1, p2, p3, p4, c
<1>3. ~AnyInvalid(<<p1, p2, p3, p4>>) /\ MessageMetadata_new(c) # Invalid /\ Constructed(m) = MessageMetadata_new(c)
  BY <1>1
<1>4. p1 # Invalid /\ p2 # Invalid /\ p3 # Invalid /\ p4 # Invalid
  BY <1>3 DEF AnyInvalid
<1>5. Constructed(m) = c /\ Consistent(c)
  BY <1>3, MetadataNew
<1>6. p4 \in 0..LastNano /\ EmittedAt_new(p4) = p4
  BY <1>4, <1>t, Truncated DEF p4
<1>7. m.message_id \in Uuids
  BY <1>4, <1>t DEF p1, uuid_v7, Uuids
<1>8. /\ c \in Metadatas /\ c.message_id = m.message_id /\ c.descriptor = m.descriptor
      /\ c.emitted_at = p4
  BY <1>2, <1>6, MessageCodecAssumption DEF Metadatas
<1>9. InOrder(c)
  BY <1>4, <1>5, <1>6, <1>7, <1>8 DEF InOrder, p2, p3
<1> QED
  BY <1>5, <1>9 DEF c

\* The messages that deliveries start from are in order.
LEMMA SentInOrder == \A m \in Metadata : InOrder(m) /\ m.message_id # Fresh
<1> SUFFICES ASSUME NEW m \in Metadata PROVE InOrder(m) /\ m.message_id # Fresh
  OBVIOUS
<1>1. m \in Metadatas /\ Constructed(m) = m /\ m.message_id # Fresh
  BY MessagesAssumption
<1>2. m # Invalid
  BY <1>1, Distinct
<1> QED
  BY <1>1, <1>2, ConstructedParts

\* A message with a subject becomes a publication.
LEMMA Published ==
  ASSUME NEW m, InOrder(m), NEW bytes \in Envelopes, TransportSubject_derive(m) # Invalid
  PROVE  /\ publish_exact([metadata |-> m, bytes |-> bytes]) =
              [subject |-> TransportSubject_derive(m), stream |-> stream_name(m.descriptor.kind),
               headers |-> publish_headers(m), payload |-> bytes]
         /\ publish_exact([metadata |-> m, bytes |-> bytes]) \in Publications
<1> DEFINE s == TransportSubject_derive(m)
           stream == stream_name(m.descriptor.kind)
           h1 == Header("Nats-Msg-Id", uuid_text(m.message_id), 36)
           h2 == Header("Nats-Expected-Stream", stream, Len(stream))
           h3 == Header("Content-Type", MESSAGE_CONTENT_TYPE, Len(MESSAGE_CONTENT_TYPE))
           p == [subject |-> s, stream |-> stream, headers |-> publish_headers(m), payload |-> bytes]
<1>1. publish_exact([metadata |-> m, bytes |-> bytes]) = p
  BY DEF publish_exact
<1>2. m \in Metadatas /\ m.message_id \in STRING /\ m.descriptor.kind \in {"command", "event"}
  BY NamedParts DEF InOrder, Metadatas
<1>3. s \in Seq(STRING)
  BY <1>2, RouteIsTold DEF InOrder, Tells
<1>4. stream \in STRING /\ Len(stream) \in 1..50
  BY <1>2, Literals
<1>5. h1 \in Headers /\ h2 \in Headers /\ h3 \in Headers
  <2>1. uuid_text(m.message_id) \in UuidTexts
    BY <1>2, AreStrings DEF uuid_text, UuidTexts
  <2>2. /\ "Nats-Msg-Id" \in STRING /\ "Nats-Expected-Stream" \in STRING /\ "Content-Type" \in STRING
        /\ MESSAGE_CONTENT_TYPE \in STRING /\ Len(MESSAGE_CONTENT_TYPE) \in 1..50
    BY Literals
  <2> HIDE DEF stream
  <2> QED
    BY <1>4, <2>1, <2>2 DEF Header, Headers
<1>6. publish_headers(m) = <<h1, h2, h3>>
  BY DEF publish_headers
<1> HIDE DEF h1, h2, h3, s, stream
<1>7. publish_headers(m) \in Seq(Headers)
  BY <1>5, <1>6
<1> QED
  BY <1>1, <1>3, <1>4, <1>7 DEF Publications, s, stream

-----------------------------------------------------------------------------
(* The length of an envelope. *)

\* The length of an identifier in any of its spellings.
LEMMA UuidSize ==
  \A text : uuid_size(text) \in Nat /\ 32 <= uuid_size(text) /\ uuid_size(text) <= 45
  BY DEF uuid_size

\* The codec writes identifiers with their hyphens.
LEMMA UuidTextSize == \A u : uuid_size(uuid_text(u)) = 36
  BY DEF uuid_size, uuid_text

\* A group of nine digits has at most eight after its first.
LEMMA ExtraDigits == \A n : extra_digits(n) \in 0..8
<1> SUFFICES ASSUME NEW n PROVE extra_digits(n) \in 0..8
  OBVIOUS
<1>1. IsFiniteSet(1..8) /\ Cardinality(1..8) = 8
  <2>1. 1 \in Int /\ 8 \in Int /\ ~(1 > 8) /\ 8 - 1 + 1 = 8
    OBVIOUS
  <2> QED
    BY <2>1, FS_Interval
<1> DEFINE S == {k \in 1..8 : 10^k <= n}
<1>2. S \in SUBSET (1..8)
  OBVIOUS
<1> HIDE DEF S
<1>3. IsFiniteSet(S) /\ Cardinality(S) <= 8
  BY <1>1, <1>2, FS_Subset
<1>4. Cardinality(S) \in Nat
  BY <1>3, FS_CardinalityType
<1>5. Cardinality(S) \in 0..8
  BY <1>3, <1>4
<1> QED
  BY <1>5 DEF extra_digits, S

\* A number is counted with at most twenty-seven digits.
LEMMA Digits == \A n : digits(n) \in Nat /\ digits(n) <= 27
<1> SUFFICES ASSUME NEW n PROVE digits(n) \in Nat /\ digits(n) <= 27
  OBVIOUS
<1> DEFINE a == extra_digits(n)
           b == extra_digits(n \div 10^9)
           c == extra_digits((n \div 10^9) \div 10^9)
<1>1. a \in 0..8 /\ b \in 0..8 /\ c \in 0..8
  BY ExtraDigits
<1>2. digits(n) = 1 + a \/ digits(n) = 10 + b \/ digits(n) = 19 + c
  BY Zenon DEF digits
<1> HIDE DEF a, b, c
<1> QED
  BY <1>1, <1>2

\* What sign and zeros add to an epoch, the codec does not write.
LEMMA EpochSize ==
  ASSUME NEW text
  PROVE  /\ epoch_size(text) \in Nat /\ epoch_size(text) <= 29
         /\ epoch_size(epoch_text(text[1])) <= epoch_size(text)
<1> DEFINE d == digits(text[1])
           x == CASE text[2] = "plus" -> 1 [] text[2] = "zeros" -> 2 [] OTHER -> 0
<1>1. d \in Nat /\ d <= 27
  BY Digits
<1>2. epoch_size(text) = d + x
  BY DEF epoch_size
<1>3. x \in 0..2
  OBVIOUS
<1>4. epoch_size(epoch_text(text[1])) = d + 0
  BY DEF epoch_size, epoch_text
<1> HIDE DEF d, x
<1> QED
  BY <1>1, <1>2, <1>3, <1>4

\* The literals that name kinds are short.
LEMMA KindSize ==
  ASSUME NEW kind \in {"command", "event", "platform", "cell", "tenant"}
  PROVE  Len(kind) \in Nat /\ Len(kind) <= 8
<1> DEFINE n == Len(kind)
<1>1. n \in 4..8
  BY Literals
<1> HIDE DEF n
<1>2. n \in Nat /\ n <= 8
  BY <1>1
<1> QED
  BY <1>2 DEF n

\* What the codec takes for an authority, or for that part of a scope.
IsPlace(a) == a.kind \in {"platform", "cell", "tenant"} /\ a.cell_id \in Optional(CellIds)

\* A place takes at most 95 bytes.
LEMMA AuthoritySize ==
  ASSUME NEW a, IsPlace(a)
  PROVE  authority_size(a) \in Nat /\ authority_size(a) <= 95
<1> DEFINE k == Len(a.kind)
           l == Len(a.cell_id)
           c == IF a.cell_id = None THEN 0 ELSE 13 + l
<1>1. k \in Nat /\ k <= 8
  BY KindSize DEF IsPlace
<1>2. a.cell_id # None => l \in 3..63
  BY DEF IsPlace, Optional, CellIds
<1>3. authority_size(a) = 11 + k + c
  BY DEF authority_size
<1>4. c \in Nat /\ c <= 76
  <2>1. CASE a.cell_id = None
    BY <2>1
  <2>2. CASE a.cell_id # None
    <3>1. c = 13 + l /\ l \in 3..63
      BY <1>2, <2>2
    <3> HIDE DEF c, l
    <3> QED
      BY <3>1
  <2> QED
    BY <2>1, <2>2
<1> HIDE DEF k, c
<1> QED
  BY <1>1, <1>3, <1>4

\* What the length of an envelope is put together from: the parts that have
\* one spelling, and the others.
FixedSize(b) ==
  FRAME_BYTES + Len(b.message_kind) + NameLength(b.message_name) + digits(b.message_schema_version)
    + authority_size(b.source) + authority_size(b.scope)
    + (IF b.target = None THEN 4 ELSE authority_size(b.target))
CauseSize(text) == IF text = None THEN 4 ELSE 2 + uuid_size(text)
TenantSize(text) == IF text = None THEN 0 ELSE 15 + uuid_size(text)
EpochPart(text) == IF text = None THEN 0 ELSE 22 + epoch_size(text)

\* An envelope whose parts are short enough for the codec to take them.
IsSized(b) ==
  /\ b.message_kind \in {"command", "event"} /\ NameLength(b.message_name) \in 10..160
  /\ IsPlace(b.source) /\ IsPlace(b.scope) /\ (b.target # None => IsPlace(b.target))
  /\ b.payload.size \in Nat /\ b.space \in Nat

\* The parts with one spelling take at most 800 bytes.
LEMMA FixedSizeType ==
  ASSUME NEW b, IsSized(b)
  PROVE  FixedSize(b) \in Nat /\ FixedSize(b) <= 800
<1> DEFINE k == Len(b.message_kind)
           n == NameLength(b.message_name)
           d == digits(b.message_schema_version)
           x == authority_size(b.source)
           y == authority_size(b.scope)
           z == IF b.target = None THEN 4 ELSE authority_size(b.target)
<1>1. k \in Nat /\ k <= 8
  BY KindSize DEF IsSized
<1>2. n \in 10..160
  BY DEF IsSized
<1>3. d \in Nat /\ d <= 27
  BY Digits
<1>4. x \in Nat /\ x <= 95 /\ y \in Nat /\ y <= 95
  BY AuthoritySize DEF IsSized
<1>5. z \in Nat /\ z <= 95
  BY AuthoritySize DEF IsSized
<1>6. FixedSize(b) = 219 + k + n + d + x + y + z
  BY DEF FixedSize, FRAME_BYTES
<1> HIDE DEF k, n, d, x, y, z
<1> QED
  BY <1>1, <1>2, <1>3, <1>4, <1>5, <1>6

\* The parts with several spellings are bounded in each of them.
LEMMA SpelledSizes ==
  ASSUME NEW text
  PROVE  /\ CauseSize(text) \in Nat /\ CauseSize(text) <= 47
         /\ TenantSize(text) \in Nat /\ TenantSize(text) <= 60
         /\ EpochPart(text) \in Nat /\ EpochPart(text) <= 51
  BY UuidSize, EpochSize DEF CauseSize, TenantSize, EpochPart

\* The length of an envelope, in these terms.
LEMMA SizeOf ==
  ASSUME NEW b, IsSized(b)
  PROVE  /\ envelope_size(b) =
              FixedSize(b) + uuid_size(b.message_id) + uuid_size(b.correlation_id) + CauseSize(b.causation_id)
                + TenantSize(b.scope.tenant_id) + EpochPart(b.scope.assignment_epoch) + b.payload.size + b.space
         /\ envelope_size(b) \in Nat /\ 2 <= envelope_size(b)
         /\ envelope_size(b) <= 1100 + b.payload.size + b.space
<1> DEFINE k == Len(b.message_kind)
           n == NameLength(b.message_name)
           d == digits(b.message_schema_version)
           x == authority_size(b.source)
           y == authority_size(b.scope)
           z == IF b.target = None THEN 4 ELSE authority_size(b.target)
           i == uuid_size(b.message_id)
           j == uuid_size(b.correlation_id)
           c == CauseSize(b.causation_id)
           t == TenantSize(b.scope.tenant_id)
           e == EpochPart(b.scope.assignment_epoch)
           p == b.payload.size
           s == b.space
           f == FixedSize(b)
<1>1. /\ k \in Nat /\ n \in Nat /\ d \in Nat /\ x \in Nat /\ y \in Nat /\ z \in Nat /\ p \in Nat /\ s \in Nat
  <2>1. k \in Nat
    BY KindSize DEF IsSized
  <2>2. n \in Nat /\ p \in Nat /\ s \in Nat
    BY DEF IsSized
  <2> QED
    BY <2>1, <2>2, Digits, AuthoritySize DEF IsSized
<1>2. i \in Nat /\ 32 <= i /\ i <= 45 /\ j \in Nat /\ j <= 45
  BY UuidSize
<1>3. c \in Nat /\ c <= 47 /\ t \in Nat /\ t <= 60 /\ e \in Nat /\ e <= 51
  BY SpelledSizes
<1>4. f \in Nat /\ f <= 800
  BY FixedSizeType
<1>5. f = 219 + k + n + d + x + y + z
  BY DEF FixedSize, FRAME_BYTES
<1>6. envelope_size(b) = 219 + i + k + n + d + x + (y + t + e) + z + j + c + p + s
  BY DEF envelope_size, scope_size, CauseSize, TenantSize, EpochPart, FRAME_BYTES
<1> HIDE DEF k, n, d, x, y, z, i, j, c, t, e, p, s, f
<1>7. envelope_size(b) = f + i + j + c + t + e + p + s
  BY <1>1, <1>2, <1>3, <1>5, <1>6
<1>8. /\ envelope_size(b) \in Nat /\ 2 <= envelope_size(b) /\ envelope_size(b) <= 1100 + p + s
  BY <1>1, <1>2, <1>3, <1>4, <1>7
<1> QED
  BY <1>7, <1>8 DEF f, i, j, c, t, e, p, s

\* Authorities and scopes of the message domain are places.
LEMMA Places ==
  /\ \A a \in Authorities : IsPlace(a)
  /\ \A s \in Scopes : IsPlace(s) /\ IsPlace(encode_scope(s))
<1>1. \A a \in Authorities : IsPlace(a)
  BY DEF Authorities, IsPlace, Optional
<1>2. \A s \in Scopes : IsPlace(s)
  BY DEF Scopes, IsPlace, Optional
<1>3. ASSUME NEW s \in Scopes PROVE encode_scope(s).kind = s.kind /\ encode_scope(s).cell_id = s.cell_id
  BY DEF encode_scope, Scope
<1>4. ASSUME NEW s \in Scopes PROVE IsPlace(encode_scope(s))
  BY <1>2, <1>3 DEF IsPlace
<1> QED
  BY <1>1, <1>2, <1>4

\* A message in order has an envelope of at most 1100 bytes around its payload.
LEMMA EncodedSize ==
  ASSUME NEW m \in Metadatas, MessageName_new(m.descriptor.name) # Invalid, NEW p \in PayloadTexts
  PROVE  LET bytes == EncodeEnvelope(m, p) IN
         /\ IsSized(bytes) /\ envelope_size(bytes) \in Nat /\ 2 <= envelope_size(bytes)
         /\ envelope_size(bytes) <= 1100 + p.size
<1> DEFINE b == EncodeEnvelope(m, p)
<1>1. /\ b.message_kind = m.descriptor.kind /\ b.message_name = m.descriptor.name /\ b.source = m.source
      /\ b.scope = encode_scope(m.scope) /\ b.target = m.target /\ b.payload = p /\ b.space = 0
  BY DEF EncodeEnvelope
<1> HIDE DEF b
<1>2. NameLength(m.descriptor.name) \in 10..160
  BY DEF MessageName_new
<1>3. m.descriptor.kind \in {"command", "event"}
  BY NamedParts
<1>4. m.source \in Authorities /\ m.scope \in Scopes /\ m.target \in Optional(Authorities)
  BY DEF Metadatas
<1>5. p.size \in Nat
  BY DEF PayloadTexts
<1>6. IsSized(b)
  BY <1>1, <1>2, <1>3, <1>4, <1>5, Places DEF IsSized, Optional
<1>7. envelope_size(b) \in Nat /\ 2 <= envelope_size(b) /\ envelope_size(b) <= 1100 + b.payload.size + b.space
  BY <1>6, SizeOf
<1>8. envelope_size(b) <= 1100 + p.size
  BY <1>1, <1>5, <1>7
<1> QED
  BY <1>6, <1>7, <1>8 DEF b

-----------------------------------------------------------------------------
(* Deliveries and envelopes. *)

\* An edit of one key leaves an envelope of the right shape.
LEMMA EditedEnvelope ==
  ASSUME NEW b \in Envelopes, NEW key \in DOMAIN EnvelopeParts, NEW v \in EnvelopeParts[key]
  PROVE  [b EXCEPT ![key] = v] \in Envelopes
<1> DEFINE e == [b EXCEPT ![key] = v]
<1>1. key \in {"json", "space", "envelope_version", "message_id", "message_kind", "message_name", "message_schema_version",
               "emitted_at", "source", "scope", "target", "causation_id", "payload"}
  BY DEF EnvelopeParts
<1>2. CASE key \in {"json", "space", "envelope_version", "message_id"}
  BY <1>2 DEF EnvelopeParts, Envelopes
<1>3. CASE key \in {"message_kind", "message_name", "message_schema_version"}
  BY <1>3 DEF EnvelopeParts, Envelopes
<1>4. CASE key \in {"source", "scope"}
  BY <1>4 DEF EnvelopeParts, Envelopes
<1>6. CASE key = "emitted_at"
  <2>1. v \in [spelling : STRING, instant : Int]
    BY <1>6 DEF EnvelopeParts
  <2> QED
    BY <1>6, <2>1 DEF Envelopes
<1>5. CASE key \in {"target", "causation_id", "payload"}
  BY <1>5 DEF EnvelopeParts, Envelopes
<1> QED
  BY <1>1, <1>2, <1>3, <1>4, <1>5, <1>6

\* A publication that still has the subject and the first header that its
\* message was sent with, and whose envelope is not the one of an answer.
Addressed(d, m) ==
  /\ Len(d.headers) >= 1 /\ d.headers[1] = Header("Nats-Msg-Id", uuid_text(m.message_id), 36)
  /\ d.subject = TransportSubject_derive(m) /\ TransportSubject_derive(m) # Invalid
  /\ d.payload.message_id[1] # Fresh

\* What the edits of a delivery leave as it was sent.
DeliveryInput ==
  /\ "about" \in DOMAIN input
  /\ input.about = "delivery" =>
       /\ input = [about |-> "delivery", sent |-> input.sent, delivery |-> input.delivery]
       /\ input.sent.metadata \in Metadata /\ input.delivery \in Publications
       /\ Addressed(input.delivery, input.sent.metadata)

\* The payload of the requested probe has the shape of a payload.
LEMMA RequestedPayloadType == RequestedPayload \in PayloadTexts
<1>1. /\ "object" \in STRING /\ "operation_id" \in STRING /\ "probe_value" \in STRING
      /\ "op-1" \in STRING /\ "hyphenated" \in STRING
  BY Literals
<1>2. uuid_text(Operation) \in UuidTexts
  BY <1>1 DEF Operation, uuid_text, UuidTexts
<1> QED
  BY <1>1, <1>2 DEF RequestedPayload, PayloadTexts

\* The envelope that a delivery starts with, or that another row's is swapped for.
LEMMA RequestedEnvelope ==
  ASSUME NEW m \in Metadata
  PROVE  LET message == encode(m, RequestedPayload) IN
         /\ message # Invalid /\ message.metadata = m /\ message.bytes \in Envelopes
         /\ message = [metadata |-> m, bytes |-> message.bytes]
         /\ message.bytes.message_id[1] # Fresh
<1> DEFINE bytes == EncodeEnvelope(m, RequestedPayload)
           made == [metadata |-> m, bytes |-> bytes]
<1>1. m \in Metadatas /\ m.message_id # Fresh /\ MessageName_new(m.descriptor.name) # Invalid
  BY SentInOrder DEF InOrder
<1>2. RequestedPayload.root = "object" /\ RequestedPayload.size = 120
  BY DEF RequestedPayload
<1>3. envelope_size(bytes) \in Nat /\ SizeIsLegal(envelope_size(bytes))
  <2>1. /\ envelope_size(bytes) \in Nat /\ 2 <= envelope_size(bytes)
        /\ envelope_size(bytes) <= 1100 + RequestedPayload.size
    BY <1>1, RequestedPayloadType, EncodedSize
  <2> QED
    BY <1>2, <2>1, SMT DEF SizeIsLegal, MIN_ENCODED_MESSAGE_BYTES, MAX_ENCODED_MESSAGE_BYTES
<1>4. encode(m, RequestedPayload) = made /\ made \in EncodedMessages
  BY <1>1, <1>2, <1>3, RequestedPayloadType, Encoded
<1>5. bytes.message_id = uuid_text(m.message_id)
  BY DEF EncodeEnvelope
<1>6. bytes.message_id[1] = m.message_id
  BY <1>5 DEF uuid_text
<1> HIDE DEF bytes
<1>7. made.metadata = m /\ made.bytes = bytes
  OBVIOUS
<1>8. made # Invalid
  BY <1>4, Distinct
<1>9. bytes \in Envelopes
  BY <1>4 DEF EncodedMessages
<1> HIDE DEF made
<1> QED
  BY <1>1, <1>4, <1>6, <1>7, <1>8, <1>9 DEF made

\* No edit reaches the subject, the first header or the message that was sent.
LEMMA DeliveryInputInvariant == BoundarySpec => []DeliveryInput
<1>1. BoundaryInit => DeliveryInput
  <2> SUFFICES ASSUME BoundaryInit PROVE DeliveryInput
    OBVIOUS
  <2>1. "about" \in DOMAIN input
    BY DEF BoundaryInit
  <2>2. ASSUME input.about = "delivery"
        PROVE  \E m \in Metadata :
                 /\ publish_exact(encode(m, RequestedPayload)) # Invalid
                 /\ input = [about |-> "delivery", sent |-> encode(m, RequestedPayload),
                             delivery |-> publish_exact(encode(m, RequestedPayload))]
    BY <2>2 DEF BoundaryInit
  <2>3. ASSUME input.about = "delivery" PROVE DeliveryInput
    <3>1. PICK m \in Metadata :
            /\ publish_exact(encode(m, RequestedPayload)) # Invalid
            /\ input = [about |-> "delivery", sent |-> encode(m, RequestedPayload),
                        delivery |-> publish_exact(encode(m, RequestedPayload))]
      BY <2>2, <2>3
    <3> DEFINE message == encode(m, RequestedPayload)
               bytes == message.bytes
               d == publish_exact(message)
    <3>2. message = [metadata |-> m, bytes |-> bytes] /\ message.metadata = m
          /\ bytes \in Envelopes /\ bytes.message_id[1] # Fresh
      BY RequestedEnvelope
    <3>3. InOrder(m)
      BY SentInOrder
    <3>4. input = [about |-> "delivery", sent |-> message, delivery |-> d] /\ d # Invalid
      BY <3>1
    <3>5. TransportSubject_derive(m) # Invalid
      BY <3>2, <3>4 DEF publish_exact
    <3>6. d = publish_exact([metadata |-> m, bytes |-> bytes])
      BY <3>2
    <3> HIDE DEF message, bytes, d
    <3>7. /\ d = [subject |-> TransportSubject_derive(m), stream |-> stream_name(m.descriptor.kind),
                  headers |-> publish_headers(m), payload |-> bytes]
          /\ d \in Publications
      BY <3>2, <3>3, <3>5, <3>6, Published
    <3>8. Len(publish_headers(m)) = 3
          /\ publish_headers(m)[1] = Header("Nats-Msg-Id", uuid_text(m.message_id), 36)
      BY DEF publish_headers
    <3>9. Addressed(d, m)
      BY <3>2, <3>5, <3>7, <3>8 DEF Addressed
    <3> QED
      BY <2>1, <2>3, <3>2, <3>4, <3>7, <3>9 DEF DeliveryInput
  <2> QED
    BY <2>1, <2>3 DEF DeliveryInput
<1>2. DeliveryInput /\ [BoundaryNext]_boundary_vars => DeliveryInput'
  <2> SUFFICES ASSUME DeliveryInput, [BoundaryNext]_boundary_vars, input'.about = "delivery" PROVE DeliveryInput'
    BY StepsByKind DEF DeliveryInput
  <2> DEFINE d == input.delivery
             m == input.sent.metadata
  <2>1. /\ "about" \in DOMAIN input /\ "about" \in DOMAIN input' /\ input.about = "delivery"
        /\ input = [about |-> "delivery", sent |-> input.sent, delivery |-> d]
        /\ m \in Metadata /\ d \in Publications /\ Addressed(d, m)
    BY StepsByKind DEF DeliveryInput
  <2>2. /\ d = [subject |-> d.subject, stream |-> d.stream, headers |-> d.headers, payload |-> d.payload]
        /\ d.subject \in Seq(STRING) /\ d.stream \in STRING /\ d.headers \in Seq(Headers) /\ d.payload \in Envelopes
    BY <2>1 DEF Publications
  <2>3. ASSUME NEW b \in Envelopes, b.message_id[1] # Fresh, input' = [input EXCEPT !.delivery.payload = b]
        PROVE  DeliveryInput'
    <3> DEFINE e == [d EXCEPT !.payload = b]
    <3>1. /\ e.subject = d.subject /\ e.headers = d.headers /\ e.payload = b /\ e \in Publications
      BY <2>2 DEF Publications
    <3>2. input' = [about |-> "delivery", sent |-> input.sent, delivery |-> e]
      BY <2>1, <2>3
    <3> HIDE DEF e
    <3>3. input'.about = "delivery" /\ input'.sent = input.sent /\ input'.delivery = e /\ "about" \in DOMAIN input'
      BY <3>2
    <3>4. Addressed(e, m)
      BY <2>1, <2>3, <3>1 DEF Addressed
    <3> QED
      BY <2>1, <3>1, <3>2, <3>3, <3>4 DEF DeliveryInput
  <2>4. ASSUME NEW key \in DOMAIN EnvelopeEdits, NEW v \in EnvelopeEdits[key], EditEnvelope(key, v)
        PROVE  DeliveryInput'
    <3> DEFINE b == [d.payload EXCEPT ![key] = v]
    <3>1. key \in DOMAIN EnvelopeParts /\ v \in EnvelopeParts[key]
      BY MessagesAssumption
    <3>2. b \in Envelopes
      BY <2>2, <3>1, EditedEnvelope
    <3>3. b.message_id = IF key = "message_id" THEN v ELSE d.payload.message_id
      BY <2>2 DEF Envelopes
    <3>4. key = "message_id" => v[1] # Fresh
      BY MessagesAssumption
    <3>5. d.payload.message_id[1] # Fresh
      BY <2>1 DEF Addressed
    <3>6. b.message_id[1] # Fresh
      BY <3>3, <3>4, <3>5
    <3>7. input' = [input EXCEPT !.delivery.payload = b]
      BY <2>4 DEF EditEnvelope
    <3> HIDE DEF b
    <3> QED
      BY <2>3, <3>2, <3>6, <3>7
  <2>5. ASSUME NEW h \in HeaderEdits, AddHeader(h) PROVE DeliveryInput'
    <3> DEFINE hs == Append(d.headers, h)
               e == [d EXCEPT !.headers = hs]
    <3>1. h \in Headers
      BY MessagesAssumption
    <3>2. hs \in Seq(Headers) /\ Len(hs) = Len(d.headers) + 1 /\ Len(d.headers) \in Nat
          /\ \A i \in 1..Len(d.headers) : hs[i] = d.headers[i]
      BY <2>2, <3>1
    <3> HIDE DEF hs
    <3>3. e.subject = d.subject /\ e.headers = hs /\ e.payload = d.payload /\ e \in Publications
      BY <2>2, <3>2 DEF Publications
    <3>4. input' = [about |-> "delivery", sent |-> input.sent, delivery |-> e]
      BY <2>1, <2>5 DEF AddHeader, hs
    <3> HIDE DEF e
    <3>5. input'.about = "delivery" /\ input'.sent = input.sent /\ input'.delivery = e /\ "about" \in DOMAIN input'
      BY <3>4
    <3>6. Len(hs) >= 1 /\ hs[1] = d.headers[1]
      BY <2>1, <3>2 DEF Addressed
    <3>7. Addressed(e, m)
      BY <2>1, <3>3, <3>6 DEF Addressed
    <3> QED
      BY <2>1, <3>3, <3>4, <3>5, <3>7 DEF DeliveryInput
  <2>6. ASSUME NEW n \in Metadata, SwapEnvelope(n) PROVE DeliveryInput'
    BY <2>3, <2>6, RequestedEnvelope DEF SwapEnvelope
  <2>7. ASSUME input' = input PROVE DeliveryInput'
    BY <2>7 DEF DeliveryInput
  <2> QED
    BY <2>1, <2>4, <2>5, <2>6, <2>7, StepsByKind
<1> QED
  BY <1>1, <1>2, PTL DEF BoundarySpec

\* What accept_delivery asks of a delivery.
LEMMA AcceptedDelivery ==
  ASSUME NEW d, accept_delivery(d) # Invalid
  PROVE  LET message == decode_envelope(d.payload) IN
         /\ accept_delivery(d) = message /\ message # Invalid
         /\ validate_headers(d.headers, message, d.stream)
         /\ TransportSubject_derive(message.metadata) # Invalid
         /\ TransportSubject_derive(message.metadata) = d.subject
  BY DEF accept_delivery

\* An identifier of version 7 is read back from its text.
LEMMA UuidRoundTrip == \A uuid \in Uuids : uuid_from_str(uuid_text(uuid)) = uuid
  BY DEF uuid_from_str, uuid_text, uuid_v7, Uuids

\* For every set of messages, edits and headers: whatever envelope a delivery
\* carries and whatever headers are added, what accept_delivery hands to the
\* handler has the identifier, kind, name, Cell and direction that the
\* publication was sent with.
THEOREM DeliveriesAreHandledAsAddressed == BoundarySpec => []HandledAsAddressed
<1>1. DeliveryInput => HandledAsAddressed
  <2> SUFFICES ASSUME DeliveryInput, input.about = "delivery", accept_delivery(input.delivery) # Invalid
               PROVE  LET message == accept_delivery(input.delivery)
                          sent == input.sent.metadata
                      IN  /\ message.metadata.message_id = sent.message_id
                          /\ message.metadata.descriptor.name = sent.descriptor.name
                          /\ message.metadata.descriptor.kind = sent.descriptor.kind
                          /\ message.metadata.scope.cell_id = sent.scope.cell_id
                          /\ message.metadata.source.kind = sent.source.kind
    BY Zenon DEF HandledAsAddressed
  <2> DEFINE d == input.delivery
             bytes == d.payload
             message == accept_delivery(d)
             m == message.metadata
             sent == input.sent.metadata
  <2>1. sent \in Metadata /\ d \in Publications /\ Addressed(d, sent)
    BY DEF DeliveryInput
  <2>2. bytes \in Envelopes /\ d.headers \in Seq(Headers)
    BY <2>1 DEF Publications
  <2>3. /\ message = decode_envelope(bytes) /\ message # Invalid
        /\ validate_headers(d.headers, message, d.stream)
        /\ TransportSubject_derive(m) # Invalid /\ TransportSubject_derive(m) = d.subject
    BY AcceptedDelivery
  <2>4. m = Parts(bytes) /\ PartsAreValid(bytes)
    <3>1. message = [metadata |-> Parts(bytes), bytes |-> bytes] /\ PartsAreValid(bytes)
      BY <2>3, Decoded
    <3> HIDE DEF message, bytes
    <3> QED
      BY <3>1
  <2>5. sent \in Metadatas /\ sent.message_id \in Uuids /\ MessageName_new(sent.descriptor.name) # Invalid
    BY <2>1, SentInOrder DEF InOrder
  <2> HIDE DEF m, bytes, d, sent, message
  <2>6. m \in Metadatas /\ m.descriptor.name = bytes.message_name
    <3>1. /\ m \in Metadatas
          /\ m.descriptor = [kind |-> bytes.message_kind, name |-> bytes.message_name,
                             schema_version |-> bytes.message_schema_version]
      BY <2>2, <2>4, PartsType
    <3> QED
      BY <3>1
  <2>7. MessageName_new(m.descriptor.name) # Invalid
    BY <2>4, <2>6 DEF PartsAreValid
  <2>8. TransportSubject_derive(m) = TransportSubject_derive(sent)
    BY <2>1, <2>3 DEF Addressed
  <2>9. /\ m.descriptor.kind = sent.descriptor.kind /\ m.descriptor.name = sent.descriptor.name
        /\ m.scope.cell_id = sent.scope.cell_id /\ m.source.kind = sent.source.kind
    BY <2>3, <2>5, <2>6, <2>7, <2>8, SameSubjectSameRoute
  <2>10. m.message_id = sent.message_id
    <3>1. /\ d.headers[1].name = "Nats-Msg-Id" /\ d.headers[1].value = uuid_text(sent.message_id)
          /\ 1 \in DOMAIN d.headers
      BY <2>1, <2>2 DEF Addressed, Header
    <3>2. uuid_from_str(d.headers[1].value) = m.message_id
      BY <2>3, <3>1 DEF validate_headers, Named, m
    <3> QED
      BY <2>5, <3>1, <3>2, UuidRoundTrip
  <2> QED
    BY <2>9, <2>10 DEF m, message, d, sent
<1> QED
  BY <1>1, DeliveryInputInvariant, PTL

\* Writing what was read of a scope changes the spelling of its tenant and of
\* its epoch and nothing else.
LEMMA ScopeWrittenAgain ==
  ASSUME NEW s \in ScopeTexts, decode_scope(s) # Invalid
  PROVE  encode_scope(decode_scope(s)) = RespelledScope(s)
<1>1. CASE s.kind # "tenant"
  BY <1>1, ScopeRead DEF encode_scope, RespelledScope
<1>2. CASE s.kind = "tenant"
  <2>1. s.tenant_id # None /\ decode_scope(s) = Scope("tenant", s.cell_id, s.tenant_id[1], s.assignment_epoch[1])
    BY <1>2, ScopeRead
  <2>2. encode_scope(decode_scope(s)) = Scope("tenant", s.cell_id, uuid_text(s.tenant_id[1]), epoch_text(s.assignment_epoch[1]))
    BY <2>1 DEF encode_scope, Scope
  <2>3. Respelled(s.tenant_id) = uuid_text(s.tenant_id[1])
    BY <2>1 DEF Respelled
  <2> QED
    BY <1>2, <2>2, <2>3 DEF RespelledScope
<1> QED
  BY <1>1, <1>2

\* The parts of an accepted envelope are short.
LEMMA AcceptedIsSized ==
  ASSUME NEW b \in Envelopes, PartsAreValid(b)
  PROVE  IsSized(b)
<1>1. /\ b.message_kind \in STRING /\ b.source \in AuthorityTexts /\ b.scope \in ScopeTexts
      /\ b.target \in Optional(AuthorityTexts) /\ b.payload \in PayloadTexts /\ b.space \in Nat
  BY DEF Envelopes
<1>2. b.message_kind \in {"command", "event"}
  BY DEF PartsAreValid, decode_kind
<1>3. NameLength(b.message_name) \in 10..160
  BY DEF PartsAreValid, MessageName_new
<1>4. IsPlace(b.source)
  BY <1>1, AuthorityRead, Places DEF PartsAreValid
<1>5. IsPlace(b.scope)
  <2>1. decode_scope(b.scope) \in Scopes /\ decode_scope(b.scope).kind = b.scope.kind
        /\ decode_scope(b.scope).cell_id = b.scope.cell_id
    BY <1>1, ScopeRead DEF PartsAreValid
  <2> QED
    BY <2>1, Places DEF IsPlace
<1>6. b.target # None => IsPlace(b.target)
  BY <1>1, TargetRead, Places DEF PartsAreValid, Optional
<1>7. b.payload.size \in Nat
  BY <1>1 DEF PayloadTexts
<1> QED
  BY <1>1, <1>2, <1>3, <1>4, <1>5, <1>6, <1>7 DEF IsSized

\* Written with its hyphens, an identifier grows by at most four bytes.
LEMMA RespelledSizes ==
  ASSUME NEW text \in Optional(UuidTexts)
  PROVE  /\ text # None => uuid_size(Respelled(text)) <= uuid_size(text) + 4
         /\ CauseSize(Respelled(text)) <= CauseSize(text) + 4
         /\ TenantSize(Respelled(text)) <= TenantSize(text) + 4
<1>1. CASE text = None
  BY <1>1 DEF Respelled, CauseSize, TenantSize
<1>2. CASE text \in UuidTexts
  <2> DEFINE n == uuid_size(text)
             again == Respelled(text)
  <2>1. text # None /\ again = uuid_text(text[1])
    BY <1>2, Distinct DEF Respelled
  <2>2. again \in UuidTexts
    BY <1>2, <2>1, AreStrings DEF uuid_text, UuidTexts
  <2>3. again # None /\ uuid_size(again) = 36
    BY <2>1, <2>2, UuidTextSize, Distinct
  <2>4. n \in Nat /\ 32 <= n
    BY UuidSize
  <2>5. CauseSize(again) = 38 /\ TenantSize(again) = 51 /\ CauseSize(text) = 2 + n /\ TenantSize(text) = 15 + n
    BY <2>1, <2>3 DEF CauseSize, TenantSize
  <2> HIDE DEF n, again
  <2>6. /\ uuid_size(again) <= n + 4 /\ CauseSize(again) <= CauseSize(text) + 4
        /\ TenantSize(again) <= TenantSize(text) + 4
    BY <2>3, <2>4, <2>5
  <2> QED
    BY <2>6 DEF n, again
<1> QED
  BY <1>1, <1>2 DEF Optional

\* The same for the tenant of a scope; its epoch never grows.
LEMMA RespelledScopeSize ==
  ASSUME NEW s \in ScopeTexts, decode_scope(s) # Invalid
  PROVE  LET again == RespelledScope(s) IN
         /\ again.kind = s.kind /\ again.cell_id = s.cell_id
         /\ TenantSize(again.tenant_id) <= TenantSize(s.tenant_id) + 4
         /\ EpochPart(again.assignment_epoch) <= EpochPart(s.assignment_epoch)
<1>1. CASE s.kind # "tenant"
  <2>1. RespelledScope(s) = s
    BY <1>1 DEF RespelledScope
  <2> QED
    BY <2>1, SpelledSizes
<1>2. CASE s.kind = "tenant"
  <2> DEFINE again == RespelledScope(s)
             text == epoch_text(s.assignment_epoch[1])
  <2>1. s.tenant_id \in UuidTexts /\ s.assignment_epoch # None /\ s.assignment_epoch \in Nat \X STRING
    BY <1>2, ScopeRead
  <2>2. /\ again.kind = "tenant" /\ again.cell_id = s.cell_id
        /\ again.tenant_id = Respelled(s.tenant_id) /\ again.assignment_epoch = text
    BY <1>2 DEF RespelledScope, Scope
  <2>3. text # None
    <3>1. text \in Nat \X STRING
      BY <2>1, AreStrings DEF epoch_text
    <3> QED
      BY <3>1, Distinct
  <2>4. epoch_size(text) \in Nat /\ epoch_size(s.assignment_epoch) \in Nat
        /\ epoch_size(text) <= epoch_size(s.assignment_epoch)
    BY EpochSize
  <2> HIDE DEF text, again
  <2>5. EpochPart(again.assignment_epoch) <= EpochPart(s.assignment_epoch)
    BY <2>1, <2>2, <2>3, <2>4 DEF EpochPart
  <2>6. TenantSize(again.tenant_id) <= TenantSize(s.tenant_id) + 4
    BY <2>1, <2>2, RespelledSizes DEF Optional
  <2> QED
    BY <1>2, <2>2, <2>5, <2>6 DEF again
<1> QED
  BY <1>1, <1>2

\* The canonical form of an envelope, key by key.
LEMMA CanonicalParts ==
  ASSUME NEW b \in Envelopes
  PROVE  Canonical(b) =
           [json |-> "canonical", space |-> 0, envelope_version |-> b.envelope_version,
            message_id |-> Respelled(b.message_id), message_kind |-> b.message_kind,
            message_name |-> b.message_name, message_schema_version |-> b.message_schema_version,
            emitted_at |-> b.emitted_at, source |-> b.source, scope |-> RespelledScope(b.scope), target |-> b.target,
            correlation_id |-> Respelled(b.correlation_id), causation_id |-> Respelled(b.causation_id),
            payload |-> b.payload]
<1> DEFINE c == Canonical(b)
<1>1. b = [json |-> b.json, space |-> b.space, envelope_version |-> b.envelope_version,
           message_id |-> b.message_id, message_kind |-> b.message_kind,
           message_name |-> b.message_name, message_schema_version |-> b.message_schema_version,
           emitted_at |-> b.emitted_at, source |-> b.source, scope |-> b.scope, target |-> b.target,
           correlation_id |-> b.correlation_id, causation_id |-> b.causation_id,
           payload |-> b.payload]
  BY DEF Envelopes
<1>2. c \in [json : {"canonical"}, space : {0}, envelope_version : {b.envelope_version},
             message_id : {Respelled(b.message_id)}, message_kind : {b.message_kind},
             message_name : {b.message_name}, message_schema_version : {b.message_schema_version},
             emitted_at : {b.emitted_at}, source : {b.source}, scope : {RespelledScope(b.scope)}, target : {b.target},
             correlation_id : {Respelled(b.correlation_id)}, causation_id : {Respelled(b.causation_id)},
             payload : {b.payload}]
  BY <1>1 DEF Canonical
<1> HIDE DEF c
<1>3. c = [json |-> "canonical", space |-> 0, envelope_version |-> b.envelope_version,
           message_id |-> Respelled(b.message_id), message_kind |-> b.message_kind,
           message_name |-> b.message_name, message_schema_version |-> b.message_schema_version,
           emitted_at |-> b.emitted_at, source |-> b.source, scope |-> RespelledScope(b.scope), target |-> b.target,
           correlation_id |-> Respelled(b.correlation_id), causation_id |-> Respelled(b.causation_id),
           payload |-> b.payload]
  BY <1>2
<1> QED
  BY <1>3 DEF c

\* Writing an accepted envelope again adds at most sixteen bytes.
LEMMA CanonicalSize ==
  ASSUME NEW b \in Envelopes, PartsAreValid(b)
  PROVE  LET c == Canonical(b) IN
         /\ envelope_size(b) \in Nat /\ envelope_size(c) \in Nat /\ 2 <= envelope_size(c)
         /\ envelope_size(c) <= envelope_size(b) + 16
<1> DEFINE c == Canonical(b)
<1>1. /\ c.space = 0 /\ c.message_id = Respelled(b.message_id) /\ c.message_kind = b.message_kind
      /\ c.message_name = b.message_name /\ c.message_schema_version = b.message_schema_version
      /\ c.source = b.source /\ c.scope = RespelledScope(b.scope) /\ c.target = b.target
      /\ c.correlation_id = Respelled(b.correlation_id) /\ c.causation_id = Respelled(b.causation_id)
      /\ c.payload = b.payload
  BY CanonicalParts
<1>2. /\ b.message_id \in UuidTexts /\ b.correlation_id \in UuidTexts /\ b.causation_id \in Optional(UuidTexts)
      /\ b.scope \in ScopeTexts
  BY DEF Envelopes
<1>3. IsSized(b)
  BY AcceptedIsSized
<1> HIDE DEF c
<1>4. /\ c.scope.kind = b.scope.kind /\ c.scope.cell_id = b.scope.cell_id
      /\ TenantSize(c.scope.tenant_id) <= TenantSize(b.scope.tenant_id) + 4
      /\ EpochPart(c.scope.assignment_epoch) <= EpochPart(b.scope.assignment_epoch)
  BY <1>1, <1>2, RespelledScopeSize DEF PartsAreValid
<1>5. IsSized(c)
  BY <1>1, <1>3, <1>4 DEF IsSized, IsPlace
<1>6. FixedSize(c) = FixedSize(b)
  BY <1>1, <1>4 DEF FixedSize, authority_size
<1>7. /\ uuid_size(c.message_id) <= uuid_size(b.message_id) + 4
      /\ uuid_size(c.correlation_id) <= uuid_size(b.correlation_id) + 4
      /\ CauseSize(c.causation_id) <= CauseSize(b.causation_id) + 4
  <2>1. b.message_id # None /\ b.correlation_id # None
    BY <1>2, Distinct
  <2> QED
    BY <1>1, <1>2, <2>1, RespelledSizes DEF Optional
<1> DEFINE f == FixedSize(b)
           i1 == uuid_size(b.message_id)
           i2 == uuid_size(c.message_id)
           j1 == uuid_size(b.correlation_id)
           j2 == uuid_size(c.correlation_id)
           c1 == CauseSize(b.causation_id)
           c2 == CauseSize(c.causation_id)
           t1 == TenantSize(b.scope.tenant_id)
           t2 == TenantSize(c.scope.tenant_id)
           e1 == EpochPart(b.scope.assignment_epoch)
           e2 == EpochPart(c.scope.assignment_epoch)
           p == b.payload.size
           s == b.space
<1>8. /\ envelope_size(b) = f + i1 + j1 + c1 + t1 + e1 + p + s /\ envelope_size(b) \in Nat
      /\ envelope_size(c) = f + i2 + j2 + c2 + t2 + e2 + p + 0 /\ envelope_size(c) \in Nat /\ 2 <= envelope_size(c)
  BY <1>1, <1>3, <1>5, <1>6, SizeOf
<1>9. /\ f \in Nat /\ p \in Nat /\ s \in Nat /\ i1 \in Nat /\ i2 \in Nat /\ j1 \in Nat /\ j2 \in Nat
      /\ c1 \in Nat /\ c2 \in Nat /\ t1 \in Nat /\ t2 \in Nat /\ e1 \in Nat /\ e2 \in Nat
  BY <1>3, FixedSizeType, UuidSize, SpelledSizes DEF IsSized
<1>10. i2 <= i1 + 4 /\ j2 <= j1 + 4 /\ c2 <= c1 + 4 /\ t2 <= t1 + 4 /\ e2 <= e1
  BY <1>4, <1>7
<1> HIDE DEF f, i1, i2, j1, j2, c1, c2, t1, t2, e1, e2, p, s
<1>11. envelope_size(c) <= envelope_size(b) + 16
  BY <1>8, <1>9, <1>10
<1> QED
  BY <1>8, <1>11 DEF c

\* For every message and every edit of its envelope: what decode accepts, it
\* accepts in one spelling up to identifiers and the epoch, and the encoder
\* writes it again unless it is within sixteen bytes of the limit and grows.
THEOREM AcceptedEnvelopesAreCanonical == BoundarySpec => []AcceptedEnvelopeIsCanonical
<1>1. DeliveryInput => AcceptedEnvelopeIsCanonical
  <2> SUFFICES ASSUME DeliveryInput, input.about = "delivery", decode_envelope(input.delivery.payload) # Invalid
               PROVE  LET bytes == input.delivery.payload
                          again == encode(parse(bytes), bytes.payload)
                      IN  IF envelope_size(Canonical(bytes)) <= MAX_ENCODED_MESSAGE_BYTES
                          THEN again # Invalid /\ again.bytes = Canonical(bytes)
                          ELSE again = Invalid /\ envelope_size(bytes) > MAX_ENCODED_MESSAGE_BYTES - SPELLING_BYTES
    BY Zenon DEF AcceptedEnvelopeIsCanonical
  <2> DEFINE b == input.delivery.payload
             m == Parts(b)
             c == Canonical(b)
             written == EncodeEnvelope(m, b.payload)
             made == [metadata |-> m, bytes |-> written]
             again == encode(m, b.payload)
             old == envelope_size(b)
             new == envelope_size(c)
  <2>1. b \in Envelopes
    BY DEF DeliveryInput, Publications
  <2>2. PartsAreValid(b) /\ parse(b) = m
    BY Decoded
  <2> HIDE DEF b
  <2>3. /\ m \in Metadatas
        /\ m.message_id = b.message_id[1]
        /\ m.descriptor = [kind |-> b.message_kind, name |-> b.message_name, schema_version |-> b.message_schema_version]
        /\ format_emitted_at(m.emitted_at) = b.emitted_at
        /\ m.source = b.source /\ m.scope = decode_scope(b.scope) /\ m.target = b.target
        /\ m.correlation_id = b.correlation_id[1]
        /\ m.causation_id = IF b.causation_id = None THEN None ELSE b.causation_id[1]
    BY <2>1, <2>2, PartsType
  <2> HIDE DEF m
  <2>4. /\ b.payload \in PayloadTexts
        /\ b.message_id \in UuidTexts /\ b.correlation_id \in UuidTexts /\ b.causation_id \in Optional(UuidTexts)
        /\ b.scope \in ScopeTexts
    BY <2>1 DEF Envelopes
  <2>5. b.payload.root = "object" /\ b.envelope_version = ENVELOPE_VERSION
    BY <2>2 DEF PartsAreValid
  <2>6. Respelled(b.message_id) = uuid_text(m.message_id) /\ Respelled(b.correlation_id) = uuid_text(m.correlation_id)
    BY <2>3, <2>4, Distinct DEF Respelled
  <2>7. Respelled(b.causation_id) = IF m.causation_id = None THEN None ELSE uuid_text(m.causation_id)
    <3>1. b.causation_id # None => b.causation_id[1] \in STRING
      BY <2>4 DEF Optional, UuidTexts
    <3> QED
      BY <2>3, <3>1, Distinct DEF Respelled
  <2>8. encode_scope(m.scope) = RespelledScope(b.scope)
    BY <2>2, <2>3, <2>4, ScopeWrittenAgain DEF PartsAreValid
  <2>9. written = c
    <3>1. m.descriptor.kind = b.message_kind /\ m.descriptor.name = b.message_name
          /\ m.descriptor.schema_version = b.message_schema_version
      BY <2>3
    <3>2. c = [json |-> "canonical", space |-> 0, envelope_version |-> b.envelope_version,
               message_id |-> Respelled(b.message_id), message_kind |-> b.message_kind,
               message_name |-> b.message_name, message_schema_version |-> b.message_schema_version,
               emitted_at |-> b.emitted_at, source |-> b.source, scope |-> RespelledScope(b.scope), target |-> b.target,
               correlation_id |-> Respelled(b.correlation_id), causation_id |-> Respelled(b.causation_id),
               payload |-> b.payload]
      BY <2>1, CanonicalParts
    <3> HIDE DEF c
    <3> QED
      BY <2>3, <2>5, <2>6, <2>7, <2>8, <3>1, <3>2 DEF EncodeEnvelope
  <2>10. old \in Nat /\ new \in Nat /\ 2 <= new /\ new <= old + 16
    BY <2>1, <2>2, CanonicalSize
  <2> HIDE DEF c, written
  <2>11. /\ made \in EncodedMessages
         /\ SizeIsLegal(new) => again = made
         /\ again # Invalid => SizeIsLegal(new)
    BY <2>3, <2>4, <2>5, <2>9, <2>10, Encoded DEF written
  <2>12. made # Invalid /\ made.bytes = c
    BY <2>9, <2>11, Distinct
  <2> HIDE DEF old, new, again, made
  <2>13. CASE new <= MAX_ENCODED_MESSAGE_BYTES
    <3>1. SizeIsLegal(new)
      BY <2>10, <2>13 DEF SizeIsLegal, MIN_ENCODED_MESSAGE_BYTES
    <3>2. again # Invalid /\ again.bytes = c
      BY <2>11, <2>12, <3>1
    <3> QED
      BY <2>2, <2>13, <3>2 DEF again, new, c, b
  <2>14. CASE ~(new <= MAX_ENCODED_MESSAGE_BYTES)
    <3>1. again = Invalid
      BY <2>11, <2>14 DEF SizeIsLegal
    <3>2. old > MAX_ENCODED_MESSAGE_BYTES - SPELLING_BYTES
      BY <2>10, <2>14, SMT DEF MAX_ENCODED_MESSAGE_BYTES, SPELLING_BYTES
    <3> QED
      BY <2>2, <2>14, <3>1, <3>2 DEF again, new, old, c, b
  <2> QED
    BY <2>13, <2>14
<1> QED
  BY <1>1, DeliveryInputInvariant, PTL

-----------------------------------------------------------------------------
(* Messages that the store accepts. *)

\* The partial sums of a sequence: what the function inside Total is.
IsSumOf(f, sizes) ==
  f = [i \in 0..Len(sizes) |-> IF i = 0 THEN 0 ELSE f[i - 1] + sizes[i]]

\* Once there is a function of partial sums, Total is the last value of one.
LEMMA TotalIsASum ==
  ASSUME NEW sizes, NEW g, IsSumOf(g, sizes)
  PROVE  \E f : IsSumOf(f, sizes) /\ Total(sizes) = f[Len(sizes)]
<1> DEFINE f == CHOOSE h : h = [i \in 0..Len(sizes) |-> IF i = 0 THEN 0 ELSE h[i - 1] + sizes[i]]
<1>1. f = [i \in 0..Len(sizes) |-> IF i = 0 THEN 0 ELSE f[i - 1] + sizes[i]]
  BY DEF IsSumOf
<1>2. Total(sizes) = f[Len(sizes)]
  BY DEF Total
<1> HIDE DEF f
<1> QED
  BY <1>1, <1>2 DEF IsSumOf

\* Names, subjects and header blocks have at most eight parts: their partial
\* sums are put together one by one, so that no induction is needed.
LEMMA FewHaveSums ==
  ASSUME NEW sizes, Len(sizes) \in 0..8
  PROVE  \E g : IsSumOf(g, sizes)
<1> DEFINE Sums(k) == \E g : g = [i \in 0..k |-> IF i = 0 THEN 0 ELSE g[i - 1] + sizes[i]]
<1>1. Sums(0)
  <2> DEFINE g == [i \in 0..0 |-> 0]
  <2>1. g = [i \in 0..0 |-> IF i = 0 THEN 0 ELSE g[i - 1] + sizes[i]]
    OBVIOUS
  <2> QED
    BY <2>1
<1>2. ASSUME NEW k \in Nat, Sums(k) PROVE Sums(k + 1)
  <2>1. PICK g : g = [i \in 0..k |-> IF i = 0 THEN 0 ELSE g[i - 1] + sizes[i]]
    BY <1>2
  <2> DEFINE h == [i \in 0..k + 1 |-> IF i <= k THEN g[i] ELSE g[k] + sizes[k + 1]]
  <2>2. ASSUME NEW i \in 0..k + 1 PROVE h[i] = IF i = 0 THEN 0 ELSE h[i - 1] + sizes[i]
    <3>1. CASE i <= k
      <4>1. g[i] = IF i = 0 THEN 0 ELSE g[i - 1] + sizes[i]
        BY <2>1, <3>1
      <4>2. h[i] = g[i] /\ (i # 0 => h[i - 1] = g[i - 1])
        BY <3>1
      <4> QED
        BY <4>1, <4>2
    <3>2. CASE i = k + 1
      <4>1. h[k + 1] = g[k] + sizes[k + 1] /\ h[k] = g[k] /\ i - 1 = k /\ i # 0
        BY <3>2
      <4> QED
        BY <3>2, <4>1
    <3> QED
      BY <3>1, <3>2
  <2>3. h = [i \in 0..k + 1 |-> IF i = 0 THEN 0 ELSE h[i - 1] + sizes[i]]
    BY <2>2
  <2> QED
    BY <2>3
<1> HIDE DEF Sums
<1>3. Sums(0) /\ Sums(1) /\ Sums(2) /\ Sums(3) /\ Sums(4) /\ Sums(5) /\ Sums(6) /\ Sums(7) /\ Sums(8)
  <2>1. Sums(0 + 1) /\ Sums(1 + 1) /\ Sums(2 + 1) /\ Sums(3 + 1)
    BY <1>1, <1>2
  <2>2. Sums(4) /\ Sums(5) /\ Sums(6) /\ Sums(7) /\ Sums(8)
    BY <1>2, <2>1
  <2> QED
    BY <1>1, <2>1, <2>2
<1>4. Sums(Len(sizes))
  <2> DEFINE n == Len(sizes)
  <2>1. n \in 0..8
    OBVIOUS
  <2> HIDE DEF n
  <2>2. n = 0 \/ n = 1 \/ n = 2 \/ n = 3 \/ n = 4 \/ n = 5 \/ n = 6 \/ n = 7 \/ n = 8
    BY <2>1
  <2>3. Sums(n)
    BY <1>3, <2>2
  <2> QED
    BY <2>3 DEF n
<1> QED
  BY <1>4 DEF Sums, IsSumOf

\* A sum of at most eight sizes lies between the bounds of its parts.
LEMMA TotalBounds ==
  ASSUME NEW sizes, Len(sizes) \in 0..8, NEW lo \in Nat, NEW hi \in Nat,
         \A i \in 1..Len(sizes) : sizes[i] \in lo..hi
  PROVE  /\ Total(sizes) \in Nat
         /\ Len(sizes) * lo <= Total(sizes) /\ Total(sizes) <= Len(sizes) * hi
<1> DEFINE n == Len(sizes)
<1>2. PICK f : IsSumOf(f, sizes) /\ Total(sizes) = f[n]
  BY FewHaveSums, TotalIsASum
<1>3. n \in 0..8
  OBVIOUS
<1>4. f[0] = 0 /\ \A i \in 1..n : f[i] = f[i - 1] + sizes[i]
  BY <1>2, <1>3 DEF IsSumOf
<1> DEFINE B(i) == f[i] \in Nat /\ i * lo <= f[i] /\ f[i] <= i * hi
<1>s. \A i \in 1..n : sizes[i] \in lo..hi
  OBVIOUS
<1> HIDE DEF n
<1>5. B(0)
  BY <1>4
<1>6. ASSUME NEW i \in 1..n, B(i - 1) PROVE B(i)
  <2>1. f[i] = f[i - 1] + sizes[i] /\ sizes[i] \in lo..hi
    BY <1>4, <1>s
  <2>2. i * lo = (i - 1) * lo + lo /\ i * hi = (i - 1) * hi + hi
    BY <1>3
  <2> DEFINE x == f[i - 1]
             y == (i - 1) * lo
             z == (i - 1) * hi
             v == sizes[i]
  <2>3. x \in Nat /\ y <= x /\ x <= z /\ y \in Int /\ z \in Int /\ v \in lo..hi
    BY <1>3, <1>6, <2>1
  <2>4. f[i] = x + v /\ i * lo = y + lo /\ i * hi = z + hi
    BY <2>1, <2>2
  <2> HIDE DEF x, y, z, v
  <2>5. x + v \in Nat /\ y + lo <= x + v /\ x + v <= z + hi
    BY <2>3
  <2> QED
    BY <2>4, <2>5
<1> HIDE DEF B
<1>7. B(n)
  <2>0. n \in 0..8
    BY <1>3
  <2>1. n >= 1 => B(1)
    BY <1>5, <1>6, <2>0
  <2>2. n >= 2 => B(2)
    BY <1>6, <2>0, <2>1
  <2>3. n >= 3 => B(3)
    BY <1>6, <2>0, <2>2
  <2>4. n >= 4 => B(4)
    BY <1>6, <2>0, <2>3
  <2>5. n >= 5 => B(5)
    BY <1>6, <2>0, <2>4
  <2>6. n >= 6 => B(6)
    BY <1>6, <2>0, <2>5
  <2>7. n >= 7 => B(7)
    BY <1>6, <2>0, <2>6
  <2>8. n >= 8 => B(8)
    BY <1>6, <2>0, <2>7
  <2> QED
    BY <1>5, <2>0, <2>1, <2>2, <2>3, <2>4, <2>5, <2>6, <2>7, <2>8
<1> QED
  BY <1>2, <1>7 DEF B, n

\* What a row holds of a message: everything, the epoch as text.
LEMMA Row ==
  ASSUME NEW m \in Metadatas, NEW bytes
  PROVE  LET row == DatabaseMetadata_from_message([metadata |-> m, bytes |-> bytes])
             epoch == m.scope.assignment_epoch
         IN  row = [m EXCEPT !.scope = [m.scope EXCEPT !.assignment_epoch = IF epoch = None THEN None ELSE epoch_text(epoch)]]
<1> DEFINE message == [metadata |-> m, bytes |-> bytes]
<1>1. message.metadata = m
  OBVIOUS
<1> HIDE DEF message
<1>2. m.scope \in Scopes
  BY DEF Metadatas
<1>3. "assignment_epoch" \in DOMAIN m.scope /\ "scope" \in DOMAIN m
  BY <1>2 DEF Scopes, Metadatas
<1> QED
  BY <1>1, <1>3 DEF DatabaseMetadata_from_message, message

\* The columns that the CHECK constraints look at are those of the message.
LEMMA RowColumns ==
  ASSUME NEW m \in Metadatas, NEW bytes
  PROVE  LET row == DatabaseMetadata_from_message([metadata |-> m, bytes |-> bytes]) IN
         /\ row.message_id = m.message_id /\ row.descriptor = m.descriptor /\ row.emitted_at = m.emitted_at
         /\ row.source = m.source /\ row.target = m.target /\ row.causation_id = m.causation_id
         /\ row.scope.kind = m.scope.kind /\ row.scope.cell_id = m.scope.cell_id
<1> DEFINE epoch == m.scope.assignment_epoch
           text == IF epoch = None THEN None ELSE epoch_text(epoch)
           s == [m.scope EXCEPT !.assignment_epoch = text]
<1>1. m.scope \in Scopes
  BY DEF Metadatas
<1>2. s.kind = m.scope.kind /\ s.cell_id = m.scope.cell_id
  BY <1>1 DEF Scopes
<1>3. DatabaseMetadata_from_message([metadata |-> m, bytes |-> bytes]) = [m EXCEPT !.scope = s]
  BY Row
<1> HIDE DEF s
<1> DEFINE row == [m EXCEPT !.scope = s]
<1>4. /\ row.message_id = m.message_id /\ row.descriptor = m.descriptor /\ row.emitted_at = m.emitted_at
      /\ row.source = m.source /\ row.target = m.target /\ row.causation_id = m.causation_id
      /\ row.scope = s
  BY DEF Metadatas
<1> QED
  BY <1>2, <1>3, <1>4

\* A message in order breaks no constraint of the outbox of its authority.
LEMMA Storable ==
  ASSUME NEW m \in Metadatas, Consistent(m), m.emitted_at >= 0,
         MessageSchemaVersion_new(m.descriptor.schema_version) # Invalid,
         NEW bytes, SizeIsLegal(envelope_size(bytes))
  PROVE  StoredIn([metadata |-> m, bytes |-> bytes])
<1> DEFINE message == [metadata |-> m, bytes |-> bytes]
           row == DatabaseMetadata_from_message(message)
<1>1. /\ row.message_id = m.message_id /\ row.descriptor = m.descriptor /\ row.emitted_at = m.emitted_at
      /\ row.source = m.source /\ row.target = m.target /\ row.causation_id = m.causation_id
      /\ row.scope.kind = m.scope.kind /\ row.scope.cell_id = m.scope.cell_id
  BY RowColumns
<1>2. message.metadata = m /\ message.bytes = bytes
  OBVIOUS
<1> HIDE DEF message, row
<1>3. column_ranges(row, bytes)
  <2>1. 1 <= m.descriptor.schema_version /\ m.descriptor.schema_version <= 65535
    BY SMT DEF MessageSchemaVersion_new, MAX_SCHEMA_VERSION
  <2>2. 2 <= envelope_size(bytes) /\ envelope_size(bytes) <= 262144
    BY SMT DEF SizeIsLegal, MIN_ENCODED_MESSAGE_BYTES, MAX_ENCODED_MESSAGE_BYTES
  <2> QED
    BY <1>1, <2>1, <2>2, SMT DEF column_ranges
<1>4. m.source \in Authorities /\ m.scope \in Scopes /\ m.target \in Optional(Authorities)
  BY DEF Metadatas
<1>5. m.target # None /\ m.target.kind = "cell" => m.scope.kind # "platform" /\ m.target.cell_id = m.scope.cell_id
  <2> SUFFICES ASSUME m.target # None, m.target.kind = "cell"
               PROVE  m.scope.kind # "platform" /\ m.target.cell_id = m.scope.cell_id
    OBVIOUS
  <2>1. m.target.cell_id \in CellIds
    BY <1>4 DEF Optional, Authorities
  <2>2. m.scope.cell_id = m.target.cell_id
    BY DEF Consistent
  <2>3. m.scope.cell_id # None
    BY <2>1, <2>2, Distinct DEF CellIds
  <2> QED
    BY <1>4, <2>2, <2>3 DEF Scopes
<1>6. CASE m.source.kind = "cell"
  <2>1. cell_outbox_check(row, bytes)
    BY <1>1, <1>3, <1>5, <1>6 DEF cell_outbox_check, Consistent
  <2> QED
    BY <1>2, <1>6, <2>1 DEF StoredIn, row, message
<1>7. CASE m.source.kind # "cell"
  <2>1. platform_outbox_check(row, bytes)
    BY <1>1, <1>3, <1>5, <1>7 DEF platform_outbox_check, Consistent
  <2> QED
    BY <1>2, <1>7, <2>1 DEF StoredIn, row, message
<1> QED
  BY <1>6, <1>7

\* An epoch is read back from its column.
LEMMA EpochRoundTrip == \A n \in 1..MaxEpoch : epoch_from_str(epoch_text(n)) = n
  BY MessageCodecAssumption DEF epoch_from_str, epoch_text, AssignmentEpoch_new

\* A message in order comes back from its row as it was.
LEMMA RowRoundTrip ==
  ASSUME NEW m, InOrder(m), NEW bytes, SizeIsLegal(envelope_size(bytes))
  PROVE  LET message == [metadata |-> m, bytes |-> bytes] IN
         message_from_row(DatabaseMetadata_from_message(message), bytes) = message
<1> DEFINE row == DatabaseMetadata_from_message([metadata |-> m, bytes |-> bytes])
           e == m.scope.assignment_epoch
           text == IF e = None THEN None ELSE epoch_text(e)
           s == [m.scope EXCEPT !.assignment_epoch = text]
           epoch == IF row.scope.assignment_epoch = None THEN None ELSE epoch_from_str(row.scope.assignment_epoch)
           at == EmittedAt_new(row.emitted_at)
           back == [row EXCEPT !.scope.assignment_epoch = epoch, !.emitted_at = at]
           metadata == MessageMetadata_new(back)
<1>1. m \in Metadatas /\ m.scope \in Scopes /\ EmittedAt_new(m.emitted_at) = m.emitted_at /\ Consistent(m)
      /\ m.emitted_at \in 0..LastNano
  BY DEF InOrder, Metadatas
<1>2. row = [m EXCEPT !.scope = s]
  BY <1>1, Row
<1>3. e = None \/ e \in 1..MaxEpoch
  BY <1>1 DEF Scopes
<1>4. /\ m.scope = [kind |-> m.scope.kind, cell_id |-> m.scope.cell_id, tenant_id |-> m.scope.tenant_id,
                    assignment_epoch |-> e]
  BY <1>1 DEF Scopes
<1>5. m = [message_id |-> m.message_id, descriptor |-> m.descriptor, emitted_at |-> m.emitted_at,
           source |-> m.source, scope |-> m.scope, target |-> m.target,
           correlation_id |-> m.correlation_id, causation_id |-> m.causation_id]
  BY <1>1 DEF Metadatas
<1>6. text = None <=> e = None
  <2>1. e \in 1..MaxEpoch => epoch_text(e) \in Nat \X STRING
    BY AreStrings, MessageCodecAssumption DEF epoch_text
  <2> QED
    BY <1>3, <2>1, Distinct
<1>7. (IF text = None THEN None ELSE epoch_from_str(text)) = e
  BY <1>3, <1>6, EpochRoundTrip
<1>8. message_from_row(row, bytes) = IF AnyInvalid(<<epoch, at, metadata>>) THEN Invalid ELSE EncodedMessage_new(metadata, bytes)
  BY DEF message_from_row
<1> HIDE DEF row, e, text
<1>9. s = [kind |-> m.scope.kind, cell_id |-> m.scope.cell_id, tenant_id |-> m.scope.tenant_id, assignment_epoch |-> text]
  BY <1>4
<1> HIDE DEF s
<1>10. row = [message_id |-> m.message_id, descriptor |-> m.descriptor, emitted_at |-> m.emitted_at,
              source |-> m.source, scope |-> s, target |-> m.target,
              correlation_id |-> m.correlation_id, causation_id |-> m.causation_id]
  BY <1>2, <1>5
<1>11. row.scope = s /\ s.assignment_epoch = text /\ row.emitted_at = m.emitted_at
  BY <1>9, <1>10
<1>12. epoch = e /\ at = m.emitted_at
  BY <1>1, <1>7, <1>11
<1>13. back = m
  <2>1. back = [[row EXCEPT !.scope = [s EXCEPT !.assignment_epoch = e]] EXCEPT !.emitted_at = m.emitted_at]
    BY <1>10, <1>11, <1>12
  <2> HIDE DEF back
  <2>2. [s EXCEPT !.assignment_epoch = e] = m.scope
    BY <1>4, <1>9
  <2>3. [row EXCEPT !.scope = m.scope] = m
    BY <1>5, <1>10
  <2>4. [m EXCEPT !.emitted_at = m.emitted_at] = m
    BY <1>5
  <2> QED
    BY <2>1, <2>2, <2>3, <2>4
<1> HIDE DEF back, epoch, at
<1>14. metadata = m
  BY <1>1, <1>13, MetadataNew
<1> HIDE DEF metadata
<1>15. ~AnyInvalid(<<epoch, at, metadata>>)
  <2>1. epoch # Invalid /\ at # Invalid /\ metadata # Invalid
    BY <1>1, <1>3, <1>12, <1>14, Distinct, MessageCodecAssumption
  <2> QED
    BY <2>1 DEF AnyInvalid
<1>16. EncodedMessage_new(m, bytes) = [metadata |-> m, bytes |-> bytes]
  BY DEF EncodedMessage_new, SizeIsLegal
<1> QED
  BY <1>8, <1>14, <1>15, <1>16 DEF row

\* An authority is read back as it was written.
LEMMA AuthorityRoundTrip == \A a \in Authorities : decode_authority(a) = a /\ a # Invalid /\ a # None
<1> SUFFICES ASSUME NEW a \in Authorities PROVE decode_authority(a) = a /\ a # Invalid /\ a # None
  OBVIOUS
<1>0. a # Invalid /\ a # None
  BY AuthorityTextType, Distinct
<1>1. CASE a.kind = "platform"
  <2>1. a = [kind |-> "platform", cell_id |-> None]
    BY <1>1 DEF Authorities
  <2> QED
    BY <1>0, <2>1 DEF decode_authority, Authority
<1>2. CASE a.kind = "cell"
  <2>1. a = [kind |-> "cell", cell_id |-> a.cell_id] /\ a.cell_id \in CellIds
    BY <1>2 DEF Authorities
  <2>2. a.cell_id # None /\ a.cell_id # Invalid
    BY <2>1, Distinct DEF CellIds
  <2>3. CellId_new(a.cell_id) # Invalid
    BY <2>1, <2>2 DEF CellId_new
  <2>4. decode_authority(a) = Authority("cell", a.cell_id)
    BY <1>2, <2>2, <2>3 DEF decode_authority
  <2> QED
    BY <1>0, <2>1, <2>4 DEF Authority
<1> QED
  BY <1>1, <1>2 DEF Authorities

\* So is a scope.
LEMMA ScopeRoundTrip == \A s \in Scopes : decode_scope(encode_scope(s)) = s
<1> SUFFICES ASSUME NEW s \in Scopes PROVE decode_scope(encode_scope(s)) = s
  OBVIOUS
<1>1. CASE s.kind = "platform"
  <2>1. s = [kind |-> "platform", cell_id |-> None, tenant_id |-> None, assignment_epoch |-> None]
    BY <1>1 DEF Scopes
  <2>2. encode_scope(s) = s
    BY <1>1 DEF encode_scope
  <2>3. decode_scope(s) = s
    BY <2>1 DEF decode_scope
  <2> QED
    BY <2>2, <2>3
<1>c. s.kind # "platform" => s.cell_id # None /\ CellId_new(s.cell_id) # Invalid
  BY Distinct DEF Scopes, CellId_new, CellIds
<1>2. CASE s.kind = "cell"
  <2>1. s = [kind |-> "cell", cell_id |-> s.cell_id, tenant_id |-> None, assignment_epoch |-> None]
    BY <1>2 DEF Scopes
  <2>2. encode_scope(s) = s
    BY <1>2 DEF encode_scope
  <2>3. decode_scope(s) = s
    BY <1>2, <1>c, <2>1 DEF decode_scope
  <2> QED
    BY <2>2, <2>3
<1>3. CASE s.kind = "tenant"
  <2> DEFINE u == uuid_text(s.tenant_id)
             e == epoch_text(s.assignment_epoch)
             t == Scope("tenant", s.cell_id, u, e)
  <2>1. /\ s = [kind |-> "tenant", cell_id |-> s.cell_id, tenant_id |-> s.tenant_id, assignment_epoch |-> s.assignment_epoch]
        /\ s.tenant_id \in Uuids /\ s.assignment_epoch \in 1..MaxEpoch
    BY <1>3 DEF Scopes
  <2>2. encode_scope(s) = t
    BY <1>3 DEF encode_scope
  <2>3. uuid_from_str(u) = s.tenant_id /\ epoch_from_str(e) = s.assignment_epoch
    BY <2>1, UuidRoundTrip, EpochRoundTrip
  <2>4. u # None /\ e # None
    <3>1. u \in UuidTexts /\ e \in Nat \X STRING
      BY <2>1, AreStrings, MessageCodecAssumption DEF uuid_text, epoch_text, UuidTexts, Uuids
    <3> QED
      BY <3>1, Distinct
  <2>5. s.tenant_id # Invalid /\ s.assignment_epoch # Invalid
    BY <2>1, Distinct, MessageCodecAssumption DEF Uuids
  <2> HIDE DEF u, e
  <2>6. t.kind = "tenant" /\ t.cell_id = s.cell_id /\ t.tenant_id = u /\ t.assignment_epoch = e
    BY DEF Scope
  <2> HIDE DEF t
  <2> DEFINE x == uuid_from_str(t.tenant_id)
             y == epoch_from_str(t.assignment_epoch)
  <2>7. x = s.tenant_id /\ y = s.assignment_epoch
    BY <2>3, <2>6
  <2> HIDE DEF x, y
  <2>8. ~AnyInvalid(<<x, y>>)
    BY <2>5, <2>7 DEF AnyInvalid
  <2>9. decode_scope(t) = Scope("tenant", t.cell_id, x, y)
    BY <1>3, <1>c, <2>4, <2>6, <2>8 DEF decode_scope, x, y
  <2>10. Scope("tenant", t.cell_id, x, y) = s
    BY <2>1, <2>6, <2>7 DEF Scope
  <2> QED
    BY <2>2, <2>9, <2>10
<1> QED
  BY <1>1, <1>2, <1>3 DEF Scopes

\* A timestamp of whole microseconds is read back as it was written.
LEMMA TimestampRoundTrip ==
  ASSUME NEW t \in 0..LastNano, EmittedAt_new(t) = t
  PROVE  parse_emitted_at(format_emitted_at(t)) = t
<1> DEFINE text == format_emitted_at(t)
<1>1. text.spelling = "micros" /\ text.instant = t
  BY DEF format_emitted_at
<1>2. rfc3339(text) = t
  BY <1>1 DEF rfc3339
<1>3. t # Invalid
  BY Distinct, MessageCodecAssumption
<1> QED
  BY <1>1, <1>2, <1>3 DEF parse_emitted_at

\* A message in order is decoded from its own envelope as it was.
LEMMA EnvelopeRoundTrip ==
  ASSUME NEW m, InOrder(m), NEW p \in PayloadTexts, p.root = "object",
         SizeIsLegal(envelope_size(EncodeEnvelope(m, p)))
  PROVE  LET bytes == EncodeEnvelope(m, p) IN decode_envelope(bytes) = [metadata |-> m, bytes |-> bytes]
<1> DEFINE b == EncodeEnvelope(m, p)
<1>1. /\ m \in Metadatas /\ m.message_id \in Uuids /\ m.descriptor \in Descriptors
      /\ m.source \in Authorities /\ m.scope \in Scopes /\ m.target \in Optional(Authorities)
      /\ m.correlation_id \in Uuids /\ m.causation_id \in Optional(Uuids)
      /\ MessageName_new(m.descriptor.name) # Invalid
      /\ MessageSchemaVersion_new(m.descriptor.schema_version) # Invalid
      /\ EmittedAt_new(m.emitted_at) = m.emitted_at /\ m.emitted_at \in 0..LastNano
      /\ Consistent(m)
  BY DEF InOrder, Metadatas
<1>2. /\ b.json = "canonical" /\ b.envelope_version = ENVELOPE_VERSION /\ b.payload = p
      /\ b.message_id = uuid_text(m.message_id) /\ b.message_kind = m.descriptor.kind
      /\ b.message_name = m.descriptor.name /\ b.message_schema_version = m.descriptor.schema_version
      /\ b.emitted_at = format_emitted_at(m.emitted_at) /\ b.source = m.source
      /\ b.scope = encode_scope(m.scope) /\ b.target = m.target
      /\ b.correlation_id = uuid_text(m.correlation_id)
      /\ b.causation_id = IF m.causation_id = None THEN None ELSE uuid_text(m.causation_id)
  BY DEF EncodeEnvelope
<1> HIDE DEF b
<1>3. \A u \in Uuids : u # Invalid /\ u # None
  BY Distinct DEF Uuids
<1>4. uuid_from_str(b.message_id) = m.message_id /\ uuid_from_str(b.correlation_id) = m.correlation_id
  BY <1>1, <1>2, UuidRoundTrip
<1>5. decode_kind(b.message_kind) = m.descriptor.kind /\ m.descriptor.kind # Invalid
  <2>1. m.descriptor.kind \in {"command", "event"}
    BY <1>1 DEF Descriptors
  <2>2. "command" # Invalid /\ "event" # Invalid
    BY AreStrings, Distinct
  <2> QED
    BY <1>2, <2>1, <2>2 DEF decode_kind
<1>6. MessageName_new(b.message_name) = m.descriptor.name
  BY <1>1, <1>2, NamePrefix
<1>7. MessageSchemaVersion_new(b.message_schema_version) = m.descriptor.schema_version
  BY <1>1, <1>2 DEF MessageSchemaVersion_new
<1>8. parse_emitted_at(b.emitted_at) = m.emitted_at /\ m.emitted_at # Invalid
  <2>1. m.emitted_at # Invalid
    BY <1>1, Distinct, MessageCodecAssumption
  <2> QED
    BY <1>1, <1>2, <2>1, TimestampRoundTrip
<1>9. decode_authority(b.source) = m.source /\ m.source # Invalid
  BY <1>1, <1>2, AuthorityRoundTrip
<1>10. decode_scope(b.scope) = m.scope /\ m.scope # Invalid
  BY <1>1, <1>2, ScopeRoundTrip, Distinct
<1>11. decode_optional_target(b.target) = m.target /\ m.target # Invalid
  <2>1. CASE m.target = None
    BY <1>2, <2>1, Distinct DEF decode_optional_target
  <2>2. CASE m.target \in Authorities
    BY <1>2, <2>2, AuthorityRoundTrip DEF decode_optional_target
  <2> QED
    BY <1>1, <2>1, <2>2 DEF Optional
<1>12. decode_optional_message_id(b.causation_id) = m.causation_id /\ m.causation_id # Invalid
  <2>1. CASE m.causation_id = None
    BY <1>2, <2>1, Distinct DEF decode_optional_message_id
  <2>2. CASE m.causation_id \in Uuids
    <3>1. b.causation_id = uuid_text(m.causation_id)
      BY <1>2, <1>3, <2>2
    <3>2. b.causation_id \in UuidTexts
      BY <2>2, <3>1, AreStrings DEF uuid_text, UuidTexts, Uuids
    <3>3. b.causation_id # None
      BY <3>2, Distinct
    <3> QED
      BY <1>3, <2>2, <3>1, <3>3, UuidRoundTrip DEF decode_optional_message_id
  <2> QED
    BY <1>1, <2>1, <2>2 DEF Optional
<1>13. PartsAreValid(b)
  BY <1>1, <1>2, <1>3, <1>4, <1>5, <1>6, <1>7, <1>8, <1>9, <1>10, <1>11, <1>12 DEF PartsAreValid, DecodeEnvelope
<1>14. Parts(b) = m
  <2>1. m.descriptor = [kind |-> m.descriptor.kind, name |-> m.descriptor.name, schema_version |-> m.descriptor.schema_version]
    BY <1>1 DEF Descriptors
  <2>2. m = [message_id |-> m.message_id, descriptor |-> m.descriptor, emitted_at |-> m.emitted_at,
             source |-> m.source, scope |-> m.scope, target |-> m.target,
             correlation_id |-> m.correlation_id, causation_id |-> m.causation_id]
    BY <1>1 DEF Metadatas
  <2>3. Parts(b) = [message_id |-> m.message_id,
                    descriptor |-> [kind |-> m.descriptor.kind, name |-> m.descriptor.name,
                                    schema_version |-> m.descriptor.schema_version],
                    emitted_at |-> m.emitted_at, source |-> m.source, scope |-> m.scope, target |-> m.target,
                    correlation_id |-> m.correlation_id, causation_id |-> m.causation_id]
    BY <1>4, <1>5, <1>6, <1>7, <1>8, <1>9, <1>10, <1>11, <1>12 DEF Parts, ContractDescriptor
  <2> QED
    BY <2>1, <2>2, <2>3
<1>15. parse(b) = m
  BY <1>1, <1>13, <1>14, Parsed, MetadataNew
<1>16. m # Invalid /\ SizeIsLegal(envelope_size(b)) /\ envelope_size(b) \in Nat
  BY <1>1, Distinct, EncodedSize DEF b
<1>17. ~(envelope_size(b) > MAX_ENCODED_MESSAGE_BYTES)
  <2>1. MAX_ENCODED_MESSAGE_BYTES \in Nat
    BY SMT DEF MAX_ENCODED_MESSAGE_BYTES
  <2> QED
    BY <1>16, <2>1 DEF SizeIsLegal
<1> QED
  BY <1>15, <1>16, <1>17 DEF decode_envelope, EncodedMessage_new, SizeIsLegal, b

\* Names and values of the headers are short.
LEMMA ShortHeaders ==
  ASSUME NEW kind \in {"command", "event"},
         NEW text \in {"NATS/1.0", "Nats-Msg-Id", "Nats-Expected-Stream", "Content-Type", stream_name(kind),
                      MESSAGE_CONTENT_TYPE}
  PROVE  Len(text) \in Nat /\ 1 <= Len(text) /\ Len(text) <= 50
<1> DEFINE n == Len(text)
<1>1. n \in 1..50
  BY Literals
<1> HIDE DEF n
<1>2. n \in Nat /\ 1 <= n /\ n <= 50
  BY <1>1
<1> QED
  BY <1>2 DEF n

\* The headers of a publication.
LEMMA HeadersOf ==
  ASSUME NEW m
  PROVE  LET hs == publish_headers(m)
             stream == stream_name(m.descriptor.kind)
         IN  /\ DOMAIN hs = 1..3 /\ Len(hs) = 3
             /\ hs[1].name = "Nats-Msg-Id" /\ hs[1].bytes = 36 /\ hs[1].value = uuid_text(m.message_id)
             /\ hs[2].name = "Nats-Expected-Stream" /\ hs[2].bytes = Len(stream) /\ hs[2].value = stream
             /\ hs[3].name = "Content-Type" /\ hs[3].bytes = Len(MESSAGE_CONTENT_TYPE)
             /\ hs[3].value = MESSAGE_CONTENT_TYPE
  BY DEF publish_headers, Header

\* The header block of a publication is short: a message of the largest size
\* still fits the stream.
LEMMA FitsStream ==
  ASSUME NEW m \in Metadatas, NEW bytes, envelope_size(bytes) \in Nat, SizeIsLegal(envelope_size(bytes))
  PROVE  fits_stream([subject |-> TransportSubject_derive(m), stream |-> stream_name(m.descriptor.kind),
                      headers |-> publish_headers(m), payload |-> bytes])
<1> DEFINE p == [subject |-> TransportSubject_derive(m), stream |-> stream_name(m.descriptor.kind),
                 headers |-> publish_headers(m), payload |-> bytes]
           hs == publish_headers(m)
           line(h) == Len(h.name) + h.bytes + 4
           sizes == [i \in DOMAIN hs |-> line(hs[i])]
           stream == stream_name(m.descriptor.kind)
           l0 == Len("NATS/1.0")
           l1 == Len("Nats-Msg-Id")
           l2 == Len("Nats-Expected-Stream")
           l3 == Len("Content-Type")
           b2 == Len(stream)
           b3 == Len(MESSAGE_CONTENT_TYPE)
<1>1. m.descriptor.kind \in {"command", "event"}
  BY NamedParts
<1>3. /\ DOMAIN hs = 1..3
      /\ hs[1].name = "Nats-Msg-Id" /\ hs[1].bytes = 36
      /\ hs[2].name = "Nats-Expected-Stream" /\ hs[2].bytes = Len(stream)
      /\ hs[3].name = "Content-Type" /\ hs[3].bytes = Len(MESSAGE_CONTENT_TYPE)
  BY HeadersOf
<1>4. p.headers = hs /\ p.payload = bytes
  OBVIOUS
<1>5. fits_stream(p) <=> Len("NATS/1.0") + 4 + Total(sizes) + envelope_size(bytes) <= MAX_MESSAGE_SIZE
  BY <1>4 DEF fits_stream
<1>6. /\ l0 \in Nat /\ l0 <= 50 /\ l1 \in Nat /\ l1 <= 50 /\ l2 \in Nat /\ l2 <= 50 /\ l3 \in Nat /\ l3 <= 50
      /\ b2 \in Nat /\ b2 <= 50 /\ b3 \in Nat /\ b3 <= 50
  BY <1>1, ShortHeaders
<1> HIDE DEF hs
<1>7. /\ sizes = [i \in 1..3 |-> sizes[i]]
      /\ sizes[1] = l1 + 36 + 4 /\ sizes[2] = l2 + b2 + 4 /\ sizes[3] = l3 + b3 + 4
  <2>1. line(hs[1]) = l1 + 36 + 4 /\ line(hs[2]) = l2 + b2 + 4 /\ line(hs[3]) = l3 + b3 + 4
    BY <1>3, Zenon
  <2> HIDE DEF line, l1, l2, l3, b2, b3
  <2>2. sizes = [i \in 1..3 |-> line(hs[i])]
    BY <1>3
  <2> QED
    BY <2>1, <2>2
<1> HIDE DEF l0, l1, l2, l3, b2, b3, sizes
<1> DEFINE most == 104
<1>8. \A i \in 1..3 : sizes[i] \in Nat /\ sizes[i] <= most
  <2>1. sizes[1] \in Nat /\ sizes[1] <= most
    BY <1>6, <1>7
  <2>2. sizes[2] \in Nat /\ sizes[2] <= most
    BY <1>6, <1>7
  <2>3. sizes[3] \in Nat /\ sizes[3] <= most
    BY <1>6, <1>7
  <2> QED
    BY <2>1, <2>2, <2>3
<1>m. most \in Nat /\ 3 * most = 312
  OBVIOUS
<1> HIDE DEF most
<1>9. Len(sizes) = 3
  BY <1>7, <1>8
<1>10. Total(sizes) \in Nat /\ Total(sizes) <= 3 * most
  <2>1. \A i \in 1..Len(sizes) : sizes[i] \in 0..most
    BY <1>8, <1>9, <1>m
  <2>2. Len(sizes) \in 0..8
    BY <1>9
  <2>3. Total(sizes) \in Nat /\ Total(sizes) <= Len(sizes) * most
    <3>1. 0 \in Nat /\ most \in Nat
      BY <1>m
    <3> QED
      BY <2>1, <2>2, <3>1, TotalBounds, Zenon
  <2> QED
    BY <1>9, <2>3
<1> DEFINE total == Total(sizes)
<1>11. total \in Nat /\ total <= 312
  BY <1>10, <1>m
<1> HIDE DEF total
<1>12. envelope_size(bytes) <= 262144
  BY DEF SizeIsLegal, MAX_ENCODED_MESSAGE_BYTES
<1>13. l0 + 4 + total + envelope_size(bytes) <= MAX_MESSAGE_SIZE
  BY <1>6, <1>11, <1>12, SMT DEF MAX_MESSAGE_SIZE
<1> QED
  BY <1>5, <1>13 DEF l0, total

\* What is published of a message in order is accepted as that message.
LEMMA PublishedIsAccepted ==
  ASSUME NEW m, InOrder(m), NEW bytes, decode_envelope(bytes) = [metadata |-> m, bytes |-> bytes],
         [metadata |-> m, bytes |-> bytes] # Invalid,
         TransportSubject_derive(m) # Invalid
  PROVE  accept_delivery([subject |-> TransportSubject_derive(m), stream |-> stream_name(m.descriptor.kind),
                          headers |-> publish_headers(m), payload |-> bytes]) = [metadata |-> m, bytes |-> bytes]
<1> DEFINE stream == stream_name(m.descriptor.kind)
           hs == publish_headers(m)
           d == [subject |-> TransportSubject_derive(m), stream |-> stream, headers |-> hs, payload |-> bytes]
           message == [metadata |-> m, bytes |-> bytes]
<1>1. m.descriptor.kind \in {"command", "event"} /\ m.message_id \in Uuids
  BY NamedParts DEF InOrder
<1>2. ASSUME NEW text \in {stream, "Nats-Msg-Id", "Nats-Expected-Stream", "Content-Type", MESSAGE_CONTENT_TYPE}
      PROVE  Len(text) \in Nat /\ 1 <= Len(text) /\ Len(text) <= 50
  BY <1>1, ShortHeaders
<1>3. /\ DOMAIN hs = 1..3 /\ Len(hs) = 3
      /\ hs[1].name = "Nats-Msg-Id" /\ hs[1].bytes = 36 /\ hs[1].value = uuid_text(m.message_id)
      /\ hs[2].name = "Nats-Expected-Stream" /\ hs[2].bytes = Len(stream) /\ hs[2].value = stream
      /\ hs[3].name = "Content-Type" /\ hs[3].bytes = Len(MESSAGE_CONTENT_TYPE) /\ hs[3].value = MESSAGE_CONTENT_TYPE
  BY HeadersOf
<1>4. d.subject = TransportSubject_derive(m) /\ d.stream = stream /\ d.headers = hs /\ d.payload = bytes
      /\ message.metadata = m
  OBVIOUS
<1> HIDE DEF stream, hs, d, message
<1>5. InboundHeaderSet_from_pairs(hs)
  <2>1. ASSUME NEW text, Len(text) \in Nat /\ 1 <= Len(text) /\ Len(text) <= 50
        PROVE  Len(text) \in 1..128 /\ Len(text) <= 512
    <3> DEFINE n == Len(text)
    <3>1. n \in Nat /\ 1 <= n /\ n <= 50
      BY <2>1
    <3> HIDE DEF n
    <3>2. n \in 1..128 /\ n <= 512
      BY <3>1
    <3> QED
      BY <3>2 DEF n
  <2>2. Len(hs[1].name) \in 1..128 /\ hs[1].bytes <= 512
    BY <1>2, <1>3, <2>1
  <2>3. Len(hs[2].name) \in 1..128 /\ hs[2].bytes <= 512
    BY <1>2, <1>3, <2>1
  <2>4. Len(hs[3].name) \in 1..128 /\ hs[3].bytes <= 512
    BY <1>2, <1>3, <2>1
  <2>5. \A i \in DOMAIN hs : Len(hs[i].name) \in 1..128 /\ hs[i].bytes <= 512
    BY <1>3, <2>2, <2>3, <2>4
  <2> QED
    BY <1>3, <2>5 DEF InboundHeaderSet_from_pairs
<1>6. Named(hs, "Nats-Msg-Id") = {1} /\ Named(hs, "Nats-Expected-Stream") = {2} /\ Named(hs, "Content-Type") = {3}
  BY <1>3 DEF Named
<1>7. validate_headers(hs, message, stream)
  <2>1. \A i \in DOMAIN hs : is_known_delivery_header(hs[i].name)
    BY <1>3 DEF is_known_delivery_header, to_ascii_lowercase
  <2>2. 1 \in DOMAIN hs /\ 2 \in DOMAIN hs /\ 3 \in DOMAIN hs
    BY <1>3
  <2>3. exactly_one(hs, "Nats-Msg-Id") /\ exactly_one(hs, "Nats-Expected-Stream") /\ exactly_one(hs, "Content-Type")
    BY <1>6, <2>2 DEF exactly_one
  <2>4. uuid_from_str(hs[1].value) = message.metadata.message_id
    BY <1>1, <1>3, <1>4, UuidRoundTrip
  <2> QED
    BY <1>3, <1>6, <2>1, <2>3, <2>4 DEF validate_headers, optional_one
<1>8. decode_envelope(bytes) = message /\ message # Invalid
  BY DEF message
<1>9. accept_delivery(d) = message
  BY <1>4, <1>5, <1>7, <1>8 DEF accept_delivery, stream
<1> QED
  BY <1>9 DEF d, message, hs, stream

\* The messages that are looked at keep the types of the message domain.
MessageInput ==
  /\ "about" \in DOMAIN input
  /\ input.about = "message" =>
       input \in [about : {"message"}, metadata : Metadatas, payload : PayloadTexts]

\* An edit of one part leaves metadata of the right type.
LEMMA EditedMetadata ==
  ASSUME NEW m \in Metadatas, NEW part \in DOMAIN MetadataParts, NEW v \in MetadataParts[part]
  PROVE  (IF part \in {"kind", "name", "schema_version"} THEN [m EXCEPT !.descriptor[part] = v]
          ELSE [m EXCEPT ![part] = v]) \in Metadatas
<1>1. part \in {"message_id", "kind", "name", "schema_version", "emitted_at", "source", "scope", "target", "causation_id"}
  BY DEF MetadataParts
<1>2. CASE part \in {"kind", "name", "schema_version"}
  <2> DEFINE d == [m.descriptor EXCEPT ![part] = v]
  <2>0. m.descriptor \in Descriptors
    BY DEF Metadatas
  <2>1. d \in Descriptors
    BY <1>2, <2>0 DEF Descriptors, MetadataParts
  <2> HIDE DEF d
  <2>2. [m EXCEPT !.descriptor = d] \in Metadatas
    BY <2>1 DEF Metadatas
  <2> QED
    BY <1>2, <2>2 DEF d
<1>3. CASE part \in {"message_id", "emitted_at", "source"}
  BY <1>3 DEF Metadatas, MetadataParts
<1>4. CASE part \in {"scope", "target", "causation_id"}
  BY <1>4 DEF Metadatas, MetadataParts
<1> QED
  BY <1>1, <1>2, <1>3, <1>4

\* The messages that are looked at stay typed through every edit.
LEMMA MessageInputInvariant == BoundarySpec => []MessageInput
<1>1. BoundaryInit => MessageInput
  <2> SUFFICES ASSUME BoundaryInit PROVE MessageInput
    OBVIOUS
  <2>1. "about" \in DOMAIN input
    BY DEF BoundaryInit
  <2>2. ASSUME input.about = "message"
        PROVE  \E m \in Metadata, p \in Payloads :
                 input = [about |-> "message", metadata |-> m, payload |-> p]
    BY <2>2 DEF BoundaryInit
  <2>3. ASSUME input.about = "message"
        PROVE  input \in [about : {"message"}, metadata : Metadatas, payload : PayloadTexts]
    <3>1. Metadata \subseteq Metadatas /\ Payloads \subseteq PayloadTexts
      BY MessagesAssumption
    <3> QED
      BY <2>2, <2>3, <3>1
  <2> QED
    BY <2>1, <2>3 DEF MessageInput
<1>2. MessageInput /\ [BoundaryNext]_boundary_vars => MessageInput'
  <2> SUFFICES ASSUME MessageInput, [BoundaryNext]_boundary_vars, input'.about = "message" PROVE MessageInput'
    BY StepsByKind DEF MessageInput
  <2>1. /\ "about" \in DOMAIN input' /\ input.about = "message"
        /\ input \in [about : {"message"}, metadata : Metadatas, payload : PayloadTexts]
    BY StepsByKind DEF MessageInput
  <2>2. ASSUME NEW part \in DOMAIN MetadataEdits, NEW v \in MetadataEdits[part], EditMetadata(part, v)
        PROVE  MessageInput'
    <3> DEFINE m == input.metadata
               e == IF part \in {"kind", "name", "schema_version"} THEN [m EXCEPT !.descriptor[part] = v]
                    ELSE [m EXCEPT ![part] = v]
    <3>1. part \in DOMAIN MetadataParts /\ v \in MetadataParts[part]
      BY MessagesAssumption
    <3>2. e \in Metadatas
      BY <2>1, <3>1, EditedMetadata
    <3>3. input' = [input EXCEPT !.metadata = e]
      BY <2>2 DEF EditMetadata
    <3> HIDE DEF e
    <3> QED
      BY <2>1, <3>2, <3>3 DEF MessageInput
  <2>3. ASSUME input' = input PROVE MessageInput'
    BY <2>3 DEF MessageInput
  <2> QED
    BY <2>1, <2>2, <2>3, StepsByKind DEF MessageInput
<1> QED
  BY <1>1, <1>2, PTL DEF BoundarySpec

\* For every message of the domain's types, every payload and every size:
\* what can be constructed and encoded can be stored, comes back from its row,
\* fits the stream and is accepted as it was sent.
THEOREM StoredMessagesAreAccepted == BoundarySpec => []StoredMessageIsAccepted
<1>1. MessageInput => StoredMessageIsAccepted
  <2> SUFFICES ASSUME MessageInput, input.about = "message", Constructed(input.metadata) # Invalid,
                      encode(Constructed(input.metadata), input.payload) # Invalid
               PROVE  LET metadata == Constructed(input.metadata)
                          message == encode(metadata, input.payload)
                          stored == message_from_row(DatabaseMetadata_from_message(message), message.bytes)
                      IN  /\ StoredIn(message)
                          /\ stored = message
                          /\ decode_envelope(message.bytes) = message
                          /\ (TransportSubject_derive(metadata) # Invalid =>
                                /\ fits_stream(publish_exact(stored))
                                /\ accept_delivery(publish_exact(stored)) = message)
    BY Zenon DEF StoredMessageIsAccepted
  <2> DEFINE c == Constructed(input.metadata)
             p == input.payload
             message == encode(c, p)
             b == EncodeEnvelope(c, p)
             made == [metadata |-> c, bytes |-> b]
             stored == message_from_row(DatabaseMetadata_from_message(message), message.bytes)
  <2>1. input.metadata \in Metadatas /\ p \in PayloadTexts
    BY DEF MessageInput
  <2>2. InOrder(c)
    BY <2>1, ConstructedParts
  <2>3. c \in Metadatas /\ envelope_size(b) \in Nat
    BY <2>1, <2>2, EncodedSize DEF InOrder
  <2> HIDE DEF c, p
  <2>4. message = made /\ made \in EncodedMessages /\ p.root = "object" /\ SizeIsLegal(envelope_size(b))
    <3>1. message # Invalid
      BY DEF c, p
    <3> QED
      BY <2>1, <2>3, <3>1, Encoded
  <2>6. decode_envelope(b) = made
    BY <2>1, <2>2, <2>3, <2>4, EnvelopeRoundTrip
  <2> HIDE DEF b
  <2>7. SizeIsLegal(envelope_size(b)) /\ envelope_size(b) \in Nat /\ b \in Envelopes
    BY <2>3, <2>4 DEF EncodedMessages
  <2>8. StoredIn(made)
    <3>1. /\ c \in Metadatas /\ Consistent(c) /\ c.emitted_at >= 0
          /\ MessageSchemaVersion_new(c.descriptor.schema_version) # Invalid
      BY <2>2, MessageCodecAssumption DEF InOrder
    <3> QED
      BY <2>7, <3>1, Storable
  <2>9. message_from_row(DatabaseMetadata_from_message(made), b) = made
    BY <2>2, <2>7, RowRoundTrip
  <2>10. made.bytes = b /\ made # Invalid
    BY <2>4, Distinct
  <2>11. stored = made
    BY <2>4, <2>9, <2>10
  <2>12. ASSUME TransportSubject_derive(c) # Invalid
         PROVE  fits_stream(publish_exact(made)) /\ accept_delivery(publish_exact(made)) = made
    <3> DEFINE d == [subject |-> TransportSubject_derive(c), stream |-> stream_name(c.descriptor.kind),
                     headers |-> publish_headers(c), payload |-> b]
    <3>1. publish_exact(made) = d
      BY <2>2, <2>7, <2>12, Published
    <3>2. fits_stream(d)
      BY <2>3, <2>7, FitsStream
    <3>3. accept_delivery(d) = made
      BY <2>2, <2>6, <2>10, <2>12, PublishedIsAccepted
    <3> QED
      BY <3>1, <3>2, <3>3
  <2> HIDE DEF message, made, stored
  <2>13. /\ StoredIn(message) /\ stored = message /\ decode_envelope(message.bytes) = message
         /\ (TransportSubject_derive(c) # Invalid =>
               fits_stream(publish_exact(stored)) /\ accept_delivery(publish_exact(stored)) = message)
    BY <2>4, <2>6, <2>8, <2>10, <2>11, <2>12
  <2> QED
    BY <2>13 DEF stored, message, c, p
<1> QED
  BY <1>1, MessageInputInvariant, PTL

-----------------------------------------------------------------------------
(* Answers to commands. *)

\* The length of a name of at most eight segments, from the lengths of these.
LEMMA NameLengthBounds ==
  ASSUME NEW name \in Seq(STRING), Len(name) \in 0..8, NEW lo \in Nat, NEW hi \in Nat,
         \A i \in 1..Len(name) : Len(name[i]) \in Nat /\ lo <= Len(name[i]) + 1 /\ Len(name[i]) + 1 <= hi
  PROVE  /\ NameLength(name) \in Int
         /\ Len(name) * lo - 1 <= NameLength(name) /\ NameLength(name) <= Len(name) * hi - 1
<1> DEFINE sizes == [i \in DOMAIN name |-> Len(name[i]) + 1]
           n == Len(name)
<1>1. DOMAIN name = 1..n /\ n \in 0..8
  OBVIOUS
<1>2. \A i \in 1..n : sizes[i] = Len(name[i]) + 1
  BY <1>1
<1>3. \A i \in 1..n : sizes[i] \in Nat /\ sizes[i] \in lo..hi
  <2> SUFFICES ASSUME NEW i \in 1..n PROVE sizes[i] \in Nat /\ sizes[i] \in lo..hi
    OBVIOUS
  <2> DEFINE l == Len(name[i])
  <2>1. l \in Nat /\ lo <= l + 1 /\ l + 1 <= hi
    OBVIOUS
  <2>2. sizes[i] = l + 1
    BY <1>2
  <2> HIDE DEF l, sizes
  <2> QED
    BY <2>1, <2>2
<1>4. sizes = [i \in 1..n |-> sizes[i]]
  BY <1>1
<1>5. NameLength(name) = Total(sizes) - 1
  BY DEF NameLength
<1> HIDE DEF sizes, n
<1>6. Len(sizes) = n
  <2>1. sizes \in [1..n -> Nat]
    BY <1>3, <1>4
  <2> QED
    BY <1>1, <2>1
<1>7. /\ Total(sizes) \in Nat
      /\ Len(sizes) * lo <= Total(sizes) /\ Total(sizes) <= Len(sizes) * hi
  <2>1. Len(sizes) \in 0..8 /\ \A i \in 1..Len(sizes) : sizes[i] \in lo..hi
    BY <1>1, <1>3, <1>6
  <2> QED
    BY <2>1, TotalBounds, Zenon
<1> DEFINE t == Total(sizes)
           x == n * lo
           y == n * hi
<1>8. t \in Nat /\ x <= t /\ t <= y /\ x \in Int /\ y \in Int
  BY <1>1, <1>6, <1>7
<1> HIDE DEF t, x, y
<1>9. t - 1 \in Int /\ x - 1 <= t - 1 /\ t - 1 <= y - 1
  BY <1>8
<1> QED
  BY <1>5, <1>9 DEF t, x, y, n

\* The tokens that the codec names are neither empty nor long.
LEMMA ShortTokens ==
  ASSUME NEW token \in {"edtech", "event", "platform-to-cell", "cell-to-platform", "transport",
                        "cell-probe", "platform-probe", "observed"}
  PROVE  token \in STRING /\ Len(token) \in Nat /\ 5 <= Len(token) /\ Len(token) <= 20
<1> DEFINE n == Len(token)
<1>1. token \in STRING
  BY Literals
<1>2. n \in 5..20
  BY Literals
<1> HIDE DEF n
<1>3. n \in Nat /\ 5 <= n /\ n <= 20
  BY <1>2
<1> QED
  BY <1>1, <1>3 DEF n

\* The contracts of the answers are well formed.
LEMMA ObservedDescriptor ==
  ASSUME NEW authority \in {"platform", "cell"}
  PROVE  LET d == observed_descriptor(authority) IN
         /\ d \in Descriptors /\ d.kind = "event" /\ d.name = ProbeName(authority, "observed")
         /\ MessageName_new(d.name) # Invalid /\ MessageSchemaVersion_new(d.schema_version) # Invalid
<1> DEFINE x == IF authority = "cell" THEN "cell-probe" ELSE "platform-probe"
           name == <<"edtech", "transport", x, "observed">>
           d == [kind |-> "event", name |-> name, schema_version |-> 1]
<1>1. observed_descriptor(authority) = d /\ ProbeName(authority, "observed") = name
  BY DEF observed_descriptor, ContractDescriptor, ProbeName
<1>2. x \in {"cell-probe", "platform-probe"}
  OBVIOUS
<1> HIDE DEF x
<1>3. ASSUME NEW i \in 1..4
      PROVE  name[i] \in {"edtech", "transport", "cell-probe", "platform-probe", "observed"}
  BY <1>2
<1>4. ASSUME NEW i \in 1..4
      PROVE  name[i] \in STRING /\ Len(name[i]) \in Nat /\ 5 <= Len(name[i]) /\ Len(name[i]) <= 20
  <2>1. name[i] \in {"edtech", "transport", "cell-probe", "platform-probe", "observed"}
    BY <1>3
  <2> HIDE DEF name
  <2> QED
    BY <2>1, ShortTokens
<1>5. Len(name) = 4 /\ DOMAIN name = 1..4 /\ name[1] = "edtech" /\ name[4] = "observed"
      /\ name = [i \in 1..4 |-> name[i]]
  OBVIOUS
<1> HIDE DEF name
<1>6. name \in Seq(STRING)
  BY <1>4, <1>5
<1>7. NameLength(name) \in 10..160
  <2> DEFINE lo == 6
             hi == 21
             l == NameLength(name)
  <2>1. lo \in Nat /\ hi \in Nat /\ 4 * lo - 1 >= 10 /\ 4 * hi - 1 <= 160
    OBVIOUS
  <2>2. \A i \in 1..Len(name) : Len(name[i]) \in Nat /\ lo <= Len(name[i]) + 1 /\ Len(name[i]) + 1 <= hi
    <3> SUFFICES ASSUME NEW i \in 1..4
                 PROVE  Len(name[i]) \in Nat /\ lo <= Len(name[i]) + 1 /\ Len(name[i]) + 1 <= hi
      BY <1>5
    <3> DEFINE k == Len(name[i])
    <3>1. k \in Nat /\ 5 <= k /\ k <= 20
      BY <1>4
    <3> HIDE DEF k
    <3>2. k \in Nat /\ lo <= k + 1 /\ k + 1 <= hi
      BY <3>1
    <3> QED
      BY <3>2 DEF k
  <2> HIDE DEF lo, hi, l
  <2>3. Len(name) \in 0..8
    BY <1>5
  <2>4. l \in Int /\ 4 * lo - 1 <= l /\ l <= 4 * hi - 1
    <3>1. l \in Int /\ Len(name) * lo - 1 <= l /\ l <= Len(name) * hi - 1
      BY <1>6, <2>1, <2>2, <2>3, NameLengthBounds, Zenon DEF l
    <3> QED
      BY <1>5, <3>1
  <2>5. l \in 10..160
    BY <2>1, <2>4
  <2> QED
    BY <2>5 DEF l
<1>8. \A i \in 1..4 : Len(name[i]) \in 1..40 /\ name[i] \notin MalformedTokens
  <2> SUFFICES ASSUME NEW i \in 1..4 PROVE Len(name[i]) \in 1..40 /\ name[i] \notin MalformedTokens
    OBVIOUS
  <2> DEFINE k == Len(name[i])
  <2>1. k \in Nat /\ 5 <= k /\ k <= 20
    BY <1>4
  <2> HIDE DEF k
  <2>2. k \in 1..40
    BY <2>1
  <2>3. name[i] \notin MalformedTokens
    BY <1>3 DEF MalformedTokens
  <2> QED
    BY <2>2, <2>3 DEF k
<1>9. ~is_version_suffix(name[Len(name)])
  BY <1>5 DEF is_version_suffix
<1>10. MessageName_new(name) = name
  BY <1>5, <1>7, <1>8, <1>9 DEF MessageName_new
<1>11. name # Invalid
  BY <1>6, Distinct
<1>12. MessageSchemaVersion_new(1) = 1 /\ 1 # Invalid
  BY Distinct, SMT DEF MessageSchemaVersion_new, MAX_SCHEMA_VERSION
<1>13. d \in Descriptors /\ d.kind = "event" /\ d.name = name /\ d.schema_version = 1
  BY <1>6 DEF Descriptors
<1> HIDE DEF d
<1> QED
  BY <1>1, <1>10, <1>11, <1>12, <1>13

\* Every answer has a subject, for every Cell identifier.
LEMMA AnswerSubject ==
  ASSUME NEW authority \in {"platform", "cell"}, NEW direction \in {"platform-to-cell", "cell-to-platform"},
         NEW cell \in CellIds, NEW m, m.descriptor.kind = "event", m.descriptor.name = ProbeName(authority, "observed")
  PROVE  Subject(direction, m, cell) # Invalid
<1> DEFINE x == IF authority = "cell" THEN "cell-probe" ELSE "platform-probe"
           name == <<"edtech", "transport", x, "observed">>
           front == <<"edtech", "v1", "event", direction, cell>>
           rest == <<"transport", x, "observed">>
           tokens == front \o rest
<1>1. m.descriptor.name = name
  BY DEF ProbeName
<1>2. x \in {"cell-probe", "platform-probe"}
  OBVIOUS
<1> HIDE DEF x
<1>3. Tail(name) = rest
  OBVIOUS
<1>5. Subject(direction, m, cell) = IF validate_concrete_subject(tokens) THEN tokens ELSE Invalid
  BY <1>1, <1>3 DEF Subject
<1>6. cell \in STRING /\ Len(cell) \in 3..63 /\ cell \notin MalformedTokens
  BY DEF CellIds
<1> DEFINE short == {"edtech", "event", "platform-to-cell", "cell-to-platform", "transport",
                     "cell-probe", "platform-probe", "observed"}
<1>4. /\ front \in Seq(STRING) /\ Len(front) = 5
      /\ \A i \in 1..5 : front[i] \in short \/ front[i] = "v1" \/ front[i] = cell
      /\ rest \in Seq(STRING) /\ Len(rest) = 3 /\ \A i \in 1..3 : rest[i] \in short
  <2>1. direction \in STRING /\ x \in STRING /\ "transport" \in STRING /\ "observed" \in STRING
    BY <1>2, ShortTokens
  <2> QED
    BY <1>2, <1>6, <2>1, AreStrings
<1> HIDE DEF front, rest
<1>8. /\ Len(tokens) = 8 /\ tokens \in Seq(STRING)
      /\ \A i \in 1..8 : tokens[i] = IF i <= 5 THEN front[i] ELSE rest[i - 5]
  <2>1. front \in Seq(STRING) /\ rest \in Seq(STRING)
    BY <1>4
  <2>2. /\ Len(tokens) = Len(front) + Len(rest) /\ tokens \in Seq(STRING)
        /\ \A i \in 1..Len(front) + Len(rest) : tokens[i] = IF i <= Len(front) THEN front[i] ELSE rest[i - Len(front)]
    BY <2>1, ConcatProperties
  <2> HIDE DEF tokens
  <2> QED
    BY <1>4, <2>2
<1> HIDE DEF tokens, short
<1>7. ASSUME NEW i \in 1..8 PROVE tokens[i] \in short \/ tokens[i] = "v1" \/ tokens[i] = cell
  <2>1. CASE i <= 5
    BY <1>4, <1>8, <2>1
  <2>2. CASE i > 5
    <3>1. i - 5 \in 1..3
      BY <2>2
    <3> QED
      BY <1>4, <1>8, <2>2, <3>1
  <2> QED
    BY <2>1, <2>2
<1> USE DEF short
<1>9. ASSUME NEW i \in 1..8
      PROVE  tokens[i] \in STRING /\ Len(tokens[i]) \in Nat /\ 2 <= Len(tokens[i]) /\ Len(tokens[i]) <= 63
  <2> DEFINE k == Len(tokens[i])
  <2>1. CASE tokens[i] \in short
    <3>1. tokens[i] \in STRING /\ k \in Nat /\ 5 <= k /\ k <= 20
      BY <2>1, ShortTokens
    <3> HIDE DEF k
    <3>2. 2 <= k /\ k <= 63
      BY <3>1
    <3> QED
      BY <3>1, <3>2 DEF k
  <2>2. CASE tokens[i] = "v1"
    <3>1. tokens[i] \in STRING /\ k = 2
      BY <2>2, Literals
    <3> HIDE DEF k
    <3>2. k \in Nat /\ 2 <= k /\ k <= 63
      BY <3>1
    <3> QED
      BY <3>1, <3>2 DEF k
  <2>3. CASE tokens[i] = cell
    <3>1. tokens[i] \in STRING /\ k \in 3..63
      BY <1>6, <2>3
    <3> HIDE DEF k
    <3>2. k \in Nat /\ 2 <= k /\ k <= 63
      BY <3>1
    <3> QED
      BY <3>1, <3>2 DEF k
  <2> QED
    BY <1>7, <2>1, <2>2, <2>3
<1>10. tokens \in Seq(STRING) /\ DOMAIN tokens = 1..8
  BY <1>8
<1>11. NameLength(tokens) \in 1..MAX_SUBJECT_BYTES
  <2> DEFINE lo == 3
             hi == 64
             top == MAX_SUBJECT_BYTES
             l == NameLength(tokens)
  <2>1. lo \in Nat /\ hi \in Nat /\ 8 * lo - 1 >= 1 /\ 8 * hi - 1 <= top /\ top \in Nat
    BY SMT DEF MAX_SUBJECT_BYTES
  <2>2. \A i \in 1..Len(tokens) : Len(tokens[i]) \in Nat /\ lo <= Len(tokens[i]) + 1 /\ Len(tokens[i]) + 1 <= hi
    <3> SUFFICES ASSUME NEW i \in 1..8
                 PROVE  Len(tokens[i]) \in Nat /\ lo <= Len(tokens[i]) + 1 /\ Len(tokens[i]) + 1 <= hi
      BY <1>8
    <3> DEFINE k == Len(tokens[i])
    <3>1. k \in Nat /\ 2 <= k /\ k <= 63
      BY <1>9
    <3> HIDE DEF k
    <3>2. k \in Nat /\ lo <= k + 1 /\ k + 1 <= hi
      BY <3>1
    <3> QED
      BY <3>2 DEF k
  <2> HIDE DEF lo, hi, l, top
  <2>3. Len(tokens) \in 0..8
    BY <1>8
  <2>4. l \in Int /\ 8 * lo - 1 <= l /\ l <= 8 * hi - 1
    <3>1. l \in Int /\ Len(tokens) * lo - 1 <= l /\ l <= Len(tokens) * hi - 1
      BY <1>10, <2>1, <2>2, <2>3, NameLengthBounds, Zenon DEF l
    <3> QED
      BY <1>8, <3>1
  <2>5. l \in 1..top
    BY <2>1, <2>4
  <2> QED
    BY <2>5 DEF l, top
<1>12. \A i \in 1..8 : tokens[i] \notin {"", "star*", "white space"}
  BY <1>6, <1>7 DEF MalformedTokens
<1>13. validate_concrete_subject(tokens)
  BY <1>10, <1>11, <1>12 DEF validate_concrete_subject
<1> QED
  BY <1>5, <1>10, <1>13, Distinct

\* The time at which the model's handlers answer.
LEMMA AnswerTime == EmittedAt_new(1500) \in 0..LastNano /\ EmittedAt_new(1500) # Invalid
<1> DEFINE e == (1500 \div 1000) * 1000
<1>1. 1500 \in 0..LastNano
  BY MessageCodecAssumption, SMT
<1>2. e \in Nat /\ e <= 1500
  BY SMT
<1>3. EmittedAt_new(1500) = e
  BY <1>1 DEF EmittedAt_new
<1> HIDE DEF e
<1>4. e \in 0..LastNano
  BY <1>2, MessageCodecAssumption, SMT
<1> QED
  BY <1>3, <1>4, Distinct, MessageCodecAssumption

\* The metadata of the answer to a tenant's command.
Answer(m, authority) ==
  [message_id |-> Fresh, descriptor |-> observed_descriptor(authority), emitted_at |-> EmittedAt_new(1500),
   source |-> Authority(authority, IF authority = "cell" THEN m.scope.cell_id ELSE None), scope |-> m.scope,
   target |-> None, correlation_id |-> m.correlation_id, causation_id |-> m.message_id]

\* It is in order whenever the command is not itself an answer's twin.
LEMMA AnswerInOrder ==
  ASSUME NEW m \in Metadatas, m.message_id \in Uuids, m.message_id # Fresh, m.scope.kind = "tenant",
         NEW authority \in {"platform", "cell"}
  PROVE  /\ InOrder(Answer(m, authority))
         /\ TransportSubject_derive(Answer(m, authority)) # Invalid
<1> DEFINE d == observed_descriptor(authority)
           t == EmittedAt_new(1500)
           s == Authority(authority, IF authority = "cell" THEN m.scope.cell_id ELSE None)
           a == Answer(m, authority)
<1>1. m.scope \in Scopes /\ m.scope.cell_id \in CellIds /\ m.correlation_id \in Uuids
  BY DEF Metadatas, Scopes
<1>2. /\ d \in Descriptors /\ d.kind = "event" /\ d.name = ProbeName(authority, "observed")
      /\ MessageName_new(d.name) # Invalid /\ MessageSchemaVersion_new(d.schema_version) # Invalid
  BY ObservedDescriptor
<1>3. t \in 0..LastNano /\ EmittedAt_new(t) = t
  <2>1. 1500 \in Int /\ t # Invalid
    BY AnswerTime
  <2> QED
    BY <2>1, AnswerTime, Truncated
<1>4. s \in Authorities /\ s.kind = authority /\ (authority = "cell" => s.cell_id = m.scope.cell_id)
  BY <1>1 DEF Authority, Authorities
<1>5. Fresh \in Uuids
  BY MessagesAssumption DEF Fresh, Uuids
<1>6. a = [message_id |-> Fresh, descriptor |-> d, emitted_at |-> t, source |-> s, scope |-> m.scope,
           target |-> None, correlation_id |-> m.correlation_id, causation_id |-> m.message_id]
  BY DEF Answer
<1> HIDE DEF d, t, s, a
<1>7. /\ a.message_id = Fresh /\ a.descriptor = d /\ a.emitted_at = t /\ a.source = s /\ a.scope = m.scope
      /\ a.target = None /\ a.causation_id = m.message_id
  BY <1>6
<1>8. a \in Metadatas
  <2>1. Fresh \in STRING /\ t \in Int /\ None \in Optional(Authorities) /\ m.message_id \in Optional(Uuids)
    BY <1>3, <1>5, MessageCodecAssumption DEF Uuids, Optional
  <2> QED
    BY <1>1, <1>2, <1>4, <1>6, <2>1 DEF Metadatas
<1>9. Consistent(a)
  BY <1>2, <1>4, <1>7 DEF Consistent
<1>10. InOrder(a)
  BY <1>2, <1>3, <1>5, <1>7, <1>8, <1>9 DEF InOrder
<1>11. a.descriptor.kind = "event" /\ a.descriptor.name = ProbeName(authority, "observed")
  BY <1>2, <1>7
<1>12. CASE authority = "platform"
  <2>1. TransportSubject_derive(a) = Subject("platform-to-cell", a, a.scope.cell_id)
    BY <1>4, <1>7, <1>11, <1>12 DEF TransportSubject_derive
  <2>2. Subject("platform-to-cell", a, a.scope.cell_id) # Invalid
    BY <1>1, <1>7, <1>11, AnswerSubject
  <2> QED
    BY <1>10, <2>1, <2>2 DEF a
<1>13. CASE authority = "cell"
  <2>1. TransportSubject_derive(a) = Subject("cell-to-platform", a, a.source.cell_id)
    BY <1>4, <1>7, <1>11, <1>13 DEF TransportSubject_derive
  <2>2. Subject("cell-to-platform", a, a.source.cell_id) # Invalid
    BY <1>1, <1>4, <1>7, <1>11, <1>13, AnswerSubject
  <2> QED
    BY <1>10, <2>1, <2>2 DEF a
<1> QED
  BY <1>12, <1>13

\* What is answered to an operation is a payload that can be encoded.
LEMMA ObservedPayload ==
  ASSUME NEW u \in Uuids
  PROVE  LET p == observed_new(u) IN
         p \in PayloadTexts /\ p.root = "object" /\ p.size = 80
<1> DEFINE p == observed_new(u)
<1>1. "object" \in STRING /\ "operation_id" \in STRING /\ "accepted" \in STRING
  BY Literals
<1>2. uuid_text(u) \in UuidTexts
  BY AreStrings DEF uuid_text, UuidTexts, Uuids
<1>3. p \in PayloadTexts
  BY <1>1, <1>2 DEF observed_new, PayloadTexts
<1>4. p.root = "object" /\ p.size = 80
  BY DEF observed_new
<1> QED
  BY <1>3, <1>4

\* The answer to a tenant's command is encoded, stored and has a subject.
LEMMA AnswerIsEnqueued ==
  ASSUME NEW m \in Metadatas, m.message_id \in Uuids, m.message_id # Fresh, m.scope.kind = "tenant",
         NEW authority \in {"platform", "cell"}, NEW u \in Uuids
  PROVE  LET encoded == encode(Answer(m, authority), observed_new(u)) IN
         encoded # Invalid /\ StoredIn(encoded) /\ publish_exact(encoded) # Invalid
<1> DEFINE a == Answer(m, authority)
           observed == observed_new(u)
           bytes == EncodeEnvelope(a, observed)
           made == [metadata |-> a, bytes |-> bytes]
<1>1. InOrder(a) /\ TransportSubject_derive(a) # Invalid
  BY AnswerInOrder
<1>2. a \in Metadatas /\ Consistent(a) /\ MessageName_new(a.descriptor.name) # Invalid
  BY <1>1 DEF InOrder
<1>3. observed \in PayloadTexts /\ observed.root = "object" /\ observed.size = 80
  BY ObservedPayload
<1> HIDE DEF a, observed
<1>5. envelope_size(bytes) \in Nat /\ SizeIsLegal(envelope_size(bytes))
  <2>1. /\ envelope_size(bytes) \in Nat /\ 2 <= envelope_size(bytes)
        /\ envelope_size(bytes) <= 1100 + observed.size
    BY <1>2, <1>3, EncodedSize
  <2> QED
    BY <1>3, <2>1, SMT DEF SizeIsLegal, MIN_ENCODED_MESSAGE_BYTES, MAX_ENCODED_MESSAGE_BYTES
<1>4. encode(a, observed) = made /\ made \in EncodedMessages
  BY <1>2, <1>3, <1>5, Encoded
<1> HIDE DEF bytes
<1>6. bytes \in Envelopes /\ made # Invalid
  BY <1>4, Distinct DEF EncodedMessages
<1>7. StoredIn(made)
  <2>1. a.emitted_at >= 0 /\ MessageSchemaVersion_new(a.descriptor.schema_version) # Invalid
    BY <1>1, MessageCodecAssumption DEF InOrder
  <2> QED
    BY <1>2, <1>5, <2>1, Storable
<1>8. publish_exact(made) \in Publications
  BY <1>1, <1>6, Published
<1>9. publish_exact(made) # Invalid
  BY <1>8, Distinct
<1> HIDE DEF made
<1> QED
  BY <1>4, <1>6, <1>7, <1>9 DEF a, observed

\* A handler that does not reject a command enqueues its answer.
LEMMA CommandIsAnswered ==
  ASSUME NEW m \in Metadatas, m.message_id \in Uuids, m.message_id # Fresh,
         NEW b \in Envelopes, NEW authority \in {"platform", "cell"},
         handle_command([metadata |-> m, bytes |-> b], authority, m.scope.cell_id, Fresh, 1500).result # "Rejected"
  PROVE  LET handled == handle_command([metadata |-> m, bytes |-> b], authority, m.scope.cell_id, Fresh, 1500) IN
         /\ handled.result = "Enqueue" /\ StoredIn(handled.answer) /\ publish_exact(handled.answer) # Invalid
<1> DEFINE message == [metadata |-> m, bytes |-> b]
           cell == m.scope.cell_id
           handled == handle_command(message, authority, cell, Fresh, 1500)
           valid == IF authority = "cell" THEN valid_platform_to_cell_command(m, cell)
                    ELSE valid_cell_to_platform_command(m)
           payload == decode_typed(message, requested_descriptor(authority), requested_payload(b.payload))
           a == Answer(m, authority)
           answer == MessageMetadata_new(a)
           observed == observed_new(uuid_from_str(payload.operation_id))
           encoded == IF AnyInvalid(<<EmittedAt_new(1500), answer>>) THEN Invalid ELSE encode(answer, observed)
           refused == [result |-> "Rejected", answer |-> None]
           enqueued == [result |-> IF encoded = Invalid THEN "Fatal" ELSE "Enqueue", answer |-> encoded]
<1>1. message.metadata = m /\ message.bytes = b
  OBVIOUS
<1>2. handled = CASE ~valid -> refused [] valid /\ payload = Invalid -> refused [] OTHER -> enqueued
  BY <1>1 DEF handle_command, answer_metadata, Answer
<1> HIDE DEF message, handled, valid, payload, a, answer, observed, encoded
<1>3. valid /\ payload # Invalid /\ handled = enqueued
  <2>1. handled.result # "Rejected"
    BY DEF handled, message, cell
  <2> QED
    BY <1>2, <2>1
<1>4. m.scope.kind = "tenant"
  BY <1>3 DEF valid, valid_platform_to_cell_command, valid_cell_to_platform_command
<1>7. answer = a /\ a \in Metadatas
  BY <1>4, AnswerInOrder, MetadataNew DEF answer, a, InOrder
<1>8. ~AnyInvalid(<<EmittedAt_new(1500), answer>>)
  <2> DEFINE x == EmittedAt_new(1500)
  <2>1. x # Invalid /\ answer # Invalid
    BY <1>7, AnswerTime, Distinct
  <2> HIDE DEF x
  <2>2. ~AnyInvalid(<<x, answer>>)
    BY <2>1 DEF AnyInvalid
  <2> QED
    BY <2>2 DEF x
<1>9. payload = b.payload /\ requested_payload(b.payload)
  BY <1>1, <1>3 DEF payload, decode_typed
<1>10. uuid_from_str(payload.operation_id) \in Uuids
  <2>1. b.payload \in PayloadTexts
    BY DEF Envelopes
  <2>2. b.payload.operation_id \in UuidTexts /\ uuid_from_str(b.payload.operation_id) # Invalid
    BY <1>9, <2>1 DEF PayloadTexts, requested_payload, operation_id_is_valid
  <2> QED
    BY <1>9, <2>2, UuidRead
<1>11. encoded # Invalid /\ StoredIn(encoded) /\ publish_exact(encoded) # Invalid
  <2> DEFINE e == encode(Answer(m, authority), observed_new(uuid_from_str(payload.operation_id)))
  <2>1. e # Invalid /\ StoredIn(e) /\ publish_exact(e) # Invalid
    BY <1>4, <1>10, AnswerIsEnqueued
  <2>2. encoded = e
    BY <1>7, <1>8 DEF encoded, a, observed
  <2> HIDE DEF e
  <2> QED
    BY <2>1, <2>2
<1>12. handled.result = "Enqueue" /\ handled.answer = encoded
  BY <1>3, <1>11
<1> QED
  BY <1>11, <1>12 DEF handled, message, cell

\* What is accepted is read from the envelope.
LEMMA AcceptedMetadata ==
  ASSUME NEW d \in Publications, accept_delivery(d) # Invalid
  PROVE  LET m == Parts(d.payload) IN
         /\ accept_delivery(d) = [metadata |-> m, bytes |-> d.payload] /\ d.payload \in Envelopes
         /\ m \in Metadatas /\ m.message_id \in Uuids /\ m.message_id = d.payload.message_id[1]
<1>1. d.payload \in Envelopes
  BY DEF Publications
<1>2. accept_delivery(d) = [metadata |-> Parts(d.payload), bytes |-> d.payload] /\ PartsAreValid(d.payload)
  BY AcceptedDelivery, Decoded
<1> QED
  BY <1>1, <1>2, PartsType

\* For every command that comes with an envelope of any shape and headers of
\* any kind: the handler of either authority that does not reject it enqueues
\* an answer that is stored and has a subject, so no command ends a consumer.
THEOREM CommandsCanBeAnswered == BoundarySpec => []EveryCommandCanBeAnswered
<1>1. DeliveryInput => EveryCommandCanBeAnswered
  <2> DEFINE taken == accept_delivery(input.delivery)
             outcome(authority) == handle_command(taken, authority, taken.metadata.scope.cell_id, Fresh, 1500)
  <2> SUFFICES ASSUME DeliveryInput, input.about = "delivery", taken # Invalid,
                      NEW authority \in {"platform", "cell"}, outcome(authority).result # "Rejected"
               PROVE  /\ outcome(authority).result = "Enqueue" /\ StoredIn(outcome(authority).answer)
                      /\ publish_exact(outcome(authority).answer) # Invalid
    BY DEF EveryCommandCanBeAnswered
  <2> DEFINE d == input.delivery
             b == d.payload
             m == Parts(b)
             message == accept_delivery(d)
             made == [metadata |-> m, bytes |-> b]
  <2>1. d \in Publications /\ d.payload.message_id[1] # Fresh
    BY DEF DeliveryInput, Addressed
  <2>2. /\ message = made /\ b \in Envelopes
        /\ m \in Metadatas /\ m.message_id \in Uuids /\ m.message_id # Fresh
    BY <2>1, AcceptedMetadata
  <2> HIDE DEF m, b, d, message
  <2>5. message.metadata = m
    BY <2>2
  <2> DEFINE handled == handle_command(made, authority, m.scope.cell_id, Fresh, 1500)
  <2>6. handled = handle_command(message, authority, message.metadata.scope.cell_id, Fresh, 1500)
    BY <2>2, <2>5
  <2>7. handled.result # "Rejected"
    BY <2>6 DEF message, d
  <2>8. handled.result = "Enqueue" /\ StoredIn(handled.answer) /\ publish_exact(handled.answer) # Invalid
    BY <2>2, <2>7, CommandIsAnswered
  <2> HIDE DEF handled
  <2> QED
    BY <2>6, <2>8 DEF message, d
<1> QED
  BY <1>1, DeliveryInputInvariant, PTL
============================================================================
