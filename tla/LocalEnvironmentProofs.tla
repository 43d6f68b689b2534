----------------------- MODULE LocalEnvironmentProofs -----------------------
(***************************************************************************)
(* Proofs about LocalEnvironment: a disposable command that returns leaves *)
(* only what it failed to remove, an environment that was reported ready   *)
(* stays intact until its down is asked for or its name is given to the    *)
(* other service as well, and evidence that a command could see when it    *)
(* started is replaced only on request, for any number of commands and     *)
(* projects.  The scripts of    *)
(* the commands enter through a few facts on the order of their steps,     *)
(* which are kept by every suffix.                                         *)
(***************************************************************************)
EXTENDS LocalEnvironment, TLAPS

(* Order of steps in what a command has still to do.                       *)

Has(t, X) == \E i \in DOMAIN t : t[i] \in X

Follows(t, X, Y) ==
  \A i \in DOMAIN t : t[i] \in X => \E j \in DOMAIN t : i < j /\ t[j] \in Y

Preceded(t, X, Y) ==
  \A i \in DOMAIN t : t[i] \in X => \E j \in DOMAIN t : j < i /\ t[j] \in Y

Once(t, X) == \A i, j \in DOMAIN t : t[i] \in X /\ t[j] \in X => i = j

Last(t, X) == \A i, j \in DOMAIN t : i < j /\ t[i] \in X => t[j] \in X

Creates(v) == {<<"create", v>>}
Builds(v) == {<<"files", v>>, <<"start", v>>, <<"save", v>>}
Downs(v) == {<<"down", v>>}
Removes(v) == {<<"remove", v>>}
Releases(v) == {<<"remove", v>>, <<"disarm", v>>}
Closing == {"down", "remove", "disarm"} \X Service
Publishes == {"publish"} \X Output

----------------------------------------------------------------------------
(* Suffixes.                                                               *)

\* Positions in a list and in what remains of it.
LEMMA TailIndex ==
  ASSUME NEW S, NEW t \in Seq(S), t # <<>>
  PROVE  /\ Tail(t) \in Seq(S) /\ Head(t) \in S /\ Head(t) = t[1]
         /\ DOMAIN t = 1..Len(t) /\ 1 \in DOMAIN t /\ Len(t) \in Nat
         /\ DOMAIN Tail(t) = 1..(Len(t) - 1)
         /\ \A i \in DOMAIN Tail(t) : i + 1 \in DOMAIN t /\ Tail(t)[i] = t[i + 1]
         /\ \A i \in DOMAIN t : i = 1 \/ (i - 1 \in DOMAIN Tail(t) /\ Tail(t)[i - 1] = t[i])
OBVIOUS

\* A step of the list is the next one or remains.
LEMMA TailHas ==
  ASSUME NEW S, NEW t \in Seq(S), t # <<>>, NEW X
  PROVE  Has(t, X) <=> Head(t) \in X \/ Has(Tail(t), X)
BY TailIndex DEF Has

\* What follows still does, and follows the step that was taken.
LEMMA TailFollows ==
  ASSUME NEW S, NEW t \in Seq(S), t # <<>>, NEW X, NEW Y, Follows(t, X, Y)
  PROVE  Follows(Tail(t), X, Y) /\ (Head(t) \in X => Has(Tail(t), Y))
<1>1. Head(t) \in X => Has(Tail(t), Y)
  <2> SUFFICES ASSUME Head(t) \in X PROVE Has(Tail(t), Y)
    OBVIOUS
  <2>1. PICK j \in DOMAIN t : 1 < j /\ t[j] \in Y
    BY TailIndex DEF Follows
  <2>2. j - 1 \in DOMAIN Tail(t) /\ Tail(t)[j - 1] \in Y
    BY <2>1, TailIndex
  <2> QED
    BY <2>2 DEF Has
<1>2. ASSUME NEW i \in DOMAIN Tail(t), Tail(t)[i] \in X
      PROVE  \E j \in DOMAIN Tail(t) : i < j /\ Tail(t)[j] \in Y
  <2>1. PICK j \in DOMAIN t : i + 1 < j /\ t[j] \in Y
    BY <1>2, TailIndex DEF Follows
  <2>2. j - 1 \in DOMAIN Tail(t) /\ i < j - 1 /\ Tail(t)[j - 1] \in Y
    BY <2>1, TailIndex
  <2> QED
    BY <2>2
<1> QED
  BY <1>1, <1>2 DEF Follows

\* The next step is preceded by nothing.
LEMMA TailPreceded ==
  ASSUME NEW S, NEW t \in Seq(S), t # <<>>, NEW X, NEW Y, Preceded(t, X, Y)
  PROVE  Head(t) \notin X /\ (Head(t) \notin Y => Preceded(Tail(t), X, Y))
<1>1. Head(t) \notin X
  BY TailIndex DEF Preceded
<1>2. ASSUME Head(t) \notin Y, NEW i \in DOMAIN Tail(t), Tail(t)[i] \in X
      PROVE  \E j \in DOMAIN Tail(t) : j < i /\ Tail(t)[j] \in Y
  <2>1. PICK j \in DOMAIN t : j < i + 1 /\ t[j] \in Y
    BY <1>2, TailIndex DEF Preceded
  <2>2. j - 1 \in DOMAIN Tail(t) /\ j - 1 < i /\ Tail(t)[j - 1] \in Y
    BY <1>2, <2>1, TailIndex
  <2> QED
    BY <2>2
<1> QED
  BY <1>1, <1>2 DEF Preceded

\* A step that occurs once does not remain after it was taken.
LEMMA TailOnce ==
  ASSUME NEW S, NEW t \in Seq(S), t # <<>>, NEW X, Once(t, X)
  PROVE  Once(Tail(t), X) /\ (Head(t) \in X => ~Has(Tail(t), X))
<1>1. Head(t) \in X => ~Has(Tail(t), X)
  BY TailIndex DEF Has, Once
<1>2. ASSUME NEW i \in DOMAIN Tail(t), NEW j \in DOMAIN Tail(t), Tail(t)[i] \in X, Tail(t)[j] \in X
      PROVE  i = j
  <2>1. i + 1 = j + 1
    BY <1>2, TailIndex DEF Once
  <2> QED
    BY <2>1, TailIndex
<1> QED
  BY <1>1, <1>2 DEF Once

\* Once cleanup began, only cleanup remains.
LEMMA TailLast ==
  ASSUME NEW S, NEW t \in Seq(S), t # <<>>, NEW X, Last(t, X)
  PROVE  Last(Tail(t), X) /\ (Head(t) \in X => \A i \in DOMAIN Tail(t) : Tail(t)[i] \in X)
<1>1. Head(t) \in X => \A i \in DOMAIN Tail(t) : Tail(t)[i] \in X
  BY TailIndex DEF Last
<1>2. ASSUME NEW i \in DOMAIN Tail(t), NEW j \in DOMAIN Tail(t), i < j, Tail(t)[i] \in X
      PROVE  Tail(t)[j] \in X
  <2>1. i + 1 < j + 1
    BY <1>2, TailIndex
  <2> QED
    BY <1>2, <2>1, TailIndex DEF Last
<1> QED
  BY <1>1, <1>2 DEF Last

----------------------------------------------------------------------------
(* Scripts.                                                                *)

\* What the steps of every command respect: an environment is built after it
\* was created, what was created is removed or handed over, nothing follows
\* but cleanup once cleanup began, and evidence is published once, after its
\* guard.
WellOrdered(t) ==
  /\ t \in Seq(Steps)
  /\ Last(t, Closing)
  /\ \A v \in Service : Follows(t, Creates(v), Releases(v)) /\ Preceded(t, Builds(v), Creates(v))
  /\ Once(t, Publishes)
  /\ \A o \in Output : Preceded(t, {<<"publish", o>>}, {<<"guard", o>>})

HandsOver(v) == {<<"save", v>>, <<"disarm", v>>}

\* A disposable command removes what it builds and hands over nothing.
CleansUp(t) ==
  \A v \in Service :
    /\ Follows(t, {<<"start", v>>}, Downs(v)) /\ Follows(t, {<<"files", v>>}, Removes(v))
    /\ ~Has(t, HandsOver(v))

Spares(t, v) == ~Has(t, Downs(v)) /\ ~Has(t, Removes(v))

\* up completes an environment with its state file, after what spoils it.
UpKind(v) == IF v = "pg" THEN "postgres-up" ELSE "nats-up"
DownKind(v) == IF v = "pg" THEN "postgres-down" ELSE "nats-down"
Final(v) == IF v = "pg" THEN {<<"save", v>>} ELSE {<<"files", v>>}
Spoils(v) == IF v = "pg" THEN {<<"create", v>>, <<"files", v>>} ELSE {<<"create", v>>}
Starts(v) == {<<"start", v>>}

Completes(t, v) == Has(t, Final(v)) /\ Has(t, Starts(v)) /\ Follows(t, Spoils(v), Final(v))

\* postgres::up.
LEMMA ScriptPostgresUp ==
  WellOrdered(postgres_up) /\ Completes(postgres_up, "pg")
    /\ \A v \in Service : Spares(postgres_up, v)
    /\ ~Has(postgres_up, Creates("nats"))
<1> DEFINE t == postgres_up
<1>1. /\ t \in Seq(Steps) /\ DOMAIN t = 1..6
      /\ t[1] = <<"doctor", "pg">> /\ t[2] = <<"create", "pg">> /\ t[3] = <<"files", "pg">>
      /\ t[4] = <<"start", "pg">> /\ t[5] = <<"save", "pg">> /\ t[6] = <<"disarm", "pg">>
  BY DEF postgres_up, Steps, Service
<1> HIDE DEF t
<1>2. Last(t, Closing)
  BY <1>1 DEF Last, Closing
<1>3. \A v \in Service : Follows(t, Creates(v), Releases(v)) /\ Preceded(t, Builds(v), Creates(v))
  BY <1>1 DEF Follows, Preceded, Creates, Releases, Builds
<1>4. ~Has(t, Creates("nats")) /\ \A v \in Service : Spares(t, v)
  BY <1>1 DEF Spares, Has, Downs, Removes, Creates
<1>5. /\ Once(t, Publishes)
      /\ \A o \in Output : Preceded(t, {<<"publish", o>>}, {<<"guard", o>>})
  BY <1>1 DEF Once, Preceded, Publishes
<1>6. Completes(t, "pg")
  <2>1. 5 \in DOMAIN t /\ 4 \in DOMAIN t
    BY <1>1
  <2>2. Has(t, Final("pg")) /\ Has(t, Starts("pg"))
    BY <1>1, <2>1 DEF Has, Final, Starts
  <2>3. Follows(t, Spoils("pg"), Final("pg"))
    BY <1>1, <2>1 DEF Follows, Spoils, Final
  <2> QED
    BY <2>2, <2>3 DEF Completes
<1> QED
  BY <1>1, <1>2, <1>3, <1>4, <1>5, <1>6 DEF WellOrdered, t

\* verify_integration into a temporary directory.
LEMMA ScriptVerifyNats ==
  WellOrdered(verify_integration(nats_verification)) /\ CleansUp(verify_integration(nats_verification))
<1> DEFINE t == verify_integration(nats_verification)
<1>1. t \in Seq(Steps)
  BY DEF verify_integration, nats_verification, Cleanup, Steps, Service, Output
<1>2. /\ DOMAIN t = 1..15
      /\ t[1] = <<"doctor", "pg">> /\ t[2] = <<"doctor", "nats">>
      /\ t[3] = <<"create", "pg">> /\ t[4] = <<"files", "pg">>
      /\ t[5] = <<"create", "nats">> /\ t[6] = <<"files", "nats">>
      /\ t[7] = <<"start", "pg">> /\ t[8] = <<"start", "nats">>
      /\ t[9] = <<"work", "pg">> /\ t[10] = <<"work", "nats">>
      /\ t[11] = <<"work", "nats">> /\ t[12] = <<"down", "nats">>
      /\ t[13] = <<"remove", "nats">> /\ t[14] = <<"down", "pg">>
      /\ t[15] = <<"remove", "pg">>
  BY DEF verify_integration, nats_verification, Cleanup
<1> HIDE DEF t
<1>3. Last(t, Closing)
  BY <1>2 DEF Last, Closing, Service
<1>4. \A v \in Service : Follows(t, Creates(v), Releases(v)) /\ Preceded(t, Builds(v), Creates(v))
  BY <1>2 DEF Follows, Preceded, Creates, Releases, Builds
<1>5. CleansUp(t)
  BY <1>2 DEF CleansUp, HandsOver, Follows, Has, Downs, Removes
<1>6. /\ Once(t, Publishes)
      /\ \A o \in Output : Preceded(t, {<<"publish", o>>}, {<<"guard", o>>})
  BY <1>2 DEF Once, Preceded, Publishes
<1> QED
  BY <1>1, <1>3, <1>4, <1>5, <1>6 DEF WellOrdered, t

\* verify_integration with the output of nats-qualification.
LEMMA ScriptQualifyNats ==
  WellOrdered(verify_integration(nats_qualification)) /\ CleansUp(verify_integration(nats_qualification))
<1> DEFINE t == verify_integration(nats_qualification)
<1>1. t \in Seq(Steps)
  BY DEF verify_integration, nats_qualification, Cleanup, Steps, Service, Output
<1>2. /\ DOMAIN t = 1..17
      /\ t[1] = <<"doctor", "pg">> /\ t[2] = <<"doctor", "nats">>
      /\ t[3] = <<"create", "pg">> /\ t[4] = <<"files", "pg">>
      /\ t[5] = <<"create", "nats">> /\ t[6] = <<"files", "nats">>
      /\ t[7] = <<"start", "pg">> /\ t[8] = <<"start", "nats">>
      /\ t[9] = <<"work", "pg">> /\ t[10] = <<"work", "nats">>
      /\ t[11] = <<"guard", "nats">> /\ t[12] = <<"work", "nats">>
      /\ t[13] = <<"publish", "nats">> /\ t[14] = <<"down", "nats">>
      /\ t[15] = <<"remove", "nats">> /\ t[16] = <<"down", "pg">>
      /\ t[17] = <<"remove", "pg">>
  BY DEF verify_integration, nats_qualification, Cleanup
<1> HIDE DEF t
<1>3. Last(t, Closing)
  BY <1>2 DEF Last, Closing, Service
<1>4. \A v \in Service : Follows(t, Creates(v), Releases(v)) /\ Preceded(t, Builds(v), Creates(v))
  BY <1>2 DEF Follows, Preceded, Creates, Releases, Builds
<1>5. CleansUp(t)
  BY <1>2 DEF CleansUp, HandsOver, Follows, Has, Downs, Removes
<1>6. /\ Once(t, Publishes)
      /\ \A o \in Output : Preceded(t, {<<"publish", o>>}, {<<"guard", o>>})
  BY <1>2 DEF Once, Preceded, Publishes
<1> QED
  BY <1>1, <1>3, <1>4, <1>5, <1>6 DEF WellOrdered, t

\* nats::up.
LEMMA ScriptNatsUp ==
  WellOrdered(nats_up) /\ Completes(nats_up, "nats")
    /\ \A v \in Service : Spares(nats_up, v)
    /\ ~Has(nats_up, Creates("pg"))
<1> DEFINE t == nats_up
<1>1. t \in Seq(Steps)
  BY DEF nats_up, Steps, Service
<1>2. /\ DOMAIN t = 1..5
      /\ t[1] = <<"doctor", "nats">> /\ t[2] = <<"create", "nats">> /\ t[3] = <<"files", "nats">>
      /\ t[4] = <<"start", "nats">> /\ t[5] = <<"disarm", "nats">>
  BY DEF nats_up
<1> HIDE DEF t
<1>3. Last(t, Closing)
  BY <1>2 DEF Last, Closing, Service
<1>4. \A v \in Service : Follows(t, Creates(v), Releases(v)) /\ Preceded(t, Builds(v), Creates(v))
  BY <1>2 DEF Follows, Preceded, Creates, Releases, Builds
<1>5. ~Has(t, Creates("pg")) /\ \A v \in Service : Spares(t, v)
  BY <1>2 DEF Spares, Has, Downs, Removes, Creates
<1>6. /\ Once(t, Publishes)
      /\ \A w \in Output : Preceded(t, {<<"publish", w>>}, {<<"guard", w>>})
  BY <1>2 DEF Once, Preceded, Publishes
<1>7. Completes(t, "nats")
  <2>1. 3 \in DOMAIN t /\ 4 \in DOMAIN t
    BY <1>2
  <2>2. Has(t, Final("nats")) /\ Has(t, Starts("nats"))
    BY <1>2, <2>1 DEF Has, Final, Starts
  <2>3. Follows(t, Spoils("nats"), Final("nats"))
    BY <1>2, <2>1 DEF Follows, Spoils, Final
  <2> QED
    BY <2>2, <2>3 DEF Completes
<1> QED
  BY <1>1, <1>3, <1>4, <1>5, <1>6, <1>7 DEF WellOrdered, t

\* down: the cleanup of one service, or nothing.
LEMMA ScriptDown ==
  ASSUME NEW v \in Service, NEW t \in {Cleanup(v), <<>>}
  PROVE  /\ WellOrdered(t) /\ \A w \in Service \ {v} : Spares(t, w)
         /\ \A w \in Service : ~Has(t, Creates(w))
<1>1. t \in Seq(Steps)
  <2>1. Cleanup(v) \in Seq(Steps)
    BY DEF Cleanup, Steps
  <2>2. <<>> \in Seq(Steps)
    OBVIOUS
  <2>3. t = Cleanup(v) \/ t = <<>>
    OBVIOUS
  <2> QED
    BY ONLY <2>1, <2>2, <2>3, Zenon
<1>2. DOMAIN t \subseteq 1..2 /\ \A i \in DOMAIN t : t[i] \in {<<"down", v>>, <<"remove", v>>}
  BY DEF Cleanup
<1>3. Last(t, Closing)
  BY <1>2 DEF Last, Closing, Service
<1>4. \A w \in Service : Follows(t, Creates(w), Releases(w)) /\ Preceded(t, Builds(w), Creates(w))
  BY <1>2 DEF Follows, Preceded, Creates, Releases, Builds
<1>5. /\ \A w \in Service \ {v} : Spares(t, w)
      /\ \A w \in Service : ~Has(t, Creates(w))
  BY <1>2 DEF Spares, Has, Downs, Removes, Creates
<1>6. /\ Once(t, Publishes)
      /\ \A w \in Output : Preceded(t, {<<"publish", w>>}, {<<"guard", w>>})
  BY <1>2 DEF Once, Preceded, Publishes
<1> QED
  BY <1>1, <1>3, <1>4, <1>5, <1>6 DEF WellOrdered

\* migrate-local and provision-nats-local build and remove nothing.
LEMMA ScriptWork ==
  ASSUME NEW t \in {migrate_local, provision_local}
  PROVE  WellOrdered(t) /\ \A v \in Service : Spares(t, v) /\ ~Has(t, Creates(v))
<1>1. t \in Seq(Steps)
  <2>1. migrate_local \in Seq(Steps)
    BY DEF migrate_local, Steps, Service
  <2>2. provision_local \in Seq(Steps)
    BY DEF provision_local, Steps, Service
  <2> QED
    BY <2>1, <2>2
<1>2. DOMAIN t = 1..2 /\ \A i \in DOMAIN t : t[i] \in {"open", "work"} \X Service
  BY DEF migrate_local, provision_local, Service
<1>3. Last(t, Closing)
  BY <1>2 DEF Last, Closing, Service
<1>4. \A v \in Service : Follows(t, Creates(v), Releases(v)) /\ Preceded(t, Builds(v), Creates(v))
  BY <1>2 DEF Follows, Preceded, Creates, Releases, Builds
<1>5. \A v \in Service : Spares(t, v) /\ ~Has(t, Creates(v))
  BY <1>2 DEF Spares, Has, Downs, Removes, Creates
<1>6. /\ Once(t, Publishes)
      /\ \A w \in Output : Preceded(t, {<<"publish", w>>}, {<<"guard", w>>})
  BY <1>2 DEF Once, Preceded, Publishes
<1> QED
  BY <1>1, <1>3, <1>4, <1>5, <1>6 DEF WellOrdered

\* verify and verify_message_store.
LEMMA ScriptPostgresVerify ==
  WellOrdered(postgres_verify) /\ CleansUp(postgres_verify)
<1> DEFINE t == postgres_verify
<1>1. t \in Seq(Steps)
  BY DEF postgres_verify, run_disposable, Cleanup, Steps, Service
<1>2. /\ DOMAIN t = 1..8
      /\ t[1] = <<"doctor", "pg">> /\ t[2] = <<"create", "pg">> /\ t[3] = <<"files", "pg">>
      /\ t[4] = <<"start", "pg">> /\ t[5] = <<"work", "pg">> /\ t[6] = <<"work", "pg">>
      /\ t[7] = <<"down", "pg">> /\ t[8] = <<"remove", "pg">>
  BY DEF postgres_verify, run_disposable, Cleanup
<1> HIDE DEF t
<1>3. Last(t, Closing)
  BY <1>2 DEF Last, Closing, Service
<1>4. \A v \in Service : Follows(t, Creates(v), Releases(v)) /\ Preceded(t, Builds(v), Creates(v))
  BY <1>2 DEF Follows, Preceded, Creates, Releases, Builds
<1>5. CleansUp(t)
  BY <1>2 DEF CleansUp, HandsOver, Follows, Has, Downs, Removes
<1>6. /\ Once(t, Publishes)
      /\ \A w \in Output : Preceded(t, {<<"publish", w>>}, {<<"guard", w>>})
  BY <1>2 DEF Once, Preceded, Publishes
<1> QED
  BY <1>1, <1>3, <1>4, <1>5, <1>6 DEF WellOrdered, t

\* qualify and qualify_message_store.
LEMMA ScriptQualify ==
  ASSUME NEW o \in {"tenancy", "message"}
  PROVE  LET t == <<<<"doctor", "pg">>, <<"guard", o>>>> \o run_disposable(<<<<"publish", o>>>>)
         IN  WellOrdered(t) /\ CleansUp(t)
<1> DEFINE t == <<<<"doctor", "pg">>, <<"guard", o>>>> \o run_disposable(<<<<"publish", o>>>>)
<1> SUFFICES WellOrdered(t) /\ CleansUp(t)
  OBVIOUS
<1>1. t \in Seq(Steps)
  BY DEF run_disposable, Cleanup, Steps, Service, Output
<1>2. /\ DOMAIN t = 1..9
      /\ t[1] = <<"doctor", "pg">> /\ t[2] = <<"guard", o>> /\ t[3] = <<"create", "pg">>
      /\ t[4] = <<"files", "pg">> /\ t[5] = <<"start", "pg">> /\ t[6] = <<"work", "pg">>
      /\ t[7] = <<"publish", o>> /\ t[8] = <<"down", "pg">> /\ t[9] = <<"remove", "pg">>
  BY DEF run_disposable, Cleanup
<1> HIDE DEF t
<1>3. Last(t, Closing)
  BY <1>2 DEF Last, Closing, Service
<1>4. \A v \in Service : Follows(t, Creates(v), Releases(v)) /\ Preceded(t, Builds(v), Creates(v))
  BY <1>2 DEF Follows, Preceded, Creates, Releases, Builds
<1>5. CleansUp(t)
  BY <1>2 DEF CleansUp, HandsOver, Follows, Has, Downs, Removes
<1>6. /\ Once(t, Publishes)
      /\ \A w \in Output : Preceded(t, {<<"publish", w>>}, {<<"guard", w>>})
  BY <1>2 DEF Once, Preceded, Publishes
<1> QED
  BY <1>1, <1>3, <1>4, <1>5, <1>6 DEF WellOrdered

\* Cleanup after an error: the prepared environments and no others.
LEMMA UnwindSteps ==
  ASSUME NEW A \in SUBSET Service
  PROVE  /\ WellOrdered(Unwind(A)) /\ CleansUp(Unwind(A))
         /\ \A v \in A : Has(Unwind(A), Downs(v)) /\ Has(Unwind(A), Removes(v))
                        /\ Has(Unwind(A), Releases(v))
         /\ \A v \in Service \ A : Spares(Unwind(A), v)
         /\ ~Has(Unwind(A), Publishes) /\ \A v \in Service : ~Has(Unwind(A), Creates(v))
<1> DEFINE t == Unwind(A)
           Pair(i, v) == t[i] = <<"down", v>> /\ t[i + 1] = <<"remove", v>>
<1>1. /\ t \in Seq(Steps)
      /\ \A i \in DOMAIN t : \E v \in A : t[i] \in {<<"down", v>>, <<"remove", v>>}
      /\ \A v \in A : \E i, j \in DOMAIN t : t[i] = <<"down", v>> /\ t[j] = <<"remove", v>>
  <2>1. CASE A = {"pg", "nats"}
    <3>1. t \in Seq(Steps) /\ DOMAIN t = 1..4 /\ Pair(1, "nats") /\ Pair(3, "pg")
      BY <2>1 DEF Unwind, Cleanup, Steps, Service
    <3> HIDE DEF t
    <3>2. \A i \in DOMAIN t : \E v \in A : t[i] \in {<<"down", v>>, <<"remove", v>>}
      <4>1. \A i \in DOMAIN t : i = 1 \/ i = 2 \/ i = 3 \/ i = 4
        BY <3>1
      <4>2. \A i \in DOMAIN t : \E v \in {"pg", "nats"} : t[i] = <<"down", v>> \/ t[i] = <<"remove", v>>
        BY <3>1, <4>1
      <4> QED
        BY <2>1, <4>2
    <3>3. 1 \in DOMAIN t /\ 2 \in DOMAIN t /\ 3 \in DOMAIN t /\ 4 \in DOMAIN t
      BY <3>1
    <3> QED
      BY <2>1, <3>1, <3>2, <3>3
  <2>2. ASSUME NEW w, A = {w}, t \in Seq(Steps), DOMAIN t = 1..2, Pair(1, w)
        PROVE  /\ \A i \in DOMAIN t : \E v \in A : t[i] \in {<<"down", v>>, <<"remove", v>>}
               /\ \A v \in A : \E i, j \in DOMAIN t : t[i] = <<"down", v>> /\ t[j] = <<"remove", v>>
    <3> HIDE DEF t
    <3>1. 1 \in DOMAIN t /\ 2 \in DOMAIN t
      BY <2>2
    <3> QED
      BY <2>2, <3>1
  <2>3. CASE A = {"pg"}
    <3>1. t \in Seq(Steps) /\ DOMAIN t = 1..2 /\ Pair(1, "pg")
      BY <2>3 DEF Unwind, Cleanup, Steps, Service
    <3> QED
      BY <2>2, <2>3, <3>1
  <2>4. CASE A = {"nats"}
    <3>1. t \in Seq(Steps) /\ DOMAIN t = 1..2 /\ Pair(1, "nats")
      BY <2>4 DEF Unwind, Cleanup, Steps, Service
    <3> QED
      BY <2>2, <2>4, <3>1
  <2>5. CASE A = {}
    BY <2>5 DEF Unwind
  <2>6. A = {} \/ A = {"pg", "nats"} \/ A = {"pg"} \/ A = {"nats"}
    BY DEF Service
  <2> QED
    BY <2>1, <2>3, <2>4, <2>5, <2>6
<1>2. \A i \in DOMAIN t : \E v \in A : t[i] \in {<<"down", v>>, <<"remove", v>>}
  BY <1>1
<1>3. \A v \in A : \E i, j \in DOMAIN t : t[i] = <<"down", v>> /\ t[j] = <<"remove", v>>
  BY <1>1
<1> HIDE DEF t
<1>4. Last(t, Closing)
  BY <1>2 DEF Last, Closing
<1>5. \A v \in Service : Follows(t, Creates(v), Releases(v)) /\ Preceded(t, Builds(v), Creates(v))
  BY <1>2 DEF Follows, Preceded, Creates, Releases, Builds
<1>6. /\ Once(t, Publishes) /\ ~Has(t, Publishes) /\ \A v \in Service : ~Has(t, Creates(v))
      /\ \A w \in Output : Preceded(t, {<<"publish", w>>}, {<<"guard", w>>})
  BY <1>2 DEF Once, Has, Preceded, Publishes, Creates
<1>7. CleansUp(t)
  BY <1>2 DEF CleansUp, HandsOver, Follows, Has
<1>8. \A v \in Service \ A : Spares(t, v)
  BY <1>2 DEF Spares, Has, Downs, Removes
<1>9. \A v \in A : Has(t, Downs(v)) /\ Has(t, Removes(v)) /\ Has(t, Releases(v))
  BY <1>3 DEF Has, Downs, Removes, Releases
<1> QED
  BY <1>1, <1>4, <1>5, <1>6, <1>7, <1>8, <1>9 DEF WellOrdered, t

\* The dispatch of main: every command has a well-ordered script.
LEMMA ScriptFacts ==
  ASSUME NEW k \in ManualKinds \cup DisposableKinds, NEW p
  PROVE  /\ WellOrdered(Script(k, p))
         /\ k \in DisposableKinds => CleansUp(Script(k, p))
         /\ \A v \in Service :
              /\ k \in ManualKinds /\ k # DownKind(v) => Spares(Script(k, p), v)
              /\ k = UpKind(v) => Completes(Script(k, p), v)
              /\ k \in ManualKinds /\ k # UpKind(v) => ~Has(Script(k, p), Creates(v))
              /\ k = DownKind(v) /\ Has(Script(k, p), Downs(v)) => from_state(v, p)
<1>0. \A v \in Service : ~Has(<<>>, Downs(v))
  BY DEF Has
<1>1. CASE k = "postgres-up"
  BY <1>1, ScriptPostgresUp DEF Script, UpKind, DownKind, DisposableKinds, Service
<1>2. CASE k = "nats-up"
  BY <1>2, ScriptNatsUp DEF Script, UpKind, DownKind, DisposableKinds, Service
<1>3. CASE k = "postgres-down"
  <2>1. postgres_down(p) \in {Cleanup("pg"), <<>>} /\ "pg" \in Service
    BY DEF postgres_down, Service
  <2> QED
    BY <1>0, <1>3, <2>1, ScriptDown DEF Script, postgres_down, UpKind, DownKind, DisposableKinds, Service
<1>4. CASE k = "nats-down"
  <2>1. nats_down(p) \in {Cleanup("nats"), <<>>} /\ "nats" \in Service
    BY DEF nats_down, Service
  <2> QED
    BY <1>0, <1>4, <2>1, ScriptDown DEF Script, nats_down, UpKind, DownKind, DisposableKinds, Service
<1>5. CASE k = "migrate-local"
  BY <1>5, ScriptWork DEF Script, UpKind, DownKind, DisposableKinds
<1>6. CASE k = "provision-nats-local"
  BY <1>6, ScriptWork DEF Script, UpKind, DownKind, DisposableKinds
<1>7. CASE k = "verify-postgres"
  BY <1>7, ScriptPostgresVerify DEF Script, UpKind, DownKind, ManualKinds
<1>8. CASE k = "qualify-tenancy"
  BY <1>8, ScriptQualify DEF Script, UpKind, DownKind, ManualKinds, postgres_qualify
<1>9. CASE k = "qualify-message-store"
  BY <1>9, ScriptQualify DEF Script, UpKind, DownKind, ManualKinds, qualify_message_store
<1>10. CASE k = "verify-nats"
  BY <1>10, ScriptVerifyNats DEF Script, UpKind, DownKind, ManualKinds
<1>11. CASE k = "qualify-nats"
  BY <1>11, ScriptQualifyNats DEF Script, UpKind, DownKind, ManualKinds
<1> QED
  BY <1>1, <1>2, <1>3, <1>4, <1>5, <1>6, <1>7, <1>8, <1>9, <1>10, <1>11
     DEF ManualKinds, DisposableKinds

----------------------------------------------------------------------------
(* The invariant.                                                          *)

\* No two running commands work on one project, and a disposable project is
\* that of its own slot.
SlotsApart ==
  \A s \in Slot :
    /\ project[s] \in Manual \cup {s}
    /\ kind[s] \in ManualKinds => project[s] \in Manual
    /\ kind[s] \in DisposableKinds => project[s] = s
    /\ \A q \in Slot : Running(s) /\ Running(q) /\ project[s] = project[q] => s = q

\* What is prepared will be cleaned up or handed over, and nothing is built
\* that was not prepared.
ScriptsInOrder ==
  \A s \in Slot :
    /\ ~Running(s) => todo[s] = <<>>
    /\ Last(todo[s], Closing)
    /\ \A v \in Service :
         /\ Follows(todo[s], Creates(v), Releases(v))
         /\ v \in armed[s] => Has(todo[s], Releases(v))
         /\ v \in armed[s] \/ Preceded(todo[s], Builds(v), Creates(v))

\* Only an up makes the directory of a manual environment, and only a command
\* that finds or makes that directory runs its Compose file.
NamedFirst ==
  /\ \A v \in Service, p \in Manual : dir[v][p] # "none" => <<v, p>> \in named
  /\ \A s \in Slot, v \in Service :
       /\ Running(s) /\ project[s] \in Manual
       /\ Has(todo[s], Creates(v)) \/ Has(todo[s], Downs(v)) \/ v \in armed[s]
       => <<v, project[s]>> \in named

\* A command that runs on a ready environment neither owns it nor will remove
\* it; its containers go only with those of another service of that name.
ReadyIsSpared ==
  \A e \in ready :
    /\ dir[e[1]][e[2]] = "full" /\ (up[e[1]][e[2]] = TRUE \/ NameShared(e[1], e[2]))
    /\ \A s \in Slot : Running(s) /\ project[s] = e[2] =>
         e[1] \notin armed[s] /\ Spares(todo[s], e[1])

\* An up without an error so far has done, or will do, what completes it.
UpProgresses ==
  \A s \in Slot, v \in Service : kind[s] = UpKind(v) /\ result[s] = "ok" =>
    /\ Has(todo[s], Final(v)) \/ dir[v][project[s]] = "full"
    /\ Has(todo[s], Starts(v)) \/ up[v][project[s]] = TRUE
    /\ Follows(todo[s], Spoils(v), Final(v))
    /\ \A w \in Service : Spares(todo[s], w)

Filled(v, s) == dir[v][s] \in {"partial", "full"}

\* What a disposable command has built is on its list of things to remove, and
\* until its cleanup begins it is armed, so that an error finds it as well.
DisposableOnTrack ==
  \A s \in Slot : project[s] = s /\ Running(s) =>
    /\ CleansUp(todo[s])
    /\ \A v \in Service :
         /\ up[v][s] = TRUE => <<"containers", v>> \in dirty[s] \/ Has(todo[s], Downs(v))
         /\ Filled(v, s) => <<"directory", v>> \in dirty[s] \/ Has(todo[s], Removes(v))
         /\ todo[s] # <<>> /\ Now(s) \notin Closing /\ (up[v][s] = TRUE \/ Filled(v, s)) =>
              v \in armed[s]

\* Evidence a command will publish was absent at its guard, unless it may be
\* replaced or somebody wrote it since.
EvidenceGuarded ==
  \A s \in Slot :
    /\ Once(todo[s], Publishes)
    /\ \A o \in Output :
         \/ evidence[o] = Nobody \/ replace[s] = TRUE \/ o \in touched[s]
         \/ Preceded(todo[s], {<<"publish", o>>}, {<<"guard", o>>})

LocalInv ==
  /\ TypeOK /\ SlotsApart /\ ScriptsInOrder /\ NamedFirst /\ ReadyIsSpared /\ UpProgresses
  /\ DisposableOnTrack /\ DisposableLeavesNothing /\ EvidenceGuarded

\* Nothing runs and nothing exists.
LEMMA LocalInit == Init => LocalInv
<1> SUFFICES ASSUME Init PROVE LocalInv
  OBVIOUS
<1>1. \A s \in Slot : /\ todo[s] = <<>> /\ ~Running(s) /\ project[s] = s /\ armed[s] = {}
                      /\ result[s] = "none" /\ kind[s] = "none"
  BY DEF Init, Running
<1>2. TypeOK
  BY LocalAssumption DEF Init, TypeOK, Project, ManualKinds, DisposableKinds
<1>3. \A X, Y : /\ ~Has(<<>>, X) /\ Follows(<<>>, X, Y) /\ Preceded(<<>>, X, Y)
                /\ Once(<<>>, X) /\ Last(<<>>, X)
  BY DEF Has, Follows, Preceded, Once, Last
<1>4. SlotsApart /\ ScriptsInOrder /\ EvidenceGuarded
  BY <1>1, <1>3 DEF SlotsApart, ScriptsInOrder, EvidenceGuarded, ManualKinds, DisposableKinds
<1>5. ReadyIsSpared /\ NamedFirst
  BY <1>1 DEF Init, ReadyIsSpared, NamedFirst, Project
<1>6. UpProgresses /\ DisposableOnTrack /\ DisposableLeavesNothing
  BY <1>1 DEF UpProgresses, DisposableOnTrack, DisposableLeavesNothing, Returned
<1> QED
  BY <1>2, <1>4, <1>5, <1>6 DEF LocalInv

\* The step a command takes next, and what it works on.
LEMMA NextStep ==
  ASSUME TypeOK, NEW s \in Slot, todo[s] # <<>>
  PROVE  /\ Now(s) \in Steps /\ Now(s) = <<Now(s)[1], Now(s)[2]>>
         /\ Now(s)[1] \notin {"guard", "publish"} => Now(s)[2] \in Service
         /\ Now(s)[1] \in {"guard", "publish"} => Now(s)[2] \in Output
         /\ Tail(todo[s]) \in Seq(Steps)
         /\ Unwind(armed[s]) \in Seq(Steps)
<1>1. todo[s] \in Seq(Steps) /\ armed[s] \in SUBSET Service
  BY DEF TypeOK
<1>2. Now(s) \in Steps /\ Tail(todo[s]) \in Seq(Steps)
  BY <1>1, TailIndex DEF Now
<1>3. Unwind(armed[s]) \in Seq(Steps)
  BY <1>1, UnwindSteps DEF WellOrdered
<1> QED
  BY <1>2, <1>3 DEF Steps

\* A step that meets an error, and one that does not.
Errs(s) ==
  /\ Now(s) \notin Closing
  /\ todo'[s] = Unwind(armed[s]) /\ result'[s] = "failed"
  /\ armed'[s] = armed[s] /\ dirty'[s] = dirty[s]

Proceeds(s) ==
  LET n == Now(s)[1]
      v == Now(s)[2]
      p == project[s]
  IN
  /\ todo'[s] = Tail(todo[s]) /\ result'[s] \in {result[s], "failed"} /\ dirty[s] \subseteq dirty'[s]
  /\ n \notin {"create", "remove", "disarm"} => armed'[s] = armed[s]
  /\ n = "create" => armed'[s] = armed[s] \cup {v} /\ dir[v][p] = "none"
  /\ n = "remove" => armed'[s] = armed[s] \ {v}
  /\ n = "disarm" => armed'[s] = {}
  /\ n = "files" => dir'[v][p] = Written(v)
  /\ n = "save" => dir'[v][p] = "full"
  /\ n = "start" => up'[v][p] = TRUE
  /\ n = "down" => up'[v][p] = FALSE \/ <<"containers", v>> \in dirty'[s]
  /\ n = "remove" => dir'[v][p] = "none" \/ <<"directory", v>> \in dirty'[s]

\* A step changes the environment it names in the project of its command, in
\* one way, and nothing of the other commands; a down may sweep the other
\* service of a manual project.
Changes(s) ==
  LET n == Now(s)[1]
      v == Now(s)[2]
      p == project[s]
  IN
  /\ \A w \in Service, x \in Project :
       /\ dir'[w][x] = dir[w][x] \/ (w = v /\ x = p /\ n \in {"create", "files", "save", "remove"})
       /\ \/ up'[w][x] = up[w][x]
          \/ w = v /\ x = p /\ n \in {"start", "down"}
          \/ x = p /\ p \in Manual /\ n = "down"
  /\ n = "create" => dir'[v][p] = dir[v][p] \/ (dir[v][p] = "none" /\ dir'[v][p] = "empty")
  /\ n = "remove" => dir'[v][p] = dir[v][p] \/ dir'[v][p] = "none"

Moves(s) ==
  /\ Running(s) /\ todo[s] # <<>>
  /\ UNCHANGED <<kind, project, replace, ready, named>>
  /\ \A q \in Slot \ {s} : /\ todo'[q] = todo[q] /\ armed'[q] = armed[q]
                           /\ result'[q] = result[q] /\ dirty'[q] = dirty[q]
  /\ Changes(s)
  /\ Errs(s) \/ Proceeds(s)

\* Every step but the last one of a command is such a step.
LEMMA StepMoves ==
  ASSUME TypeOK, NEW s \in Slot, Step(s), ~Finish(s)
  PROVE  Moves(s) /\ TypeOK'
<1>0. todo[s] # <<>> /\ Running(s) /\ project[s] \in Project
  BY DEF TypeOK, Step, IsNext, Doctor, Create, Files, StartContainers, SaveState, DisarmCleanup, Open,
         Work, GuardEvidence, Publish, StopAndRemove, RemoveDirectory
<1>1. /\ Now(s) \in Steps /\ Now(s) = <<Now(s)[1], Now(s)[2]>>
      /\ Now(s)[1] \notin {"guard", "publish"} => Now(s)[2] \in Service
      /\ Now(s)[1] \in {"guard", "publish"} => Now(s)[2] \in Output
      /\ Tail(todo[s]) \in Seq(Steps)
      /\ Unwind(armed[s]) \in Seq(Steps)
  BY <1>0, NextStep
<1>2. Now(s)[1] \notin {"down", "remove", "disarm"} => Now(s) \notin Closing
  BY <1>1 DEF Closing
<1>3. ASSUME Fail(s)
      PROVE  /\ todo'[s] = Unwind(armed[s]) /\ result'[s] = "failed"
             /\ todo' \in [Slot -> Seq(Steps)]
             /\ result' \in [Slot -> {"none", "ok", "failed", "killed"}]
             /\ \A q \in Slot \ {s} : todo'[q] = todo[q] /\ result'[q] = result[q]
  BY <1>1, <1>3 DEF Fail, TypeOK
<1>4. ASSUME Advance(s)
      PROVE  /\ todo'[s] = Tail(todo[s]) /\ todo' \in [Slot -> Seq(Steps)]
             /\ \A q \in Slot \ {s} : todo'[q] = todo[q]
  BY <1>1, <1>4 DEF Advance, TypeOK
<1>5. ASSUME NEW value \in {"none", "empty", "partial", "full"}, SetDir(s, value),
             Now(s)[2] \in Service
      PROVE  /\ dir' \in [Service -> [Project -> {"none", "empty", "partial", "full"}]]
             /\ dir'[Now(s)[2]][project[s]] = value
             /\ \A w \in Service, x \in Project :
                  dir'[w][x] = dir[w][x] \/ (w = Now(s)[2] /\ x = project[s])
  BY <1>0, <1>5 DEF SetDir, TypeOK
<1>6. ASSUME NEW b \in BOOLEAN, up' = [up EXCEPT ![Now(s)[2]][project[s]] = b], Now(s)[2] \in Service
      PROVE  /\ up' \in [Service -> [Project -> BOOLEAN]]
             /\ up'[Now(s)[2]][project[s]] = b
             /\ \A w \in Service, x \in Project :
                  up'[w][x] = up[w][x] \/ (w = Now(s)[2] /\ x = project[s])
  BY <1>0, <1>6 DEF TypeOK
<1>7. ASSUME Doctor(s) \/ Open(s) \/ Work(s) \/ GuardEvidence(s) PROVE Moves(s) /\ TypeOK'
  <2>1. /\ Now(s)[1] \in {"doctor", "open", "work", "guard"}
        /\ Fail(s) \/ (Advance(s) /\ result' = result)
        /\ Same /\ UNCHANGED <<dir, up, armed, dirty, evidence>>
    BY <1>7 DEF Doctor, Open, Work, GuardEvidence, IsNext
  <2>2. TypeOK'
    BY <1>3, <1>4, <2>1 DEF TypeOK, Same
  <2>3. Changes(s)
    BY <2>1 DEF Changes
  <2>4. Errs(s) \/ Proceeds(s)
    BY <1>2, <1>3, <1>4, <2>1 DEF Errs, Proceeds
  <2> QED
    BY <1>0, <1>3, <1>4, <2>1, <2>2, <2>3, <2>4 DEF Moves, Same
<1>8. ASSUME Create(s) PROVE Moves(s) /\ TypeOK'
  <2>0. /\ Now(s)[1] = "create" /\ Now(s)[2] \in Service
        /\ Same /\ UNCHANGED <<up, dirty, evidence>>
    BY <1>1, <1>8 DEF Create, IsNext
  <2>1. CASE Fail(s) /\ UNCHANGED <<dir, armed>>
    <3>1. TypeOK' /\ Changes(s) /\ Errs(s)
      BY <1>2, <1>3, <2>0, <2>1 DEF TypeOK, Same, Changes, Errs
    <3> QED
      BY <1>0, <1>3, <2>0, <2>1, <3>1 DEF Moves, Same
  <2>2. CASE dir[Now(s)[2]][project[s]] = "none" /\ SetDir(s, "empty") /\ Fail(s) /\ armed' = armed
    <3>1. TypeOK' /\ Changes(s) /\ Errs(s)
      BY <1>2, <1>3, <1>5, <2>0, <2>2 DEF TypeOK, Same, Changes, Errs
    <3> QED
      BY <1>0, <1>3, <2>0, <2>2, <3>1 DEF Moves, Same
  <2>3. CASE /\ dir[Now(s)[2]][project[s]] = "none" /\ SetDir(s, "empty") /\ Advance(s)
             /\ armed' = [armed EXCEPT ![s] = @ \cup {Now(s)[2]}] /\ result' = result
    <3>1. TypeOK' /\ Changes(s)
      BY <1>4, <1>5, <2>0, <2>3 DEF TypeOK, Same, Changes
    <3>2. armed'[s] = armed[s] \cup {Now(s)[2]} /\ \A q \in Slot \ {s} : armed'[q] = armed[q]
      BY <2>3 DEF TypeOK
    <3>3. Proceeds(s)
      BY <1>4, <2>0, <2>3, <3>2 DEF Proceeds
    <3> QED
      BY <1>0, <1>4, <2>0, <2>3, <3>1, <3>2, <3>3 DEF Moves, Same
  <2> QED
    BY <1>8, <2>1, <2>2, <2>3 DEF Create
<1>9. ASSUME Files(s) \/ SaveState(s) PROVE Moves(s) /\ TypeOK'
  <2>0. /\ Now(s)[1] \in {"files", "save"} /\ Now(s)[2] \in Service
        /\ Same /\ UNCHANGED <<up, armed, dirty, evidence>>
    BY <1>1, <1>9 DEF Files, SaveState, IsNext
  <2>1. CASE Fail(s) /\ (SetDir(s, "partial") \/ dir' = dir)
    <3>1. TypeOK' /\ Changes(s) /\ Errs(s)
      BY <1>2, <1>3, <1>5, <2>0, <2>1 DEF TypeOK, Same, Changes, Errs
    <3> QED
      BY <1>0, <1>3, <2>0, <2>1, <3>1 DEF Moves, Same
  <2>2. CASE /\ Advance(s) /\ result' = result
             /\ SetDir(s, IF Now(s)[1] = "files" THEN Written(Now(s)[2]) ELSE "full")
    <3>1. Written(Now(s)[2]) \in {"none", "empty", "partial", "full"}
      BY DEF Written
    <3>2. TypeOK' /\ Changes(s)
      BY <1>4, <1>5, <2>0, <2>2, <3>1 DEF TypeOK, Same, Changes
    <3>3. Proceeds(s)
      BY <1>4, <1>5, <2>0, <2>2, <3>1 DEF Proceeds
    <3> QED
      BY <1>0, <1>4, <2>0, <2>2, <3>2, <3>3 DEF Moves, Same
  <2> QED
    BY <1>9, <2>1, <2>2 DEF Files, SaveState, IsNext
<1>10. ASSUME StartContainers(s) PROVE Moves(s) /\ TypeOK'
  <2>0. /\ Now(s)[1] = "start" /\ Now(s)[2] \in Service
        /\ Same /\ UNCHANGED <<dir, armed, dirty, evidence>>
    BY <1>1, <1>10 DEF StartContainers, IsNext
  <2>1. CASE Fail(s) /\ (up' = [up EXCEPT ![Now(s)[2]][project[s]] = TRUE] \/ up' = up)
    <3>1. up' \in [Service -> [Project -> BOOLEAN]]
      BY <1>6, <2>0, <2>1 DEF TypeOK
    <3>2. TypeOK'
      BY <1>3, <2>0, <2>1, <3>1 DEF TypeOK, Same
    <3>3. \A w \in Service, x \in Project :
            up'[w][x] = up[w][x] \/ (w = Now(s)[2] /\ x = project[s])
      BY <1>6, <2>0, <2>1
    <3>4. Changes(s) /\ Errs(s)
      BY <1>2, <1>3, <2>0, <2>1, <3>3 DEF Changes, Errs
    <3> QED
      BY <1>0, <1>3, <2>0, <2>1, <3>2, <3>4 DEF Moves, Same
  <2>2. CASE Advance(s) /\ result' = result /\ up' = [up EXCEPT ![Now(s)[2]][project[s]] = TRUE]
    <3>1. TypeOK' /\ Changes(s) /\ Proceeds(s)
      BY <1>4, <1>6, <2>0, <2>2 DEF TypeOK, Same, Changes, Proceeds
    <3> QED
      BY <1>0, <1>4, <2>0, <2>2, <3>1 DEF Moves, Same
  <2> QED
    BY <1>10, <2>1, <2>2 DEF StartContainers
<1>11. ASSUME DisarmCleanup(s) PROVE Moves(s) /\ TypeOK'
  <2>1. /\ Now(s)[1] = "disarm" /\ Advance(s) /\ armed' = [armed EXCEPT ![s] = {}]
        /\ Same /\ UNCHANGED <<dir, up, result, dirty, evidence>>
    BY <1>11 DEF DisarmCleanup, IsNext
  <2>2. armed'[s] = {} /\ \A q \in Slot \ {s} : armed'[q] = armed[q]
    BY <2>1 DEF TypeOK
  <2>3. TypeOK' /\ Changes(s) /\ Proceeds(s)
    BY <1>4, <2>1, <2>2 DEF TypeOK, Same, Changes, Proceeds
  <2> QED
    BY <1>0, <1>4, <2>1, <2>2, <2>3 DEF Moves, Same
<1>12. ASSUME Publish(s) PROVE Moves(s) /\ TypeOK'
  <2>0. /\ Now(s)[1] = "publish" /\ Now(s)[2] \in Output
        /\ UNCHANGED <<dir, up, kind, project, armed, replace, dirty, runs, ready, named>>
    BY <1>1, <1>12 DEF Publish, IsNext
  <2>1. CASE Fail(s) /\ UNCHANGED <<evidence, touched>>
    <3>1. Changes(s) /\ Errs(s)
      BY <1>2, <1>3, <2>0, <2>1 DEF Changes, Errs
    <3>2. TypeOK'
      BY <1>3, <2>0, <2>1 DEF TypeOK
    <3> QED
      BY <1>0, <1>3, <2>0, <2>1, <3>1, <3>2 DEF Moves
  <2>2. CASE /\ evidence' = [evidence EXCEPT ![Now(s)[2]] = s]
             /\ touched' = [q \in Slot |->
                              touched[q] \cup {x \in {Now(s)[2]} : q # s /\ Running(q)}]
             /\ (Advance(s) /\ result' = result) \/ Fail(s)
    <3>1. evidence' \in [Output -> Slot \cup {Nobody}]
      BY <2>2 DEF TypeOK
    <3>2. touched' \in [Slot -> SUBSET Output]
      BY <2>0, <2>2 DEF TypeOK
    <3>3. CASE Advance(s) /\ result' = result
      <4>1. TypeOK' /\ Changes(s) /\ Proceeds(s)
        BY <1>4, <2>0, <3>1, <3>2, <3>3 DEF TypeOK, Changes, Proceeds
      <4> QED
        BY <1>0, <1>4, <2>0, <3>3, <4>1 DEF Moves
    <3>4. CASE Fail(s)
      <4>1. TypeOK' /\ Changes(s) /\ Errs(s)
        BY <1>2, <1>3, <2>0, <3>1, <3>2, <3>4 DEF TypeOK, Changes, Errs
      <4> QED
        BY <1>0, <1>3, <2>0, <3>4, <4>1 DEF Moves
    <3> QED
      BY <2>2, <3>3, <3>4
  <2> QED
    BY <1>12, <2>1, <2>2 DEF Publish
<1>13. ASSUME StopAndRemove(s) PROVE Moves(s) /\ TypeOK'
  <2>0. /\ Now(s)[1] = "down" /\ Now(s)[2] \in Service /\ Advance(s)
        /\ Same /\ UNCHANGED <<dir, armed, evidence>>
    BY <1>1, <1>13 DEF StopAndRemove, IsNext
  <2>1. PICK gone \in SUBSET Swept(Now(s)[2], project[s]) :
          /\ up' = [w \in Service |->
                      IF w \in gone THEN [up[w] EXCEPT ![project[s]] = FALSE] ELSE up[w]]
          /\ \/ gone = Swept(Now(s)[2], project[s]) /\ UNCHANGED <<result, dirty>>
             \/ /\ result' = [result EXCEPT ![s] = "failed"]
                /\ dirty' = [dirty EXCEPT ![s] = @ \cup {<<"containers", Now(s)[2]>>}]
    BY <1>13 DEF StopAndRemove
  <2>2. \A w \in Service : gone \subseteq Service /\ up[w] \in [Project -> BOOLEAN]
    BY <2>0 DEF TypeOK, Swept
  <2>3. \A w \in Service : up'[w] \in [Project -> BOOLEAN]
    BY <2>1, <2>2
  <2>4. up' \in [Service -> [Project -> BOOLEAN]]
    BY <2>1, <2>3
  <2>5. \A w \in Service, x \in Project :
          /\ up'[w][x] = up[w][x] \/ (x = project[s] /\ w \in gone)
          /\ x = project[s] /\ w \in gone => up'[w][x] = FALSE
    BY <1>0, <2>1, <2>2
  <2>6. gone \subseteq Swept(Now(s)[2], project[s]) /\ Now(s)[2] \in Swept(Now(s)[2], project[s])
    BY <2>0 DEF Swept
  <2>7. Changes(s)
    BY <2>0, <2>5, <2>6 DEF Changes, Swept
  <2>8. CASE gone = Swept(Now(s)[2], project[s]) /\ UNCHANGED <<result, dirty>>
    <3>1. up'[Now(s)[2]][project[s]] = FALSE
      BY <1>0, <2>0, <2>5, <2>6, <2>8
    <3>2. TypeOK' /\ Proceeds(s)
      BY <1>4, <2>0, <2>4, <2>8, <3>1 DEF TypeOK, Same, Proceeds
    <3> QED
      BY <1>0, <1>4, <2>0, <2>7, <2>8, <3>2 DEF Moves, Same
  <2>9. CASE /\ result' = [result EXCEPT ![s] = "failed"]
             /\ dirty' = [dirty EXCEPT ![s] = @ \cup {<<"containers", Now(s)[2]>>}]
    <3>1. /\ result'[s] = "failed" /\ dirty'[s] = dirty[s] \cup {<<"containers", Now(s)[2]>>}
          /\ \A q \in Slot \ {s} : result'[q] = result[q] /\ dirty'[q] = dirty[q]
          /\ result' \in [Slot -> {"none", "ok", "failed", "killed"}]
          /\ dirty' \in [Slot -> SUBSET ({"containers", "directory"} \X Service)]
      BY <2>0, <2>9 DEF TypeOK
    <3>2. TypeOK' /\ Proceeds(s)
      BY <1>4, <2>0, <2>4, <3>1 DEF TypeOK, Same, Proceeds
    <3> QED
      BY <1>0, <1>4, <2>0, <2>7, <3>1, <3>2 DEF Moves, Same
  <2> QED
    BY <2>1, <2>8, <2>9
<1>14. ASSUME RemoveDirectory(s) PROVE Moves(s) /\ TypeOK'
  <2>0. /\ Now(s)[1] = "remove" /\ Now(s)[2] \in Service /\ Advance(s)
        /\ armed' = [armed EXCEPT ![s] = @ \ {Now(s)[2]}]
        /\ Same /\ UNCHANGED <<up, evidence>>
    BY <1>1, <1>14 DEF RemoveDirectory, IsNext
  <2>1. /\ armed'[s] = armed[s] \ {Now(s)[2]} /\ \A q \in Slot \ {s} : armed'[q] = armed[q]
        /\ armed' \in [Slot -> SUBSET Service]
    BY <2>0 DEF TypeOK
  <2>2. CASE SetDir(s, "none") /\ UNCHANGED <<result, dirty>>
    <3>1. TypeOK' /\ Changes(s) /\ Proceeds(s)
      BY <1>4, <1>5, <2>0, <2>1, <2>2 DEF TypeOK, Same, Changes, Proceeds
    <3> QED
      BY <1>0, <1>4, <2>0, <2>1, <2>2, <3>1 DEF Moves, Same
  <2>3. CASE /\ dir' = dir /\ result' = [result EXCEPT ![s] = "failed"]
             /\ dirty' = [dirty EXCEPT ![s] = @ \cup {<<"directory", Now(s)[2]>>}]
    <3>1. /\ result'[s] = "failed" /\ dirty'[s] = dirty[s] \cup {<<"directory", Now(s)[2]>>}
          /\ \A q \in Slot \ {s} : result'[q] = result[q] /\ dirty'[q] = dirty[q]
          /\ result' \in [Slot -> {"none", "ok", "failed", "killed"}]
          /\ dirty' \in [Slot -> SUBSET ({"containers", "directory"} \X Service)]
      BY <2>0, <2>3 DEF TypeOK
    <3>2. TypeOK' /\ Changes(s) /\ Proceeds(s)
      BY <1>4, <2>0, <2>1, <2>3, <3>1 DEF TypeOK, Same, Changes, Proceeds
    <3> QED
      BY <1>0, <1>4, <2>0, <2>1, <3>1, <3>2 DEF Moves, Same
  <2> QED
    BY <1>14, <2>2, <2>3 DEF RemoveDirectory
<1> QED
  BY <1>7, <1>8, <1>9, <1>10, <1>11, <1>12, <1>13, <1>14 DEF Step

----------------------------------------------------------------------------
(* A step of a running command keeps the invariant.                        *)

\* The list of a command after a step, and what it is responsible for.
LEMMA MovesInOrder ==
  ASSUME LocalInv, TypeOK', NEW s \in Slot, Moves(s)
  PROVE  SlotsApart' /\ ScriptsInOrder'
<1>0. /\ todo[s] \in Seq(Steps) /\ todo[s] # <<>> /\ armed[s] \in SUBSET Service
      /\ Now(s) = Head(todo[s]) /\ Now(s) = <<Now(s)[1], Now(s)[2]>>
      /\ Now(s)[1] \notin {"guard", "publish"} => Now(s)[2] \in Service
  BY NextStep DEF Moves, LocalInv, TypeOK, Now
<1>1. SlotsApart'
  BY DEF LocalInv, SlotsApart, Moves, Running
<1>2. /\ Last(todo'[s], Closing)
      /\ \A v \in Service : /\ Follows(todo'[s], Creates(v), Releases(v))
                            /\ v \in armed'[s] => Has(todo'[s], Releases(v))
                            /\ v \in armed'[s] \/ Preceded(todo'[s], Builds(v), Creates(v))
  <2>1. CASE Errs(s)
    BY <1>0, <2>1, UnwindSteps DEF Errs, WellOrdered
  <2>2. CASE Proceeds(s)
    <3> DEFINE t == todo[s]
    <3>1. Last(Tail(t), Closing)
      BY <1>0, TailLast DEF LocalInv, ScriptsInOrder
    <3>2. ASSUME NEW v \in Service
          PROVE  /\ Follows(Tail(t), Creates(v), Releases(v))
                 /\ v \in armed'[s] => Has(Tail(t), Releases(v))
                 /\ v \in armed'[s] \/ Preceded(Tail(t), Builds(v), Creates(v))
      <4>1. /\ Follows(Tail(t), Creates(v), Releases(v))
            /\ Now(s) \in Creates(v) => Has(Tail(t), Releases(v))
        BY <1>0, TailFollows DEF LocalInv, ScriptsInOrder
      <4>2. v \in armed[s] /\ Now(s) \notin Releases(v) => Has(Tail(t), Releases(v))
        BY <1>0, TailHas DEF LocalInv, ScriptsInOrder
      <4>3. v \in armed[s] \/ Now(s) \in Creates(v) \/ Preceded(Tail(t), Builds(v), Creates(v))
        BY <1>0, TailPreceded DEF LocalInv, ScriptsInOrder
      <4>4. CASE Now(s) \in Closing
        <5>1. \A i \in DOMAIN Tail(t) : Tail(t)[i] \in Closing
          BY <1>0, <4>4, TailLast DEF LocalInv, ScriptsInOrder
        <5>2. Preceded(Tail(t), Builds(v), Creates(v))
          BY <5>1 DEF Preceded, Builds, Closing
        <5>3. v \in armed'[s] => v \in armed[s] /\ Now(s) \notin Releases(v)
          BY <1>0, <2>2, <4>4 DEF Proceeds, Releases, Closing
        <5> QED
          BY <4>1, <4>2, <5>2, <5>3
      <4>5. CASE Now(s) \notin Closing /\ Now(s)[1] # "create"
        <5>1. /\ armed'[s] = armed[s] /\ Now(s) \notin Creates(v) /\ Now(s) \notin Releases(v)
          BY <1>0, <2>2, <4>5 DEF Proceeds, Creates, Releases, Closing
        <5> QED
          BY <4>1, <4>2, <4>3, <5>1
      <4>6. CASE Now(s)[1] = "create"
        <5>1. /\ armed'[s] = armed[s] \cup {Now(s)[2]} /\ Now(s) \notin Releases(v)
              /\ Now(s) \in Creates(v) <=> v = Now(s)[2]
          BY <1>0, <2>2, <4>6 DEF Proceeds, Creates, Releases
        <5> QED
          BY <4>1, <4>2, <4>3, <5>1
      <4> QED
        BY <4>4, <4>5, <4>6
    <3> QED
      BY <2>2, <3>1, <3>2 DEF Proceeds
  <2> QED
    BY <2>1, <2>2 DEF Moves
<1>3. ScriptsInOrder'
  <2>1. Running(s)'
    BY DEF Moves, Running
  <2> QED
    BY <1>2, <2>1 DEF LocalInv, ScriptsInOrder, Moves, Running
<1> QED
  BY <1>1, <1>3

\* Directories and cleanup go back to an up of that service and name.
LEMMA MovesNamed ==
  ASSUME LocalInv, TypeOK', NEW s \in Slot, Moves(s)
  PROVE  NamedFirst'
<1>0. /\ todo[s] \in Seq(Steps) /\ todo[s] # <<>> /\ armed[s] \in SUBSET Service
      /\ Now(s) = Head(todo[s]) /\ Now(s) = <<Now(s)[1], Now(s)[2]>> /\ Running(s)
      /\ Now(s)[1] \notin {"guard", "publish"} => Now(s)[2] \in Service
      /\ \A q \in Slot : Running(q)' <=> Running(q)
  BY NextStep DEF Moves, LocalInv, TypeOK, Now, Running
<1>1. ASSUME NEW v \in Service, project[s] \in Manual,
             Has(todo[s], Creates(v)) \/ Has(todo[s], Downs(v)) \/ v \in armed[s]
      PROVE  <<v, project[s]>> \in named
  BY <1>0, <1>1 DEF LocalInv, NamedFirst
<1>2. ASSUME NEW v \in Service, NEW p \in Manual, dir'[v][p] # "none"
      PROVE  <<v, p>> \in named
  <2>1. CASE dir[v][p] # "none"
    BY <2>1 DEF LocalInv, NamedFirst
  <2>2. CASE dir[v][p] = "none"
    <3>1. /\ v = Now(s)[2] /\ p = project[s]
          /\ Now(s)[1] \in {"create", "files", "save"}
      BY <1>2, <2>2 DEF Moves, Changes, Project
    <3>2. CASE Now(s)[1] = "create"
      <4>1. Has(todo[s], Creates(v))
        BY <1>0, <3>1, <3>2, TailHas DEF Creates
      <4> QED
        BY <1>1, <3>1, <4>1
    <3>3. CASE Now(s) \in Builds(v)
      <4>1. v \in armed[s]
        BY <1>0, <3>3, TailPreceded DEF LocalInv, ScriptsInOrder
      <4> QED
        BY <1>1, <3>1, <4>1
    <3> QED
      BY <1>0, <3>1, <3>2, <3>3 DEF Builds
  <2> QED
    BY <2>1, <2>2
<1>3. ASSUME NEW v \in Service, project[s] \in Manual,
             Has(todo'[s], Creates(v)) \/ Has(todo'[s], Downs(v)) \/ v \in armed'[s]
      PROVE  <<v, project[s]>> \in named
  <2>1. CASE Errs(s)
    <3>1. todo'[s] = Unwind(armed[s]) /\ armed'[s] = armed[s]
      BY <2>1 DEF Errs
    <3>2. v \in armed[s]
      BY <1>0, <1>3, <3>1, UnwindSteps DEF Spares
    <3> QED
      BY <1>1, <1>3, <3>2
  <2>2. CASE Proceeds(s)
    <3>1. todo'[s] = Tail(todo[s])
      BY <2>2 DEF Proceeds
    <3>2. v \in armed'[s] => v \in armed[s] \/ Now(s) \in Creates(v)
      BY <1>0, <2>2 DEF Proceeds, Creates
    <3>3. Has(todo[s], Creates(v)) \/ Has(todo[s], Downs(v)) \/ v \in armed[s]
      BY <1>0, <1>3, <3>1, <3>2, TailHas
    <3> QED
      BY <1>1, <1>3, <3>3
  <2> QED
    BY <2>1, <2>2 DEF Moves
<1>4. ASSUME NEW q \in Slot, NEW v \in Service, Running(q), project[q] \in Manual,
             Has(todo'[q], Creates(v)) \/ Has(todo'[q], Downs(v)) \/ v \in armed'[q]
      PROVE  <<v, project[q]>> \in named
  <2>1. CASE q = s
    BY <1>3, <1>4, <2>1
  <2>2. CASE q # s
    <3>1. todo'[q] = todo[q] /\ armed'[q] = armed[q]
      BY <2>2 DEF Moves
    <3> QED
      BY <1>4, <3>1 DEF LocalInv, NamedFirst
  <2> QED
    BY <2>1, <2>2
<1>5. named' = named /\ project' = project
  BY DEF Moves
<1> QED
  BY <1>0, <1>2, <1>4, <1>5 DEF NamedFirst

\* A ready environment survives: the directory check stops up before it owns
\* anything, and nobody else would touch it.
LEMMA MovesSpareReady ==
  ASSUME LocalInv, TypeOK', NEW s \in Slot, Moves(s)
  PROVE  ReadyIsSpared'
<1>0. /\ todo[s] \in Seq(Steps) /\ todo[s] # <<>> /\ armed[s] \in SUBSET Service
      /\ Now(s) = Head(todo[s]) /\ Now(s) = <<Now(s)[1], Now(s)[2]>>
      /\ Now(s)[1] \notin {"guard", "publish"} => Now(s)[2] \in Service
  BY NextStep DEF Moves, LocalInv, TypeOK, Now
<1> SUFFICES ASSUME NEW e \in ready
    PROVE  /\ dir'[e[1]][e[2]] = "full"
           /\ up'[e[1]][e[2]] = TRUE \/ NameShared(e[1], e[2])
           /\ \A q \in Slot : Running(q) /\ project[q] = e[2] =>
                e[1] \notin armed'[q] /\ Spares(todo'[q], e[1])
  BY DEF ReadyIsSpared, Moves, Running, NameShared
<1>1. /\ e[1] \in Service /\ e[2] \in Project /\ e[2] \in Manual
      /\ dir[e[1]][e[2]] = "full" /\ (up[e[1]][e[2]] = TRUE \/ NameShared(e[1], e[2]))
      /\ \A q \in Slot : Running(q) /\ project[q] = e[2] =>
           e[1] \notin armed[q] /\ Spares(todo[q], e[1])
  BY DEF LocalInv, TypeOK, ReadyIsSpared, Project
<1>2. ASSUME project[s] = e[2]
      PROVE  /\ Now(s) \notin Builds(e[1]) /\ Now(s) \notin Downs(e[1]) /\ Now(s) \notin Removes(e[1])
             /\ e[1] \notin armed[s] /\ Spares(todo[s], e[1])
  <2>1. e[1] \notin armed[s] /\ Spares(todo[s], e[1])
    BY <1>1, <1>2 DEF Moves
  <2>2. Now(s) \notin Downs(e[1]) /\ Now(s) \notin Removes(e[1])
    BY <1>0, <2>1, TailHas DEF Spares
  <2>3. Preceded(todo[s], Builds(e[1]), Creates(e[1]))
    BY <1>1, <2>1 DEF LocalInv, ScriptsInOrder
  <2>4. Now(s) \notin Builds(e[1])
    BY <1>0, <2>3, TailPreceded
  <2> QED
    BY <2>1, <2>2, <2>4
<1>3. dir'[e[1]][e[2]] = "full"
  <2>1. SUFFICES ASSUME dir'[e[1]][e[2]] # dir[e[1]][e[2]] PROVE FALSE
    BY <1>1
  <2>2. e[1] = Now(s)[2] /\ e[2] = project[s] /\ Now(s)[1] \in {"create", "files", "save", "remove"}
    BY <1>1, <2>1 DEF Moves, Changes
  <2>3. Now(s)[1] # "create"
    BY <1>1, <2>1, <2>2 DEF Moves, Changes
  <2> QED
    BY <1>0, <1>2, <2>2, <2>3 DEF Builds, Removes
<1>4. up'[e[1]][e[2]] = TRUE \/ NameShared(e[1], e[2])
  <2>1. SUFFICES ASSUME up'[e[1]][e[2]] # up[e[1]][e[2]] PROVE NameShared(e[1], e[2])
    BY <1>1
  <2>2. e[2] = project[s] /\ (Now(s)[1] = "down" \/ (Now(s)[1] = "start" /\ e[1] = Now(s)[2]))
    BY <1>1, <2>1 DEF Moves, Changes
  <2>3. Now(s)[1] = "down" /\ Now(s)[2] \in Service \ {e[1]}
    BY <1>0, <1>2, <2>2 DEF Builds, Downs
  <2>4. Has(todo[s], Downs(Now(s)[2]))
    BY <1>0, <2>3, TailHas DEF Downs
  <2>5. <<Now(s)[2], e[2]>> \in named
    BY <1>1, <2>2, <2>3, <2>4 DEF LocalInv, NamedFirst, Moves
  <2> QED
    BY <2>3, <2>5 DEF NameShared
<1>5. ASSUME project[s] = e[2] PROVE e[1] \notin armed'[s] /\ Spares(todo'[s], e[1])
  <2>1. CASE Errs(s)
    BY <1>0, <1>1, <1>2, <1>5, <2>1, UnwindSteps DEF Errs
  <2>2. CASE Proceeds(s)
    <3>1. Spares(Tail(todo[s]), e[1])
      BY <1>0, <1>2, <1>5, TailHas DEF Spares
    <3>2. Now(s)[1] = "create" => Now(s)[2] # e[1]
      BY <1>1, <1>5, <2>2 DEF Proceeds
    <3>3. e[1] \notin armed'[s]
      BY <1>2, <1>5, <2>2, <3>2 DEF Proceeds
    <3> QED
      BY <2>2, <3>1, <3>3 DEF Proceeds
  <2> QED
    BY <2>1, <2>2 DEF Moves
<1> QED
  BY <1>1, <1>3, <1>4, <1>5 DEF Moves

\* Commands on different projects do not meet.
LEMMA MovesApart ==
  ASSUME LocalInv, NEW s \in Slot, Moves(s), NEW q \in Slot, q # s,
         NEW p \in {project[q], q}, p = project[q] => Running(q) \/ p = q
  PROVE  \A v \in Service : p \in Project /\ dir'[v][p] = dir[v][p] /\ up'[v][p] = up[v][p]
<1>1. p # project[s] /\ p \in Project
  BY LocalAssumption DEF LocalInv, SlotsApart, Moves, Project
<1> QED
  BY <1>1 DEF Moves, Changes

\* An up that met no error comes closer to a complete environment.
LEMMA MovesUp ==
  ASSUME LocalInv, TypeOK', NEW s \in Slot, Moves(s)
  PROVE  UpProgresses'
<1>0. /\ todo[s] \in Seq(Steps) /\ todo[s] # <<>> /\ project[s] \in Project
      /\ Now(s) = Head(todo[s]) /\ Now(s) = <<Now(s)[1], Now(s)[2]>>
      /\ Now(s)[1] \notin {"guard", "publish"} => Now(s)[2] \in Service
  BY NextStep DEF Moves, LocalInv, TypeOK, Now
<1> SUFFICES ASSUME NEW q \in Slot, NEW v \in Service, kind[q] = UpKind(v), result'[q] = "ok"
    PROVE  /\ Has(todo'[q], Final(v)) \/ dir'[v][project[q]] = "full"
           /\ Has(todo'[q], Starts(v)) \/ up'[v][project[q]] = TRUE
           /\ Follows(todo'[q], Spoils(v), Final(v))
           /\ \A w \in Service : Spares(todo'[q], w)
  BY DEF UpProgresses, Moves, Spares
<1>1. CASE q # s
  <2>1. Running(q) /\ result[q] = "ok" /\ todo'[q] = todo[q]
    BY <1>1 DEF Running, UpKind, Moves
  <2>2. dir'[v][project[q]] = dir[v][project[q]] /\ up'[v][project[q]] = up[v][project[q]]
    BY <1>1, <2>1, MovesApart
  <2> QED
    BY <2>1, <2>2 DEF LocalInv, UpProgresses
<1>2. CASE q = s
  <2>1. Proceeds(s) /\ result[s] = "ok" /\ todo'[s] = Tail(todo[s])
    BY <1>2 DEF Moves, Errs, Proceeds
  <2>2. /\ Has(todo[s], Final(v)) \/ dir[v][project[s]] = "full"
        /\ Has(todo[s], Starts(v)) \/ up[v][project[s]] = TRUE
        /\ Follows(todo[s], Spoils(v), Final(v))
        /\ \A w \in Service : Spares(todo[s], w)
    BY <1>2, <2>1 DEF LocalInv, UpProgresses
  <2>3. \A w \in Service :
          Spares(Tail(todo[s]), w) /\ Now(s) \notin Downs(w) /\ Now(s) \notin Removes(w)
    BY <1>0, <2>2, TailHas DEF Spares
  <2>4. /\ Follows(Tail(todo[s]), Spoils(v), Final(v))
        /\ Now(s) \in Spoils(v) => Has(Tail(todo[s]), Final(v))
    BY <1>0, <2>2, TailFollows
  <2>5. /\ Has(todo[s], Final(v)) => Now(s) \in Final(v) \/ Has(Tail(todo[s]), Final(v))
        /\ Has(todo[s], Starts(v)) => Now(s) \in Starts(v) \/ Has(Tail(todo[s]), Starts(v))
    BY <1>0, TailHas
  <2>6. Now(s) \in Starts(v) => up'[v][project[s]] = TRUE
    BY <2>1 DEF Proceeds, Starts
  <2>7. up[v][project[s]] = TRUE => up'[v][project[s]] = TRUE
    <3>1. \/ up'[v][project[s]] = up[v][project[s]] \/ Now(s) \in Starts(v)
          \/ \E w \in Service : Now(s) \in Downs(w)
      BY <1>0 DEF Moves, Changes, Starts, Downs
    <3> QED
      BY <2>3, <2>6, <3>1
  <2>8. Now(s) \in Final(v) => dir'[v][project[s]] = "full"
    BY <2>1 DEF Proceeds, Final, Written, Service
  <2>9. dir[v][project[s]] = "full" => dir'[v][project[s]] = "full" \/ Now(s) \in Spoils(v)
    <3>1. \/ dir'[v][project[s]] = dir[v][project[s]]
          \/ v = Now(s)[2] /\ Now(s)[1] \in {"create", "files", "save", "remove"}
      BY <1>0 DEF Moves, Changes
    <3>2. Now(s) = <<"save", v>> => dir'[v][project[s]] = "full"
      BY <2>1 DEF Proceeds
    <3>3. Now(s) = <<"files", v>> => Now(s) \in Final(v) \/ Now(s) \in Spoils(v)
      BY DEF Final, Spoils
    <3>4. Now(s) = <<"create", v>> => Now(s) \in Spoils(v)
      BY DEF Spoils
    <3> QED
      BY <1>0, <2>3, <2>8, <3>1, <3>2, <3>3, <3>4 DEF Removes
  <2> QED
    BY <1>2, <2>1, <2>2, <2>3, <2>4, <2>5, <2>6, <2>7, <2>8, <2>9
<1> QED
  BY <1>1, <1>2

\* A disposable command keeps track of what it must remove.
LEMMA MovesDisposable ==
  ASSUME LocalInv, TypeOK', NEW s \in Slot, Moves(s)
  PROVE  DisposableOnTrack' /\ DisposableLeavesNothing'
<1>0. /\ todo[s] \in Seq(Steps) /\ todo[s] # <<>> /\ project[s] \in Project
      /\ armed[s] \in SUBSET Service
      /\ Now(s) = Head(todo[s]) /\ Now(s) = <<Now(s)[1], Now(s)[2]>>
      /\ Now(s)[1] \notin {"guard", "publish"} => Now(s)[2] \in Service
  BY NextStep DEF Moves, LocalInv, TypeOK, Now
<1>1. \A q \in Slot \ {s}, v \in Service : dir'[v][q] = dir[v][q] /\ up'[v][q] = up[v][q]
  BY MovesApart
<1>2. DisposableLeavesNothing'
  <2> SUFFICES ASSUME NEW q \in Slot, NEW v \in Service, Returned(q)', project[q] = q
      PROVE  /\ up'[v][q] => <<"containers", v>> \in dirty'[q]
             /\ dir'[v][q] \in {"partial", "full"} => <<"directory", v>> \in dirty'[q]
    BY DEF DisposableLeavesNothing, Moves
  <2>1. q # s /\ Returned(q)
    BY DEF Returned, Running, Moves
  <2>2. /\ up[v][q] => <<"containers", v>> \in dirty[q]
        /\ dir[v][q] \in {"partial", "full"} => <<"directory", v>> \in dirty[q]
    BY <2>1 DEF LocalInv, DisposableLeavesNothing
  <2>3. dirty'[q] = dirty[q] /\ up'[v][q] = up[v][q] /\ dir'[v][q] = dir[v][q]
    BY <1>1, <2>1 DEF Moves
  <2> QED
    BY <2>2, <2>3
<1>3. ASSUME NEW q \in Slot, q # s, project[q] = q, Running(q)
      PROVE  /\ CleansUp(todo'[q])
             /\ \A v \in Service :
                  /\ up'[v][q] = TRUE => <<"containers", v>> \in dirty'[q] \/ Has(todo'[q], Downs(v))
                  /\ dir'[v][q] \in {"partial", "full"} =>
                       <<"directory", v>> \in dirty'[q] \/ Has(todo'[q], Removes(v))
                  /\ /\ todo'[q] # <<>> /\ Head(todo'[q]) \notin Closing
                     /\ up'[v][q] = TRUE \/ dir'[v][q] \in {"partial", "full"}
                     => v \in armed'[q]
  <2>1. todo'[q] = todo[q] /\ armed'[q] = armed[q] /\ dirty'[q] = dirty[q]
    BY <1>3 DEF Moves
  <2> QED
    BY <1>1, <1>3, <2>1 DEF LocalInv, DisposableOnTrack, Filled, Now
<1>4. ASSUME project[s] = s
      PROVE  /\ CleansUp(todo'[s])
             /\ \A v \in Service :
                  /\ up'[v][s] = TRUE => <<"containers", v>> \in dirty'[s] \/ Has(todo'[s], Downs(v))
                  /\ dir'[v][s] \in {"partial", "full"} =>
                       <<"directory", v>> \in dirty'[s] \/ Has(todo'[s], Removes(v))
                  /\ /\ todo'[s] # <<>> /\ Head(todo'[s]) \notin Closing
                     /\ up'[v][s] = TRUE \/ dir'[v][s] \in {"partial", "full"}
                     => v \in armed'[s]
  <2>1. /\ CleansUp(todo[s])
        /\ \A v \in Service :
             /\ up[v][s] = TRUE => <<"containers", v>> \in dirty[s] \/ Has(todo[s], Downs(v))
             /\ dir[v][s] \in {"partial", "full"} =>
                  <<"directory", v>> \in dirty[s] \/ Has(todo[s], Removes(v))
             /\ /\ Now(s) \notin Closing
                /\ up[v][s] = TRUE \/ dir[v][s] \in {"partial", "full"}
                => v \in armed[s]
    BY <1>0, <1>4 DEF LocalInv, DisposableOnTrack, Moves, Filled
  <2>2. ASSUME NEW v \in Service, Now(s) \notin Closing,
               up'[v][s] = TRUE \/ dir'[v][s] \in {"partial", "full"}
        PROVE  v \in armed[s]
    <3>1. CASE up'[v][s] = up[v][s] /\ dir'[v][s] = dir[v][s]
      BY <2>1, <2>2, <3>1
    <3>2. CASE ~(up'[v][s] = up[v][s] /\ dir'[v][s] = dir[v][s])
      <4>1. Now(s)[2] = v /\ Now(s)[1] \in {"create", "files", "save", "remove", "start", "down"}
        BY <1>0, <1>4, <3>2, LocalAssumption DEF Moves, Changes
      <4>2. Now(s)[1] \notin {"remove", "down"}
        BY <1>0, <2>2, <4>1 DEF Closing
      <4>3. CASE Now(s)[1] = "create"
        <5>1. up'[v][s] = up[v][s] /\ dir'[v][s] \notin {"partial", "full"}
          BY <1>0, <1>4, <3>2, <4>1, <4>3 DEF Moves, Changes
        <5> QED
          BY <2>1, <2>2, <5>1
      <4>4. CASE Now(s) \in Builds(v)
        BY <1>0, <4>4, TailPreceded DEF LocalInv, ScriptsInOrder
      <4> QED
        BY <1>0, <4>1, <4>2, <4>3, <4>4 DEF Builds
    <3> QED
      BY <3>1, <3>2
  <2>3. CASE Errs(s)
    <3>1. Now(s) \notin Closing /\ todo'[s] = Unwind(armed[s]) /\ armed'[s] = armed[s]
      BY <2>3 DEF Errs
    <3>2. CleansUp(todo'[s]) /\ \A v \in armed[s] : Has(todo'[s], Downs(v)) /\ Has(todo'[s], Removes(v))
      BY <1>0, <3>1, UnwindSteps
    <3> QED
      BY <2>2, <3>1, <3>2
  <2>4. CASE Proceeds(s)
    <3> DEFINE t == Tail(todo[s])
    <3>0. todo'[s] = t /\ dirty[s] \subseteq dirty'[s]
      BY <2>4 DEF Proceeds
    <3>1. ASSUME NEW v \in Service
          PROVE  /\ Follows(t, {<<"start", v>>}, Downs(v)) /\ Follows(t, {<<"files", v>>}, Removes(v))
                 /\ ~Has(t, HandsOver(v)) /\ Now(s) \notin HandsOver(v)
                 /\ Now(s) = <<"start", v>> => Has(t, Downs(v))
                 /\ Now(s) = <<"files", v>> => Has(t, Removes(v))
      BY <1>0, <2>1, TailFollows, TailHas DEF CleansUp
    <3>2. CleansUp(t)
      BY <3>1 DEF CleansUp
    <3>3. ASSUME NEW v \in Service, up'[v][s] = TRUE
          PROVE  <<"containers", v>> \in dirty'[s] \/ Has(t, Downs(v))
      <4>1. CASE Now(s) = <<"start", v>>
        BY <3>1, <4>1
      <4>2. CASE Now(s) = <<"down", v>>
        BY <1>4, <2>4, <3>3, <4>2 DEF Proceeds
      <4>3. CASE Now(s) # <<"start", v>> /\ Now(s) # <<"down", v>>
        <5>1. up[v][s] = TRUE
          BY <1>0, <1>4, <3>3, <4>3, LocalAssumption DEF Moves, Changes
        <5>2. Has(todo[s], Downs(v)) => Has(t, Downs(v))
          BY <1>0, <4>3, TailHas DEF Downs
        <5> QED
          BY <2>1, <3>0, <5>1, <5>2
      <4> QED
        BY <4>1, <4>2, <4>3
    <3>4. ASSUME NEW v \in Service, dir'[v][s] \in {"partial", "full"}
          PROVE  <<"directory", v>> \in dirty'[s] \/ Has(t, Removes(v))
      <4>1. CASE Now(s) = <<"files", v>>
        BY <3>1, <4>1
      <4>2. CASE Now(s) = <<"remove", v>>
        BY <1>4, <2>4, <3>4, <4>2 DEF Proceeds
      <4>3. CASE Now(s) # <<"files", v>> /\ Now(s) # <<"remove", v>>
        <5>1. Now(s) # <<"save", v>>
          BY <3>1 DEF HandsOver
        <5>2. dir[v][s] \in {"partial", "full"}
          BY <1>0, <1>4, <3>4, <4>3, <5>1 DEF Moves, Changes
        <5>3. Has(todo[s], Removes(v)) => Has(t, Removes(v))
          BY <1>0, <4>3, TailHas DEF Removes
        <5> QED
          BY <2>1, <3>0, <5>2, <5>3
      <4> QED
        BY <4>1, <4>2, <4>3
    <3>5. ASSUME t # <<>>, Head(t) \notin Closing
          PROVE  Now(s) \notin Closing /\ armed[s] \subseteq armed'[s]
      <4>1. 1 \in DOMAIN t /\ Head(t) = t[1]
        BY <1>0, <3>5, TailIndex
      <4>2. Now(s) \notin Closing
        BY <1>0, <3>5, <4>1, TailLast DEF LocalInv, ScriptsInOrder
      <4>3. Now(s)[1] \notin {"remove", "disarm"}
        BY <1>0, <4>2 DEF Closing
      <4> QED
        BY <2>4, <4>2, <4>3 DEF Proceeds
    <3> HIDE DEF t
    <3> QED
      BY <2>2, <3>0, <3>2, <3>3, <3>4, <3>5
  <2> QED
    BY <2>3, <2>4 DEF Moves
<1>5. DisposableOnTrack'
  BY <1>3, <1>4 DEF DisposableOnTrack, Moves, Running, Filled, Now
<1> QED
  BY <1>2, <1>5

\* What a step may do to evidence, and what passing a guard means.
LEMMA StepEvidence ==
  ASSUME NEW s \in Slot, Step(s), ~Finish(s)
  PROVE  \/ /\ UNCHANGED <<evidence, touched>>
            /\ Now(s)[1] = "guard" =>
                 \/ todo' = [todo EXCEPT ![s] = Unwind(armed[s])]
                 \/ evidence[Now(s)[2]] = Nobody \/ replace[s]
         \/ /\ Now(s)[1] = "publish"
            /\ evidence' = [evidence EXCEPT ![Now(s)[2]] = s]
            /\ touched' = [q \in Slot |->
                             touched[q] \cup {x \in {Now(s)[2]} : q # s /\ Running(q)}]
<1>1. CASE Publish(s)
  BY <1>1 DEF Publish, IsNext
<1>2. CASE GuardEvidence(s)
  BY <1>2 DEF GuardEvidence, Fail, Same
<1>3. CASE ~Publish(s) /\ ~GuardEvidence(s)
  BY <1>3 DEF Step, IsNext, Same, Doctor, Create, Files, StartContainers, SaveState, DisarmCleanup,
              Open, Work, StopAndRemove, RemoveDirectory
<1> QED
  BY <1>1, <1>2, <1>3

\* Evidence passes from a guard to its publication only by its own command.
LEMMA StepGuarded ==
  ASSUME LocalInv, NEW s \in Slot, Step(s), ~Finish(s), Moves(s)
  PROVE  EvidenceGuarded'
<1>0. /\ todo[s] \in Seq(Steps) /\ todo[s] # <<>> /\ armed[s] \in SUBSET Service
      /\ Now(s) = Head(todo[s]) /\ Now(s) = <<Now(s)[1], Now(s)[2]>>
      /\ Now(s)[1] \in {"guard", "publish"} => Now(s)[2] \in Output
      /\ replace' = replace
  BY NextStep DEF Moves, LocalInv, TypeOK, Now
<1>1. /\ Once(Unwind(armed[s]), Publishes)
      /\ \A o \in Output : Preceded(Unwind(armed[s]), {<<"publish", o>>}, {<<"guard", o>>})
  BY <1>0, UnwindSteps DEF WellOrdered
<1>2. Once(Tail(todo[s]), Publishes) /\ (Now(s) \in Publishes => ~Has(Tail(todo[s]), Publishes))
  BY <1>0, TailOnce DEF LocalInv, EvidenceGuarded
<1>3. todo'[s] = Unwind(armed[s]) \/ todo'[s] = Tail(todo[s])
  BY DEF Moves, Errs, Proceeds
<1>4. CASE UNCHANGED <<evidence, touched>>
  <2>1. ASSUME NEW o \in Output
        PROVE  \/ evidence[o] = Nobody \/ replace[s] = TRUE \/ o \in touched[s]
               \/ Preceded(todo'[s], {<<"publish", o>>}, {<<"guard", o>>})
    <3>1. CASE todo'[s] = Unwind(armed[s])
      BY <1>1, <3>1
    <3>2. CASE todo'[s] = Tail(todo[s]) /\ todo'[s] # Unwind(armed[s])
      <4>1. Now(s) = <<"guard", o>> => evidence[o] = Nobody \/ replace[s] = TRUE
        <5>1. \A f : todo' = [todo EXCEPT ![s] = f] => todo'[s] = f
          BY DEF LocalInv, TypeOK
        <5>2. Now(s)[1] = "guard" => evidence[Now(s)[2]] = Nobody \/ replace[s]
          BY <1>4, <3>2, <5>1, StepEvidence
        <5>3. replace[s] \in BOOLEAN
          BY DEF LocalInv, TypeOK
        <5> QED
          BY <5>2, <5>3
      <4>2. \/ evidence[o] = Nobody \/ replace[s] = TRUE \/ o \in touched[s]
            \/ Preceded(todo[s], {<<"publish", o>>}, {<<"guard", o>>})
        BY DEF LocalInv, EvidenceGuarded
      <4>3. Preceded(todo[s], {<<"publish", o>>}, {<<"guard", o>>}) /\ Now(s) # <<"guard", o>> =>
              Preceded(Tail(todo[s]), {<<"publish", o>>}, {<<"guard", o>>})
        BY <1>0, TailPreceded
      <4> QED
        BY <3>2, <4>1, <4>2, <4>3
    <3> QED
      BY <1>3, <3>1, <3>2
  <2>2. Once(todo'[s], Publishes)
    BY <1>1, <1>2, <1>3
  <2>3. \A q \in Slot \ {s} : todo'[q] = todo[q]
    BY DEF Moves
  <2> QED
    BY <1>0, <1>4, <2>1, <2>2, <2>3 DEF LocalInv, EvidenceGuarded
<1>5. CASE /\ Now(s)[1] = "publish" /\ evidence' = [evidence EXCEPT ![Now(s)[2]] = s]
           /\ touched' = [q \in Slot |->
                            touched[q] \cup {x \in {Now(s)[2]} : q # s /\ Running(q)}]
  <2>1. Now(s) \in Publishes
    BY <1>0, <1>5 DEF Publishes
  <2>2. ~Has(todo'[s], Publishes) /\ Once(todo'[s], Publishes)
    BY <1>0, <1>1, <1>2, <1>3, <2>1, UnwindSteps
  <2>3. \A o \in Output : Preceded(todo'[s], {<<"publish", o>>}, {<<"guard", o>>})
    BY <2>2 DEF Preceded, Has, Publishes
  <2>4. ASSUME NEW q \in Slot, q # s
        PROVE  /\ Once(todo'[q], Publishes)
               /\ \A o \in Output :
                    \/ evidence'[o] = Nobody \/ replace[q] = TRUE \/ o \in touched'[q]
                    \/ Preceded(todo'[q], {<<"publish", o>>}, {<<"guard", o>>})
    <3>1. todo'[q] = todo[q]
      BY <2>4 DEF Moves
    <3>2. CASE Running(q)
      <4>1. touched'[q] = touched[q] \cup {Now(s)[2]}
        BY <1>5, <2>4, <3>2
      <4>2. \A o \in Output \ {Now(s)[2]} : evidence'[o] = evidence[o]
        BY <1>5 DEF LocalInv, TypeOK
      <4> QED
        BY <3>1, <4>1, <4>2 DEF LocalInv, EvidenceGuarded
    <3>3. CASE ~Running(q)
      <4>1. todo[q] = <<>>
        BY <3>3 DEF LocalInv, ScriptsInOrder
      <4> QED
        BY <3>1, <4>1 DEF Preceded, Once
    <3> QED
      BY <3>2, <3>3
  <2> QED
    BY <1>0, <2>2, <2>3, <2>4 DEF EvidenceGuarded
<1> QED
  BY <1>4, <1>5, StepEvidence

----------------------------------------------------------------------------
(* Commands begin and end.                                                 *)

\* A command with nothing left to do.
LEMMA EmptyList ==
  ASSUME NEW X, NEW Y
  PROVE  /\ ~Has(<<>>, X) /\ Follows(<<>>, X, Y) /\ Preceded(<<>>, X, Y)
         /\ Once(<<>>, X) /\ Last(<<>>, X)
BY DEF Has, Follows, Preceded, Once, Last

\* A command that is not running is responsible for nothing.
LEMMA IdleOwnsNothing ==
  ASSUME LocalInv, NEW s \in Slot, todo[s] = <<>>
  PROVE  armed[s] = {}
<1>1. \A v \in Service : v \notin armed[s]
  BY EmptyList DEF LocalInv, ScriptsInOrder
<1> QED
  BY <1>1 DEF LocalInv, TypeOK

\* Finish: what up announces is complete, what a disposable command leaves is
\* what it could not remove.
LEMMA FinishKeepsInv ==
  ASSUME LocalInv, NEW s \in Slot, Finish(s)
  PROVE  LocalInv'
<1>1. /\ Running(s) /\ todo[s] = <<>> /\ kind' = [kind EXCEPT ![s] = "none"]
      /\ replace' = [replace EXCEPT ![s] = FALSE] /\ touched' = [touched EXCEPT ![s] = {}]
      /\ ready' = ready \cup Announced(s)
      /\ UNCHANGED <<dir, up, todo, project, armed, result, dirty, runs, evidence, named>>
  BY DEF Finish, Forget
<1>2. /\ kind'[s] = "none" /\ \A q \in Slot \ {s} : kind'[q] = kind[q]
      /\ ~Running(s)' /\ \A q \in Slot \ {s} : Running(q)' <=> Running(q)
      /\ \A q \in Slot \ {s} : replace'[q] = replace[q] /\ touched'[q] = touched[q]
  BY <1>1 DEF LocalInv, TypeOK, Running
<1>3. ASSUME NEW e \in Announced(s)
      PROVE  \E v \in Service : e = <<v, project[s]>> /\ kind[s] = UpKind(v) /\ result[s] = "ok"
  BY <1>3 DEF Announced, UpKind, Service
<1>4. \A v \in Service : kind[s] = UpKind(v) => project[s] \in Manual
  BY DEF LocalInv, SlotsApart, UpKind, ManualKinds
<1>5. TypeOK'
  <2>1. ready' \subseteq Service \X Manual
    BY <1>1, <1>3, <1>4 DEF LocalInv, TypeOK
  <2> QED
    BY <1>1, <2>1 DEF LocalInv, TypeOK
<1>6. SlotsApart'
  BY <1>1, <1>2 DEF LocalInv, SlotsApart, ManualKinds, DisposableKinds
<1>7. ScriptsInOrder' /\ NamedFirst'
  BY <1>1, <1>2 DEF LocalInv, ScriptsInOrder, NamedFirst
<1>8. ReadyIsSpared'
  <2>1. ASSUME NEW e \in ready
        PROVE  /\ dir[e[1]][e[2]] = "full" /\ (up[e[1]][e[2]] = TRUE \/ NameShared(e[1], e[2]))
               /\ \A q \in Slot : Running(q)' /\ project[q] = e[2] =>
                    e[1] \notin armed[q] /\ Spares(todo[q], e[1])
    BY <1>2 DEF LocalInv, ReadyIsSpared
  <2>2. ASSUME NEW e \in Announced(s)
        PROVE  /\ dir[e[1]][e[2]] = "full" /\ (up[e[1]][e[2]] = TRUE \/ NameShared(e[1], e[2]))
               /\ \A q \in Slot : Running(q)' => project[q] # e[2]
    <3>1. PICK v \in Service : e = <<v, project[s]>> /\ kind[s] = UpKind(v) /\ result[s] = "ok"
      BY <1>3, <2>2
    <3>2. e[1] = v /\ e[2] = project[s]
      BY <3>1
    <3>3. dir[v][project[s]] = "full" /\ up[v][project[s]] = TRUE
      BY <1>1, <3>1, EmptyList DEF LocalInv, UpProgresses
    <3>4. \A q \in Slot : Running(q)' => project[q] # project[s]
      BY <1>1, <1>2 DEF LocalInv, SlotsApart
    <3> QED
      BY <3>2, <3>3, <3>4
  <2>3. ASSUME NEW e \in ready'
        PROVE  /\ dir[e[1]][e[2]] = "full" /\ (up[e[1]][e[2]] = TRUE \/ NameShared(e[1], e[2]))
               /\ \A q \in Slot : Running(q)' /\ project[q] = e[2] =>
                    e[1] \notin armed[q] /\ Spares(todo[q], e[1])
    BY <1>1, <2>1, <2>2
  <2> QED
    BY <1>1, <2>3 DEF ReadyIsSpared, Spares, NameShared
<1>9. UpProgresses'
  <2>1. \A q \in Slot, v \in Service : kind'[q] = UpKind(v) => kind[q] = UpKind(v)
    BY <1>2 DEF UpKind
  <2> QED
    BY <1>1, <2>1 DEF LocalInv, UpProgresses, Spares
<1>10. DisposableOnTrack'
  BY <1>1, <1>2 DEF LocalInv, DisposableOnTrack, Filled, CleansUp, Now
<1>11. DisposableLeavesNothing'
  <2> SUFFICES ASSUME NEW q \in Slot, NEW v \in Service, Returned(q)', project[q] = q
      PROVE  /\ up[v][q] => <<"containers", v>> \in dirty[q]
             /\ dir[v][q] \in {"partial", "full"} => <<"directory", v>> \in dirty[q]
    BY <1>1 DEF DisposableLeavesNothing
  <2>1. CASE q = s
    <3>1. ~Has(todo[s], Downs(v)) /\ ~Has(todo[s], Removes(v))
      BY <1>1, EmptyList
    <3>2. up[v][s] \in BOOLEAN
      BY <2>1 DEF LocalInv, TypeOK, Project
    <3> QED
      BY <1>1, <2>1, <3>1, <3>2 DEF LocalInv, DisposableOnTrack, Filled
  <2>2. CASE q # s
    <3>1. Returned(q)
      BY <1>1, <1>2, <2>2 DEF Returned
    <3> QED
      BY <3>1 DEF LocalInv, DisposableLeavesNothing
  <2> QED
    BY <2>1, <2>2
<1>12. EvidenceGuarded'
  <2>1. Once(todo[s], Publishes)
        /\ \A o \in Output : Preceded(todo[s], {<<"publish", o>>}, {<<"guard", o>>})
    BY <1>1, EmptyList
  <2> QED
    BY <1>1, <1>2, <2>1 DEF LocalInv, EvidenceGuarded
<1> QED
  BY <1>5, <1>6, <1>7, <1>8, <1>9, <1>10, <1>11, <1>12 DEF LocalInv

\* A killed command forgets what it owned; its project is never reported clean.
LEMMA KilledKeepsInv ==
  ASSUME LocalInv, NEW s \in Slot, Killed(s)
  PROVE  LocalInv'
<1>1. /\ Running(s) /\ kind' = [kind EXCEPT ![s] = "none"] /\ todo' = [todo EXCEPT ![s] = <<>>]
      /\ armed' = [armed EXCEPT ![s] = {}] /\ result' = [result EXCEPT ![s] = "killed"]
      /\ dirty' = [dirty EXCEPT ![s] = {}]
      /\ replace' = [replace EXCEPT ![s] = FALSE] /\ touched' = [touched EXCEPT ![s] = {}]
      /\ UNCHANGED <<dir, up, project, runs, evidence, ready, named>>
  BY DEF Killed, Forget
<1>2. TypeOK'
  BY <1>1 DEF LocalInv, TypeOK
<1>3. /\ kind'[s] = "none" /\ todo'[s] = <<>> /\ armed'[s] = {} /\ result'[s] = "killed"
      /\ ~Running(s)' /\ \A q \in Slot \ {s} : Running(q)' <=> Running(q)
      /\ \A q \in Slot \ {s} : /\ kind'[q] = kind[q] /\ todo'[q] = todo[q] /\ armed'[q] = armed[q]
                               /\ result'[q] = result[q] /\ dirty'[q] = dirty[q]
                               /\ replace'[q] = replace[q] /\ touched'[q] = touched[q]
  BY <1>1 DEF LocalInv, TypeOK, Running
<1>4. SlotsApart'
  BY <1>1, <1>3 DEF LocalInv, SlotsApart, ManualKinds, DisposableKinds
<1>5. ScriptsInOrder' /\ NamedFirst'
  <2>1. ScriptsInOrder'
    BY <1>1, <1>3, EmptyList DEF LocalInv, ScriptsInOrder
  <2>2. NamedFirst'
    BY <1>1, <1>3 DEF LocalInv, NamedFirst
  <2> QED
    BY <2>1, <2>2
<1>6. ReadyIsSpared'
  BY <1>1, <1>3 DEF LocalInv, ReadyIsSpared, Spares, NameShared
<1>7. UpProgresses'
  BY <1>1, <1>3 DEF LocalInv, UpProgresses, Spares
<1>8. DisposableOnTrack'
  BY <1>1, <1>3 DEF LocalInv, DisposableOnTrack, Filled, CleansUp, Now
<1>9. DisposableLeavesNothing'
  BY <1>1, <1>3 DEF LocalInv, DisposableLeavesNothing, Returned
<1>10. EvidenceGuarded'
  <2>1. /\ Once(todo'[s], Publishes)
        /\ \A o \in Output : Preceded(todo'[s], {<<"publish", o>>}, {<<"guard", o>>})
    BY <1>3, EmptyList
  <2> QED
    BY <1>1, <1>3, <2>1 DEF LocalInv, EvidenceGuarded
<1> QED
  BY <1>2, <1>4, <1>5, <1>6, <1>7, <1>8, <1>9, <1>10 DEF LocalInv

\* A command begins with its script, owning nothing.
LEMMA InvokeKeepsInv ==
  ASSUME LocalInv, NEW s \in Slot, NEW k \in ManualKinds \cup DisposableKinds, NEW p \in Project,
         NEW r \in BOOLEAN, Invoke(s, k, p, r)
  PROVE  LocalInv'
<1> DEFINE script == Script(k, p)
<1>1. /\ WellOrdered(script)
      /\ k \in DisposableKinds => CleansUp(script)
      /\ \A v \in Service :
           /\ k \in ManualKinds /\ k # DownKind(v) => Spares(script, v)
           /\ k = UpKind(v) => Completes(script, v)
           /\ k \in ManualKinds /\ k # UpKind(v) => ~Has(script, Creates(v))
           /\ k = DownKind(v) /\ Has(script, Downs(v)) => from_state(v, p)
  BY ScriptFacts
<1> HIDE DEF script
<1>2. /\ ~Running(s) /\ runs[s] < MaxRuns
      /\ k \in ManualKinds => p \in Manual /\ \A q \in Slot : Running(q) => project[q] # p
      /\ k \in DisposableKinds => p = s /\ \A v \in Service : dir[v][s] = "none" /\ ~up[v][s]
      /\ runs' = [runs EXCEPT ![s] = @ + 1]
      /\ kind' = [kind EXCEPT ![s] = k] /\ project' = [project EXCEPT ![s] = p]
      /\ todo' = [todo EXCEPT ![s] = script] /\ replace' = [replace EXCEPT ![s] = r]
      /\ result' = [result EXCEPT ![s] = "ok"] /\ dirty' = [dirty EXCEPT ![s] = {}]
      /\ touched' = [touched EXCEPT ![s] = {}]
      /\ UNCHANGED <<dir, up, armed, evidence>>
  BY DEF Invoke, script
<1>3. ready' \subseteq ready /\ \A v \in Service : k = DownKind(v) => <<v, p>> \notin ready'
  BY DEF Invoke, DownKind, Service
<1>3a. /\ named \subseteq named' /\ \A v \in Service : k = UpKind(v) => <<v, p>> \in named'
       /\ \A e \in named' : e \in named \/ (e[1] \in Service /\ e = <<e[1], p>> /\ p \in Manual)
  BY <1>2 DEF Invoke, UpKind, Service, ManualKinds
<1>4. TypeOK'
  <2>1. runs' \in [Slot -> 0..MaxRuns]
    BY <1>2, LocalAssumption DEF LocalInv, TypeOK
  <2>2. named' \subseteq Service \X Manual
    BY <1>3a DEF LocalInv, TypeOK
  <2> QED
    BY <1>1, <1>2, <1>3, <2>1, <2>2 DEF LocalInv, TypeOK, WellOrdered
<1>5. /\ kind'[s] = k /\ project'[s] = p /\ todo'[s] = script /\ dirty'[s] = {} /\ result'[s] = "ok"
      /\ Running(s)' /\ \A q \in Slot \ {s} : Running(q)' <=> Running(q)
      /\ \A q \in Slot \ {s} : /\ kind'[q] = kind[q] /\ todo'[q] = todo[q] /\ project'[q] = project[q]
                               /\ result'[q] = result[q] /\ dirty'[q] = dirty[q]
                               /\ replace'[q] = replace[q] /\ touched'[q] = touched[q]
  BY <1>2 DEF LocalInv, TypeOK, Running, ManualKinds, DisposableKinds
<1>6. armed[s] = {} /\ armed' = armed
  BY <1>2, IdleOwnsNothing DEF LocalInv, ScriptsInOrder
<1>7. ManualKinds \cap DisposableKinds = {}
  BY DEF ManualKinds, DisposableKinds
<1>8. SlotsApart'
  <2>1. p \in Manual \cup {s} /\ \A q \in Slot \ {s} : Running(q) => project[q] # p
    BY <1>2, LocalAssumption DEF LocalInv, SlotsApart
  <2> QED
    BY <1>2, <1>5, <1>7, <2>1 DEF LocalInv, SlotsApart
<1>9. ScriptsInOrder'
  BY <1>1, <1>5, <1>6 DEF LocalInv, ScriptsInOrder, WellOrdered
<1>9a. NamedFirst'
  <2>1. \A v \in Service, x \in Manual : dir'[v][x] # "none" => <<v, x>> \in named'
    BY <1>2, <1>3a DEF LocalInv, NamedFirst
  <2>2. ASSUME NEW v \in Service, p \in Manual,
               Has(script, Creates(v)) \/ Has(script, Downs(v)) \/ v \in armed[s]
        PROVE  <<v, p>> \in named'
    <3>1. k \in ManualKinds
      BY <1>2, <2>2, LocalAssumption
    <3>2. k = UpKind(v) \/ (k = DownKind(v) /\ Has(script, Downs(v)))
      BY <1>1, <1>6, <2>2, <3>1 DEF Spares
    <3>3. k = DownKind(v) /\ Has(script, Downs(v)) => dir[v][p] = "full"
      BY <1>1 DEF from_state
    <3> QED
      BY <1>2, <1>3a, <2>1, <2>2, <3>2, <3>3
  <2>3. ASSUME NEW q \in Slot, NEW v \in Service, Running(q)', project'[q] \in Manual,
               Has(todo'[q], Creates(v)) \/ Has(todo'[q], Downs(v)) \/ v \in armed'[q]
        PROVE  <<v, project'[q]>> \in named'
    <3>1. CASE q = s
      BY <1>5, <1>6, <2>2, <2>3, <3>1
    <3>2. CASE q # s
      BY <1>3a, <1>5, <1>6, <2>3, <3>2 DEF LocalInv, NamedFirst
    <3> QED
      BY <3>1, <3>2
  <2> QED
    BY <2>1, <2>3 DEF NamedFirst
<1>10. ReadyIsSpared'
  <2> SUFFICES ASSUME NEW e \in ready'
      PROVE  /\ dir[e[1]][e[2]] = "full" /\ (up[e[1]][e[2]] = TRUE \/ NameShared(e[1], e[2]))
             /\ \A q \in Slot : Running(q)' /\ project'[q] = e[2] =>
                  e[1] \notin armed[q] /\ Spares(todo'[q], e[1])
    BY <1>2, <1>3a DEF ReadyIsSpared, NameShared
  <2>1. e \in ready /\ e = <<e[1], e[2]>> /\ e[1] \in Service /\ e[2] \in Manual
    BY <1>3 DEF LocalInv, TypeOK
  <2>2. ASSUME p = e[2] PROVE Spares(script, e[1])
    <3>1. k \in ManualKinds
      BY <1>2, <2>1, <2>2, LocalAssumption
    <3>2. k # DownKind(e[1])
      BY <1>3, <2>1, <2>2
    <3> QED
      BY <1>1, <2>1, <3>1, <3>2
  <2> QED
    BY <1>5, <1>6, <2>1, <2>2 DEF LocalInv, ReadyIsSpared
<1>11. UpProgresses'
  <2> SUFFICES ASSUME NEW q \in Slot, NEW v \in Service, kind'[q] = UpKind(v), result'[q] = "ok"
      PROVE  /\ Has(todo'[q], Final(v)) \/ dir[v][project'[q]] = "full"
             /\ Has(todo'[q], Starts(v)) \/ up[v][project'[q]] = TRUE
             /\ Follows(todo'[q], Spoils(v), Final(v))
             /\ \A w \in Service : Spares(todo'[q], w)
    BY <1>2 DEF UpProgresses, Spares
  <2>1. CASE q = s
    <3>1. k \in ManualKinds /\ \A w \in Service : k # DownKind(w)
      BY <1>5, <2>1 DEF UpKind, DownKind, ManualKinds
    <3> QED
      BY <1>1, <1>5, <2>1, <3>1 DEF Completes
  <2>2. CASE q # s
    BY <1>5, <2>2 DEF LocalInv, UpProgresses
  <2> QED
    BY <2>1, <2>2
<1>12. DisposableOnTrack'
  <2>1. CASE p = s
    <3>1. k \in DisposableKinds
      BY <1>2, <2>1, LocalAssumption
    <3>2. CleansUp(script) /\ \A v \in Service : dir[v][s] = "none" /\ up[v][s] # TRUE
      BY <1>1, <1>2, <3>1
    <3>3. \A v \in Service : ~(up[v][s] = TRUE) /\ dir[v][s] \notin {"partial", "full"}
      BY <3>2
    <3>4. \A q \in Slot : q # s => project'[q] = project[q] /\ todo'[q] = todo[q]
                                 /\ dirty'[q] = dirty[q] /\ (Running(q)' <=> Running(q))
      BY <1>5
    <3>5. UNCHANGED <<dir, up, armed>> /\ todo'[s] = script
      BY <1>2, <1>5
    <3> QED
      BY <3>2, <3>3, <3>4, <3>5 DEF LocalInv, DisposableOnTrack, Filled, Now
  <2>2. CASE p # s
    BY <1>2, <1>5, <1>6, <2>2 DEF LocalInv, DisposableOnTrack, Filled, Now
  <2> QED
    BY <2>1, <2>2
<1>13. DisposableLeavesNothing'
  BY <1>2, <1>5 DEF LocalInv, DisposableLeavesNothing, Returned
<1>14. EvidenceGuarded'
  <2>1. /\ Once(todo'[s], Publishes)
        /\ \A o \in Output : Preceded(todo'[s], {<<"publish", o>>}, {<<"guard", o>>})
    BY <1>1, <1>5 DEF WellOrdered
  <2> QED
    BY <1>2, <1>5, <2>1 DEF LocalInv, EvidenceGuarded
<1> QED
  BY <1>4, <1>8, <1>9, <1>9a, <1>10, <1>11, <1>12, <1>13, <1>14 DEF LocalInv

\* Every step keeps the invariant.
LEMMA LocalStep ==
  ASSUME LocalInv, [Next]_vars
  PROVE  LocalInv'
<1>1. ASSUME NEW s \in Slot, Step(s), ~Finish(s) PROVE LocalInv'
  <2>1. Moves(s) /\ TypeOK'
    BY <1>1, StepMoves DEF LocalInv
  <2> QED
    BY <1>1, <2>1, MovesInOrder, MovesNamed, MovesSpareReady, MovesUp, MovesDisposable, StepGuarded DEF LocalInv
<1>2. CASE UNCHANGED vars
  BY <1>2 DEF vars, LocalInv, TypeOK, SlotsApart, ScriptsInOrder, NamedFirst, ReadyIsSpared,
              UpProgresses, NameShared, DisposableOnTrack, DisposableLeavesNothing, EvidenceGuarded, Returned, Running, Filled,
              Now, Spares, CleansUp
<1> QED
  BY <1>1, <1>2, FinishKeepsInv, KilledKeepsInv, InvokeKeepsInv DEF Next

\* The inductive invariant of the local environments.
THEOREM LocalInvariant == Spec => []LocalInv
BY LocalInit, LocalStep, PTL DEF Spec

----------------------------------------------------------------------------
(* What the commands promise.                                              *)

\* run_disposable, verify_integration and the destructors leave containers or
\* credentials behind only where removing them failed, for any number of
\* commands that run side by side and fail at any step.
THEOREM NothingLeftBehind == Spec => []DisposableLeavesNothing
BY LocalInvariant, PTL DEF LocalInv

\* What up reported stays complete until its down is asked for, and running
\* unless its name was given to the other service as well.
THEOREM ReadyStaysReady == Spec => []ReadyUntilDown
<1>1. LocalInv => ReadyUntilDown
  BY DEF LocalInv, ReadyIsSpared, ReadyUntilDown
<1> QED
  BY <1>1, LocalInvariant, PTL

\* Only a command with --replace, or one that the evidence overtook after its
\* guard, replaces evidence that exists.
THEOREM EvidenceReplacedOnRequest == Spec => EvidenceIsKept
<1>1. ASSUME LocalInv, [Next]_vars, NEW o \in Output,
             evidence[o] # Nobody, evidence'[o] # evidence[o]
      PROVE  \E s \in Slot : s = evidence'[o] /\ (replace[s] \/ o \in touched[s])
  <2>1. PICK s \in Slot : Step(s) /\ ~Finish(s)
    BY <1>1 DEF Next, vars, Invoke, Killed, Finish
  <2>2. Now(s)[1] = "publish" /\ evidence' = [evidence EXCEPT ![Now(s)[2]] = s]
    BY <1>1, <2>1, StepEvidence
  <2>3. o = Now(s)[2] /\ evidence'[o] = s
    BY <1>1, <2>2 DEF LocalInv, TypeOK
  <2>4. todo[s] # <<>>
    BY <1>1, <2>1, StepMoves DEF LocalInv, Moves
  <2>5. todo[s] \in Seq(Steps) /\ Now(s) = <<"publish", o>> /\ Now(s) = Head(todo[s])
    BY <1>1, <2>2, <2>3, <2>4, NextStep DEF LocalInv, TypeOK, Now
  <2>6. ~Preceded(todo[s], {<<"publish", o>>}, {<<"guard", o>>})
    BY <2>4, <2>5, TailPreceded
  <2> QED
    BY <1>1, <2>3, <2>6 DEF LocalInv, EvidenceGuarded
<1>2. LocalInv /\ [Next]_vars =>
        [\A o \in Output :
           evidence[o] # Nobody /\ evidence'[o] # evidence[o]
           => \E s \in Slot : s = evidence'[o] /\ (replace[s] \/ o \in touched[s])]_vars
  BY <1>1
<1> QED
  BY <1>2, LocalInvariant, PTL DEF Spec, EvidenceIsKept
=============================================================================
