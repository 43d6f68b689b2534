-------------------------- MODULE LocalEnvironment --------------------------
(***************************************************************************)
(* The xtask commands that create and remove local PostgreSQL and NATS     *)
(* environments: manual projects (up, down, migrate, provision) and the    *)
(* disposable ones of the verification and qualification commands. An      *)
(* environment is a directory with generated credentials and a state file, *)
(* and the containers of a Compose project. The two services have their    *)
(* own directories and Compose files, and one name space of projects.      *)
(* Docker and file operations fail, and a command can be killed at any     *)
(* moment: then no destructor runs.                                        *)
(***************************************************************************)
EXTENDS Integers, FiniteSets, Sequences

CONSTANTS
  Slot,      \* commands that may run at the same time
  Manual,    \* names of manual projects
  MaxRuns,   \* bound: commands started per slot
  Nobody

ASSUME LocalAssumption ==
  /\ Slot \cap Manual = {}
  /\ MaxRuns \in Nat
  /\ Nobody \notin Slot

\* A disposable project has a name of its own: that of its slot stands for it.
\* (verify_integration has one for each service.)
Project == Manual \cup Slot
Service == {"pg", "nats"}
Output == {"tenancy", "message", "nats"}

VARIABLES
  dir,        \* none, empty, partial (no state file) or full, per service and project
  up,         \* containers of the service exist in the Compose project
  todo,       \* steps the command of a slot has still to take
  kind,       \* the command, or "none"
  project,    \* the project it works on
  armed,      \* services whose destructor would clean up
  replace,    \* --replace was given
  result,     \* of the last command: "none", "ok", "failed", "killed"
  dirty,      \* what the last command tried to remove and could not
  runs,
  evidence,   \* who wrote the qualification evidence of an output
  touched,    \* outputs that somebody else wrote while the command ran
  ready,      \* manual environments that up reported and no down was asked for
  named       \* services that an up was asked for, with the name of the project

vars == <<dir, up, todo, kind, project, armed, replace, result, dirty, runs, evidence, touched,
          ready, named>>

-----------------------------------------------------------------------------
(* Commands as sequences of steps.                                         *)

\* Both halves of cleanup are attempted, whatever the first one does.
Cleanup(s) == <<<<"down", s>>, <<"remove", s>>>>

\* postgres::up saves the state file last, nats::up writes it in generate.
postgres_up == <<<<"doctor", "pg">>, <<"create", "pg">>, <<"files", "pg">>, <<"start", "pg">>,
                 <<"save", "pg">>, <<"disarm", "pg">>>>
nats_up == <<<<"doctor", "nats">>, <<"create", "nats">>, <<"files", "nats">>, <<"start", "nats">>,
             <<"disarm", "nats">>>>

\* An existing environment is found by its state file alone.
from_state(v, p) == dir[v][p] = "full"

\* Where from_state finds nothing, down is done.
postgres_down(p) == IF from_state("pg", p) THEN Cleanup("pg") ELSE <<>>
nats_down(p) == IF from_state("nats", p) THEN Cleanup("nats") ELSE <<>>

migrate_local == <<<<"open", "pg">>, <<"work", "pg">>>>
provision_local == <<<<"open", "nats">>, <<"work", "nats">>>>

\* run_disposable: prepare, start, migrations and checks, cleanup.
run_disposable(steps) ==
  <<<<"create", "pg">>, <<"files", "pg">>, <<"start", "pg">>, <<"work", "pg">>>>
    \o steps \o Cleanup("pg")

\* verify, verify_message_store: the evidence goes to a temporary directory.
postgres_verify == <<<<"doctor", "pg">>>> \o run_disposable(<<<<"work", "pg">>>>)

\* qualify, qualify_message_store: the existing evidence is guarded first.
postgres_qualify == <<<<"doctor", "pg">>, <<"guard", "tenancy">>>>
                      \o run_disposable(<<<<"publish", "tenancy">>>>)
qualify_message_store == <<<<"doctor", "pg">>, <<"guard", "message">>>>
                           \o run_disposable(<<<<"publish", "message">>>>)

\* A mutant of verify_integration: PostgreSQL is cleaned up only by a failure.
verify_integration_leaky(steps) ==
  <<<<"doctor", "pg">>, <<"doctor", "nats">>,
    <<"create", "pg">>, <<"files", "pg">>, <<"create", "nats">>, <<"files", "nats">>,
    <<"start", "pg">>, <<"start", "nats">>, <<"work", "pg">>, <<"work", "nats">>>>
    \o steps \o Cleanup("nats")

\* nats-qualification guards its output, or writes to a temporary directory.
nats_verification == <<<<"work", "nats">>>>
nats_qualification == <<<<"guard", "nats">>, <<"work", "nats">>, <<"publish", "nats">>>>

\* verify_integration: both environments, cleaned up in the opposite order.
verify_integration(steps) ==
  <<<<"doctor", "pg">>, <<"doctor", "nats">>,
    <<"create", "pg">>, <<"files", "pg">>, <<"create", "nats">>, <<"files", "nats">>,
    <<"start", "pg">>, <<"start", "nats">>, <<"work", "pg">>, <<"work", "nats">>>>
    \o steps \o Cleanup("nats") \o Cleanup("pg")

ManualKinds == {"postgres-up", "postgres-down", "migrate-local", "nats-up", "nats-down",
                "provision-nats-local"}
DisposableKinds == {"verify-postgres", "qualify-tenancy", "qualify-message-store",
                    "verify-nats", "qualify-nats"}

\* The dispatch of main.
Script(k, p) ==
  CASE k = "postgres-up" -> postgres_up
    [] k = "postgres-down" -> postgres_down(p)
    [] k = "migrate-local" -> migrate_local
    [] k = "nats-up" -> nats_up
    [] k = "nats-down" -> nats_down(p)
    [] k = "provision-nats-local" -> provision_local
    [] k = "verify-postgres" -> postgres_verify
    [] k = "qualify-tenancy" -> postgres_qualify
    [] k = "qualify-message-store" -> qualify_message_store
    [] k = "verify-nats" -> verify_integration(nats_verification)
    [] k = "qualify-nats" -> verify_integration(nats_qualification)

\* What an error leads to: the cleanup of every environment that was prepared,
\* by run_disposable and verify_integration or by the destructors.
Unwind(services) ==
  (IF "nats" \in services THEN Cleanup("nats") ELSE <<>>)
    \o (IF "pg" \in services THEN Cleanup("pg") ELSE <<>>)

-----------------------------------------------------------------------------
Steps == ({"doctor", "create", "files", "start", "save", "disarm", "open", "work", "down",
           "remove"} \X Service)
         \cup ({"guard", "publish"} \X Output)

TypeOK ==
  /\ dir \in [Service -> [Project -> {"none", "empty", "partial", "full"}]]
  /\ up \in [Service -> [Project -> BOOLEAN]]
  /\ todo \in [Slot -> Seq(Steps)]
  /\ kind \in [Slot -> {"none"} \cup ManualKinds \cup DisposableKinds]
  /\ project \in [Slot -> Project]
  /\ armed \in [Slot -> SUBSET Service]
  /\ replace \in [Slot -> BOOLEAN]
  /\ result \in [Slot -> {"none", "ok", "failed", "killed"}]
  /\ dirty \in [Slot -> SUBSET ({"containers", "directory"} \X Service)]
  /\ runs \in [Slot -> 0..MaxRuns]
  /\ evidence \in [Output -> Slot \cup {Nobody}]
  /\ touched \in [Slot -> SUBSET Output]
  /\ ready \subseteq Service \X Manual
  /\ named \subseteq Service \X Manual

Init ==
  /\ dir = [v \in Service |-> [p \in Project |-> "none"]]
  /\ up = [v \in Service |-> [p \in Project |-> FALSE]]
  /\ todo = [s \in Slot |-> <<>>]
  /\ kind = [s \in Slot |-> "none"]
  /\ project = [s \in Slot |-> s]
  /\ armed = [s \in Slot |-> {}]
  /\ replace = [s \in Slot |-> FALSE]
  /\ result = [s \in Slot |-> "none"]
  /\ dirty = [s \in Slot |-> {}]
  /\ runs = [s \in Slot |-> 0]
  /\ evidence = [o \in Output |-> Nobody]
  /\ touched = [s \in Slot |-> {}]
  /\ ready = {}
  /\ named = {}

Running(s) == kind[s] # "none"

\* An operator starts a command; two commands never work on one manual project
\* at the same time. The name of a disposable project is fresh.
Invoke(s, k, p, r) ==
  /\ ~Running(s) /\ runs[s] < MaxRuns
  /\ k \in ManualKinds => p \in Manual /\ \A q \in Slot : Running(q) => project[q] # p
  /\ k \in DisposableKinds => p = s /\ \A v \in Service : dir[v][s] = "none" /\ ~up[v][s]
  /\ r => k \in DisposableKinds \ {"verify-postgres", "verify-nats"}
  /\ runs' = [runs EXCEPT ![s] = @ + 1]
  /\ kind' = [kind EXCEPT ![s] = k]
  /\ project' = [project EXCEPT ![s] = p]
  /\ todo' = [todo EXCEPT ![s] = Script(k, p)]
  /\ replace' = [replace EXCEPT ![s] = r]
  /\ result' = [result EXCEPT ![s] = "ok"]
  /\ dirty' = [dirty EXCEPT ![s] = {}]
  /\ touched' = [touched EXCEPT ![s] = {}]
  /\ ready' = ready \ (CASE k = "postgres-down" -> {<<"pg", p>>}
                         [] k = "nats-down" -> {<<"nats", p>>}
                         [] OTHER -> {})
  /\ named' = named \cup (CASE k = "postgres-up" -> {<<"pg", p>>}
                            [] k = "nats-up" -> {<<"nats", p>>}
                            [] OTHER -> {})
  /\ UNCHANGED <<dir, up, armed, evidence>>

Now(s) == Head(todo[s])
IsNext(s, name) == Running(s) /\ todo[s] # <<>> /\ Now(s)[1] = name
Advance(s) == todo' = [todo EXCEPT ![s] = Tail(@)]
SetDir(s, value) == dir' = [dir EXCEPT ![Now(s)[2]][project[s]] = value]

\* An error: what was prepared is cleaned up, the command will fail.
Fail(s) ==
  /\ todo' = [todo EXCEPT ![s] = Unwind(armed[s])]
  /\ result' = [result EXCEPT ![s] = "failed"]

Same == UNCHANGED <<kind, project, replace, runs, touched, ready, named>>

\* doctor: files, Docker, image; no environment is touched yet.
Doctor(s) ==
  /\ IsNext(s, "doctor")
  /\ \/ Advance(s) /\ result' = result
     \/ Fail(s)
  /\ Same /\ UNCHANGED <<dir, up, armed, dirty, evidence>>

\* A mutant of Create: the destructor is armed before the directory is checked.
CreateArmedFirst(s) ==
  /\ IsNext(s, "create")
  /\ armed' = [armed EXCEPT ![s] = @ \cup {Now(s)[2]}]
  /\ IF dir[Now(s)[2]][project[s]] # "none"
     THEN /\ todo' = [todo EXCEPT ![s] = Unwind(armed'[s])]
          /\ result' = [result EXCEPT ![s] = "failed"] /\ dir' = dir
     ELSE SetDir(s, "empty") /\ Advance(s) /\ result' = result
  /\ Same /\ UNCHANGED <<up, dirty, evidence>>

\* prepare, first half: refuses a directory that exists, creates it and builds
\* the project value whose destructor is armed; an error before that value
\* exists leaves the new directory behind.
Create(s) ==
  /\ IsNext(s, "create")
  /\ IF dir[Now(s)[2]][project[s]] # "none"
     THEN Fail(s) /\ UNCHANGED <<dir, armed>>
     ELSE \/ /\ SetDir(s, "empty")
             /\ armed' = [armed EXCEPT ![s] = @ \cup {Now(s)[2]}]
             /\ Advance(s)
             /\ result' = result
          \/ SetDir(s, "empty") /\ Fail(s) /\ armed' = armed
          \/ Fail(s) /\ UNCHANGED <<dir, armed>>
  /\ Same /\ UNCHANGED <<up, dirty, evidence>>

\* write_credentials writes no state file.
Written(v) == IF v = "nats" THEN "full" ELSE "partial"

\* prepare, second half: write_credentials, or generate, which also writes the
\* state file of NATS. An error leaves some of the files to the destructor.
Files(s) ==
  /\ IsNext(s, "files")
  /\ \/ SetDir(s, Written(Now(s)[2])) /\ Advance(s) /\ result' = result
     \/ SetDir(s, "partial") /\ Fail(s)
  /\ Same /\ UNCHANGED <<up, armed, dirty, evidence>>

\* docker compose up --wait: a failure may leave containers behind.
StartContainers(s) ==
  /\ IsNext(s, "start")
  /\ \/ /\ up' = [up EXCEPT ![Now(s)[2]][project[s]] = TRUE]
        /\ (Advance(s) /\ result' = result) \/ Fail(s)
     \/ Fail(s) /\ up' = up
  /\ Same /\ UNCHANGED <<dir, armed, dirty, evidence>>

SaveState(s) ==
  /\ IsNext(s, "save")
  /\ \/ SetDir(s, "full") /\ Advance(s) /\ result' = result
     \/ Fail(s) /\ dir' = dir
  /\ Same /\ UNCHANGED <<up, armed, dirty, evidence>>

DisarmCleanup(s) ==
  /\ IsNext(s, "disarm")
  /\ armed' = [armed EXCEPT ![s] = {}]
  /\ Advance(s)
  /\ Same /\ UNCHANGED <<dir, up, result, dirty, evidence>>

\* from_state of migrate-local and provision-nats-local, and require_healthy.
Open(s) ==
  /\ IsNext(s, "open")
  /\ \/ /\ from_state(Now(s)[2], project[s])
        /\ Now(s)[2] = "pg" => up["pg"][project[s]]
        /\ Advance(s) /\ result' = result
     \/ Fail(s)
  /\ Same /\ UNCHANGED <<dir, up, armed, dirty, evidence>>

\* Migrations, provisioning, qualification into a temporary directory and the
\* checks of the binaries.
Work(s) ==
  /\ IsNext(s, "work")
  /\ \/ up[Now(s)[2]][project[s]] /\ Advance(s) /\ result' = result
     \/ Fail(s)
  /\ Same /\ UNCHANGED <<dir, up, armed, dirty, evidence>>

\* A mutant of GuardEvidence: evidence that is there is not looked for.
GuardNothing(s) ==
  /\ IsNext(s, "guard")
  /\ Advance(s)
  /\ Same /\ UNCHANGED <<dir, up, armed, result, dirty, evidence>>

\* guard_evidence_replacement, guard_message_evidence_replacement and the
\* guard_output of nats-qualification.
GuardEvidence(s) ==
  /\ IsNext(s, "guard")
  /\ IF evidence[Now(s)[2]] # Nobody /\ ~replace[s] THEN Fail(s)
     ELSE Advance(s) /\ result' = result
  /\ Same /\ UNCHANGED <<dir, up, armed, dirty, evidence>>

\* write_evidence does not look again: nats-qualification guarded its output
\* when it started, and the qualifications of PostgreSQL are told to replace
\* what is there by now. An error comes before or between the two files.
Publish(s) ==
  LET o == Now(s)[2] IN
  /\ IsNext(s, "publish")
  /\ \/ /\ evidence' = [evidence EXCEPT ![o] = s]
        /\ touched' = [q \in Slot |-> touched[q] \cup {x \in {o} : q # s /\ Running(q)}]
        /\ (Advance(s) /\ result' = result) \/ Fail(s)
     \/ Fail(s) /\ UNCHANGED <<evidence, touched>>
  /\ UNCHANGED <<dir, up, kind, project, armed, replace, dirty, runs, ready, named>>

\* Whose containers `down --volumes --remove-orphans` finds: those that carry
\* the name of the project, whichever Compose file started them.
Swept(v, p) == IF p \in Manual THEN Service ELSE {v}

\* docker compose down; its failure, after which some of the containers may be
\* gone, is reported after the rest was tried.
StopAndRemove(s) ==
  LET v == Now(s)[2] IN
  /\ IsNext(s, "down")
  /\ \E gone \in SUBSET Swept(v, project[s]) :
       /\ up' = [w \in Service |-> IF w \in gone THEN [up[w] EXCEPT ![project[s]] = FALSE] ELSE up[w]]
       /\ \/ gone = Swept(v, project[s]) /\ UNCHANGED <<result, dirty>>
          \/ /\ result' = [result EXCEPT ![s] = "failed"]
             /\ dirty' = [dirty EXCEPT ![s] = @ \cup {<<"containers", v>>}]
  /\ Advance(s)
  /\ Same /\ UNCHANGED <<dir, armed, evidence>>

\* The generated directory goes even when the containers could not be removed.
RemoveDirectory(s) ==
  /\ IsNext(s, "remove")
  /\ \/ SetDir(s, "none") /\ UNCHANGED <<result, dirty>>
     \/ /\ dir' = dir
        /\ result' = [result EXCEPT ![s] = "failed"]
        /\ dirty' = [dirty EXCEPT ![s] = @ \cup {<<"directory", Now(s)[2]>>}]
  /\ armed' = [armed EXCEPT ![s] = @ \ {Now(s)[2]}]
  /\ Advance(s)
  /\ Same /\ UNCHANGED <<up, evidence>>

\* What only the running command knows.
Forget(s) ==
  /\ replace' = [replace EXCEPT ![s] = FALSE]
  /\ touched' = [touched EXCEPT ![s] = {}]

\* The environment that a successful up command announces.
Announced(s) ==
  CASE result[s] = "ok" /\ kind[s] = "postgres-up" -> {<<"pg", project[s]>>}
    [] result[s] = "ok" /\ kind[s] = "nats-up" -> {<<"nats", project[s]>>}
    [] OTHER -> {}

Finish(s) ==
  /\ Running(s) /\ todo[s] = <<>>
  /\ kind' = [kind EXCEPT ![s] = "none"]
  /\ Forget(s)
  /\ ready' = ready \cup Announced(s)
  /\ UNCHANGED <<dir, up, todo, project, armed, result, dirty, runs, evidence, named>>

\* The command is killed, or interrupted from the terminal: it installs no
\* signal handler and no destructor runs.
Killed(s) ==
  /\ Running(s)
  /\ kind' = [kind EXCEPT ![s] = "none"]
  /\ todo' = [todo EXCEPT ![s] = <<>>]
  /\ armed' = [armed EXCEPT ![s] = {}]
  /\ result' = [result EXCEPT ![s] = "killed"]
  /\ dirty' = [dirty EXCEPT ![s] = {}]
  /\ Forget(s)
  /\ UNCHANGED <<dir, up, project, runs, evidence, ready, named>>

Step(s) ==
  \/ Doctor(s) \/ Create(s) \/ Files(s) \/ StartContainers(s) \/ SaveState(s)
  \/ DisarmCleanup(s) \/ Open(s) \/ Work(s) \/ GuardEvidence(s) \/ Publish(s)
  \/ StopAndRemove(s) \/ RemoveDirectory(s) \/ Finish(s)

Next ==
  \E s \in Slot :
    \/ \E k \in ManualKinds \cup DisposableKinds, p \in Project, r \in BOOLEAN : Invoke(s, k, p, r)
    \/ Step(s)
    \/ Killed(s)

Spec == Init /\ [][Next]_vars

-----------------------------------------------------------------------------
(* Properties.                                                             *)

Returned(s) == ~Running(s) /\ result[s] \in {"ok", "failed"}

\* A disposable command that returned, with whatever outcome, left containers
\* or generated credentials only where removing them itself had failed. (An
\* empty directory stays behind when prepare fails just after creating it.)
DisposableLeavesNothing ==
  \A s \in Slot, v \in Service :
    Returned(s) /\ project[s] = s =>
      /\ up[v][s] => <<"containers", v>> \in dirty[s]
      /\ dir[v][s] \in {"partial", "full"} => <<"directory", v>> \in dirty[s]

\* Another service was asked for under the name of the project.
NameShared(v, p) == \E w \in Service \ {v} : <<w, p>> \in named

\* An environment that up reported as ready keeps its directory until a down
\* is asked for it, and its containers unless somebody asked for the other
\* service under the same name: a second up, however it fails or is killed,
\* and the cleanup of other commands leave it alone.
ReadyUntilDown ==
  \A e \in ready : dir[e[1]][e[2]] = "full" /\ (up[e[1]][e[2]] \/ NameShared(e[1], e[2]))

\* Evidence that exists is replaced only on request, or by a command that
\* started before somebody else wrote it.
EvidenceIsKept ==
  [][\A o \in Output :
       evidence[o] # Nobody /\ evidence'[o] # evidence[o]
       => \E s \in Slot : s = evidence'[o] /\ (replace[s] \/ o \in touched[s])]_vars

=============================================================================
