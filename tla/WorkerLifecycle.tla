-------------------------- MODULE WorkerLifecycle --------------------------
(***************************************************************************)
(* A worker process from spawn to exit: the TaskSupervisor that owns its   *)
(* tasks and the shutdown sequence of the worker's main function.          *)
(***************************************************************************)
EXTENDS Integers, FiniteSets

CONSTANTS
  Task,    \* publisher, command consumer, event consumer
  Timed    \* the consumers: their use of the database is under handler_timeout

ASSUME LifecycleAssumption == Timed \subseteq Task

VARIABLES
  task,      \* state of each task's future
  holding,   \* tasks with a connection checked out of the pool
  joined,    \* tasks whose result the supervisor has taken from the JoinSet
  root,      \* the root cancellation token is cancelled
  signal,    \* what the shutdown future resolves to
  phase,     \* where main and run_until_shutdown stand
  result     \* what run_until_shutdown returns, provisional while draining

vars == <<task, holding, joined, root, signal, phase, result>>

Ended == {"ok", "failed", "panicked", "aborted"}
Results == {"none", "reason", "signalError", "taskFailed", "joinFailed", "timedOut"}
Phases == {"start", "run", "drain", "returned", "natsDrained", "closing", "closed", "exited"}

TypeOK ==
  /\ task \in [Task -> {"unspawned", "running"} \cup Ended]
  /\ holding \subseteq Task
  /\ joined \subseteq Task
  /\ root \in BOOLEAN
  /\ signal \in {"none", "reason", "signalError"}
  /\ phase \in Phases
  /\ result \in Results

Init ==
  /\ task = [t \in Task |-> "unspawned"]
  /\ holding = {}
  /\ joined = {}
  /\ root = FALSE
  /\ signal = "none"
  /\ phase = "start"
  /\ result = "none"

Running == {t \in Task : task[t] = "running"}
Registered == {t \in Task : task[t] # "unspawned"} \ joined

\* What run_until_shutdown returns for a task that did not end well.
Verdict(t) == IF task[t] = "failed" THEN "taskFailed" ELSE "joinFailed"

\* abort_all, joined to the end: the futures are dropped, and with them
\* the connections they hold.
AbortAll ==
  /\ task' = [t \in Task |-> IF t \in Running THEN "aborted" ELSE task[t]]
  /\ holding' = {}

Spawn(t) ==
  /\ phase = "start"
  /\ ~root
  /\ task[t] = "unspawned"
  /\ task' = [task EXCEPT ![t] = "running"]
  /\ phase' = IF Registered \cup {t} = Task THEN "run" ELSE phase
  /\ UNCHANGED <<holding, joined, root, signal, result>>

\* A task's statement or transaction takes a connection, until the pool is
\* closed; a call that has one may wait for its answer for ever.
Acquire(t) ==
  /\ task[t] = "running"
  /\ phase \notin {"closing", "closed"}
  /\ holding' = holding \cup {t}
  /\ UNCHANGED <<task, joined, root, signal, phase, result>>

\* The call returns, or handler_timeout drops its future.
Release(t) ==
  /\ t \in holding
  /\ holding' = holding \ {t}
  /\ UNCHANGED <<task, joined, root, signal, phase, result>>

\* A task returns Ok only after it saw the cancellation; it may fail or panic
\* at any time, and it may ignore the cancellation for ever.
TaskEnds(t) ==
  /\ task[t] = "running"
  /\ \E r \in {"ok", "failed", "panicked"} :
       /\ r = "ok" => root
       /\ task' = [task EXCEPT ![t] = r]
  /\ holding' = holding \ {t}
  /\ UNCHANGED <<joined, root, signal, phase, result>>

Signal ==
  /\ signal = "none"
  /\ signal' \in {"reason", "signalError"}
  /\ UNCHANGED <<task, holding, joined, root, phase, result>>

\* run_until_shutdown: the select between the shutdown future and the next
\* finished task; when both are ready either branch may be taken.
ShutdownArrives ==
  /\ phase = "run"
  /\ signal # "none"
  /\ root' = TRUE
  /\ phase' = "drain"
  /\ result' = signal
  /\ UNCHANGED <<task, holding, joined, signal>>

JoinWhileRunning(t) ==
  /\ phase = "run"
  /\ t \in Registered
  /\ task[t] \in Ended
  /\ joined' = joined \cup {t}
  /\ IF task[t] = "ok"
     THEN UNCHANGED <<root, phase, result>>
     ELSE root' = TRUE /\ phase' = "drain" /\ result' = Verdict(t)
  /\ UNCHANGED <<task, holding, signal>>

\* A mutant of JoinWhileDraining: results of draining tasks are discarded.
JoinAnything(t) ==
  /\ phase = "drain"
  /\ t \in Registered
  /\ task[t] \in Ended
  /\ joined' = joined \cup {t}
  /\ UNCHANGED <<task, holding, root, signal, phase, result>>

\* drain: a failing task ends the drain at once, whatever its siblings do.
JoinWhileDraining(t) ==
  /\ phase = "drain"
  /\ t \in Registered
  /\ task[t] \in Ended
  /\ joined' = joined \cup {t}
  /\ IF task[t] = "ok"
     THEN UNCHANGED <<phase, result>>
     ELSE phase' = "returned" /\ result' = Verdict(t)
  /\ UNCHANGED <<task, holding, root, signal>>

DrainComplete ==
  /\ phase = "drain"
  /\ Registered = {}
  /\ phase' = "returned"
  /\ UNCHANGED <<task, holding, joined, root, signal, result>>

\* A mutant of GraceExpires: the drain is not bounded.
GraceNever == FALSE

GraceExpires ==
  /\ phase = "drain"
  /\ Registered # {}
  /\ AbortAll
  /\ joined' = Task
  /\ phase' = "returned"
  /\ result' = "timedOut"
  /\ UNCHANGED <<root, signal>>

\* main: bounded NATS drain, database close, then the supervisor is dropped,
\* which aborts whatever still runs.  PgPool::close turns new callers away and
\* waits, without a bound, for the connections that are out.
DrainNats ==
  /\ phase = "returned"
  /\ phase' = "natsDrained"
  /\ UNCHANGED <<task, holding, joined, root, signal, result>>

ClosePool ==
  /\ phase = "natsDrained"
  /\ phase' = "closing"
  /\ UNCHANGED <<task, holding, joined, root, signal, result>>

CloseDatabase ==
  /\ phase = "closing"
  /\ holding = {}
  /\ phase' = "closed"
  /\ UNCHANGED <<task, holding, joined, root, signal, result>>

Exit ==
  /\ phase = "closed"
  /\ AbortAll
  /\ root' = TRUE
  /\ phase' = "exited"
  /\ UNCHANGED <<joined, signal, result>>

Supervise ==
  \/ \E t \in Task : Spawn(t) \/ JoinWhileRunning(t) \/ JoinWhileDraining(t)
  \/ ShutdownArrives
  \/ DrainComplete
  \/ GraceExpires
  \/ DrainNats
  \/ ClosePool
  \/ CloseDatabase
  \/ Exit

Next ==
  \/ Supervise
  \/ \E t \in Task : TaskEnds(t) \/ Acquire(t) \/ Release(t)
  \/ Signal

Spec == Init /\ [][Next]_vars

\* The supervisor, the grace timer and the handler timeouts always run; tasks
\* owe nothing else.  The publisher's statements have a timeout in the server
\* only, so a lost connection can keep it waiting for ever.
FairSpec ==
  /\ Spec
  /\ WF_vars(Supervise)
  /\ \A t \in Timed : WF_vars(Release(t))

----------------------------------------------------------------------------
(* Correctness.                                                            *)

\* What run_until_shutdown returned is true when main acts on it. A clean
\* shutdown lost no task failure: every task returned Ok, none was aborted and
\* none is still running. A timed-out drain left nothing running behind it.
ReportedOutcomeIsTrue ==
  phase \notin {"start", "run", "drain"} =>
    /\ result = "reason" => \A t \in Task : task[t] = "ok" /\ t \in joined
    /\ result = "timedOut" => Running = {}

EndIsDue == signal # "none" \/ \E t \in Task : task[t] \in {"failed", "panicked"}

\* drain returned at a failing task, and a sibling that nothing bounds still
\* has a connection for which PgPool::close waits.
HungSibling ==
  /\ phase = "closing"
  /\ result \in {"taskFailed", "joinFailed"}
  /\ \E t \in holding \ Timed : task[t] = "running"

\* A failed task or a shutdown signal ends the process, even when the
\* remaining tasks ignore the cancellation or never give a connection back;
\* the one exception is the hung sibling of a drain that returned early.
EventuallyExits == <>[]HungSibling \/ (EndIsDue ~> phase = "exited")
============================================================================
