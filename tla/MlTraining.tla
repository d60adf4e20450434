----------------------------- MODULE MlTraining -----------------------------
(***************************************************************************)
(* POST /ml/training-runs (api/ml_training.py, services/ml_training.py):   *)
(* the daily cap, the ml_training_runs row, the background task that       *)
(* drives the blackheart_train child, the shutdown hook of the lifespan    *)
(* and the reaper of the next boot.  A task, its child and its row can     *)
(* each outlive the other two; what may be left behind by whom is the      *)
(* subject.                                                                *)
(***************************************************************************)
EXTENDS Naturals, FiniteSets

CONSTANTS
    Runs,       \* the training runs requested, one POST each
    Agents,     \* the callers
    Owner,      \* the agent of each run
    Sequential, \* the agents that await each answer before they POST again
    DailyCap,   \* ml_training_daily_cap
    MaxFaults   \* bound on crashes, shutdowns, exceptions and refused writes

ASSUME MlAssumption ==
    /\ IsFiniteSet(Runs)
    /\ Owner \in [Runs -> Agents]
    /\ Sequential \subseteq Agents
    /\ DailyCap \in Nat \ {0}
    /\ MaxFaults \in Nat

VARIABLES
    status,   \* ml_training_runs.status of each run
    fresh,    \* the rows created within ml_training_daily_window_hours
    request,  \* how far the POST is
    task,     \* the background task: its step, the verdict it will write,
              \* and whether a cancellation is on its way
    child,    \* the operating system process of the run
    server,   \* the orchestrator process
    blind,    \* a status write was refused or cut off, and only logged
    faults    \* disturbances so far, at most MaxFaults

vars == <<status, fresh, request, task, child, server, blind, faults>>

Verdicts == {"COMPLETED", "FAILED", "TIMED_OUT"}

Terminal == Verdicts \cup {"ORPHANED"}

NoTask == [pc |-> "none", verdict |-> "FAILED", cancelled |-> FALSE]

Init ==
    /\ status = [r \in Runs |-> "ABSENT"]
    /\ fresh = {}
    /\ request = [r \in Runs |-> "idle"]
    /\ task = [r \in Runs |-> NoTask]
    /\ child = [r \in Runs |-> "none"]
    /\ server = "up"
    /\ blind = FALSE
    /\ faults = 0

Disturbed == faults < MaxFaults /\ faults' = faults + 1

Live(r) == task[r].pc # "none"

At(r, pc) == task[r].pc = pc /\ ~task[r].cancelled

Step(r, pc) == task' = [task EXCEPT ![r].pc = pc]

(* The task is to write v, whatever the path that led there.                *)
Decide(r, v) == task' = [task EXCEPT ![r].pc = "write", ![r].verdict = v]

(* Faulty: a cancellation that came too late stays behind. *)
EndUncancelled(r) == Step(r, "none")

End(r) == task' = [task EXCEPT ![r] = NoTask]

(* Faulty: the exception handler records the failure and no more. *)
SpareChild(r) == UNCHANGED child

(* _quiet_kill: the child may have exited in the meantime *)
KillChild(r) ==
    child' = [child EXCEPT ![r] = IF @ = "training" THEN "killed" ELSE @]

---------------------------------------------------------------------------
(* The rows *)

(* Faulty: without the guard on the statuses that are terminal already. *)
Overwrite(r, v) == status' = [status EXCEPT ![r] = v]

(* mark_terminal: a second terminal status is a no-op.                      *)
MarkTerminal(r, v) ==
    status' = [status EXCEPT ![r] = IF @ \in Terminal THEN @ ELSE v]

(* Budget-counted are PENDING, RUNNING and COMPLETED rows of the window.    *)
CountActiveInWindow(a) ==
    Cardinality({r \in fresh : Owner[r] = a /\ status[r] \in {"PENDING", "RUNNING", "COMPLETED"}})

---------------------------------------------------------------------------
(* The request *)

(* Faulty: the cap itself still passes. *)
CapLetsOneMore(a) == CountActiveInWindow(a) <= DailyCap

WithinCap(a) == CountActiveInWindow(a) < DailyCap

EnforceDailyCap(r) ==
    /\ server = "up" /\ request[r] = "idle"
    /\ Owner[r] \in Sequential =>
           \A s \in Runs : Owner[s] = Owner[r] => request[s] \in {"idle", "over"}
    /\ request' = [request EXCEPT ![r] = IF WithinCap(Owner[r]) THEN "admitted" ELSE "over"]
    /\ UNCHANGED <<status, fresh, task, child, server, blind, faults>>

InsertPending(r) ==
    /\ request[r] = "admitted"
    /\ status' = [status EXCEPT ![r] = "PENDING"]
    /\ fresh' = fresh \cup {r}

Insert(r) ==
    /\ InsertPending(r)
    /\ request' = [request EXCEPT ![r] = "inserted"]
    /\ UNCHANGED <<task, child, server, blind, faults>>

(* The row is committed, its answer is lost: the handler raises.            *)
InsertUnanswered(r) ==
    /\ InsertPending(r)
    /\ Disturbed
    /\ request' = [request EXCEPT ![r] = "over"]
    /\ UNCHANGED <<task, child, server, blind>>

StartTrainingRun(r) ==
    /\ request[r] = "inserted"
    /\ request' = [request EXCEPT ![r] = "over"]
    /\ Step(r, "created")
    /\ UNCHANGED <<status, fresh, child, server, blind, faults>>

---------------------------------------------------------------------------
(* The background task, _run_subprocess *)

FindInterpreter(r) ==
    /\ At(r, "created")
    /\ \/ Step(r, "spawn") /\ UNCHANGED faults
       \/ Disturbed /\ Decide(r, "FAILED")
    /\ UNCHANGED <<status, fresh, request, child, server, blind>>

Spawn(r) ==
    /\ At(r, "spawn")
    /\ child' = [child EXCEPT ![r] = "training"]
    /\ Step(r, "mark")
    /\ UNCHANGED <<status, fresh, request, server, blind, faults>>

MarkRunning(r) ==
    /\ At(r, "mark")
    /\ status' = [status EXCEPT ![r] = IF @ = "PENDING" THEN "RUNNING" ELSE @]
    /\ Step(r, "wait")
    /\ UNCHANGED <<fresh, request, child, server, blind, faults>>

ChildExited(r) ==
    /\ At(r, "wait")
    /\ child[r] \in {"succeeded", "failed"}
    /\ Decide(r, IF child[r] = "succeeded" THEN "COMPLETED" ELSE "FAILED")
    /\ UNCHANGED <<status, fresh, request, child, server, blind, faults>>

(* ml_training_max_seconds are over, maybe just as the child exits.         *)
WallClockExceeded(r) ==
    /\ At(r, "wait")
    /\ KillChild(r)
    /\ Decide(r, "TIMED_OUT")
    /\ UNCHANGED <<status, fresh, request, server, blind, faults>>

WriteTerminal(r) ==
    /\ At(r, "write")
    /\ MarkTerminal(r, task[r].verdict)
    /\ Step(r, "return")
    /\ UNCHANGED <<fresh, request, child, server, blind, faults>>

(* The connection goes back to the pool, the captures are deleted.          *)
Return(r) ==
    /\ At(r, "return")
    /\ End(r)
    /\ UNCHANGED <<status, fresh, request, child, server, blind, faults>>

(* Any exception after the first step: the handler kills a child that is   *)
(* still alive and then writes FAILED.                                     *)
TaskRaises(r) ==
    /\ \E pc \in {"spawn", "mark", "wait", "write", "return"} : At(r, pc)
    /\ Disturbed
    /\ KillChild(r)
    /\ Step(r, "except")
    /\ UNCHANGED <<status, fresh, request, server, blind>>

ExceptWrites(r) ==
    /\ At(r, "except")
    /\ MarkTerminal(r, "FAILED")
    /\ End(r)
    /\ UNCHANGED <<fresh, request, child, server, blind, faults>>

ExceptFails(r) ==
    /\ At(r, "except")
    /\ Disturbed
    /\ End(r)
    /\ blind' = TRUE
    /\ UNCHANGED <<status, fresh, request, child, server>>

---------------------------------------------------------------------------
(* Shutdown, death and boot of the orchestrator *)

(* Faulty: the tasks are left to the event loop, which closes. *)
ShutdownForgetsTasks ==
    /\ server = "up"
    /\ \A r \in Runs : request[r] \in {"idle", "over"} /\ task[r].pc # "created"
    /\ Disturbed
    /\ server' = "stopped"
    /\ task' = [r \in Runs |-> NoTask]
    /\ UNCHANGED <<status, fresh, request, child, blind>>

(* Uvicorn lets the requests finish before the lifespan ends, and the event *)
(* loop has given every task its first step by then.                       *)
Shutdown ==
    /\ server = "up"
    /\ \A r \in Runs : request[r] \in {"idle", "over"} /\ task[r].pc # "created"
    /\ Disturbed
    /\ server' = "stopping"
    /\ task' = [r \in Runs |-> [task[r] EXCEPT !.cancelled = Live(r)]]
    /\ UNCHANGED <<status, fresh, request, child, blind>>

(* Faulty: the shutdown handler leaves the child to the operating system. *)
CancelSparesChild(r) ==
    /\ task[r].cancelled
    /\ task[r].pc # "except"
    /\ task' = [task EXCEPT ![r].pc = "except", ![r].cancelled = FALSE]
    /\ UNCHANGED <<status, fresh, request, child, server, blind, faults>>

(* except CancelledError: kill the child, then write FAILED.                *)
CancelArrives(r) ==
    /\ task[r].cancelled
    /\ task[r].pc # "except"
    /\ KillChild(r)
    /\ task' = [task EXCEPT ![r].pc = "except", ![r].cancelled = FALSE]
    /\ UNCHANGED <<status, fresh, request, server, blind, faults>>

(* Inside the handler of an earlier exception nothing catches it.           *)
CancelCutsHandler(r) ==
    /\ task[r].cancelled
    /\ task[r].pc = "except"
    /\ End(r)
    /\ blind' = TRUE
    /\ UNCHANGED <<status, fresh, request, child, server, faults>>

Exit ==
    /\ server = "stopping"
    /\ \A r \in Runs : ~Live(r)
    /\ server' = "stopped"
    /\ UNCHANGED <<status, fresh, request, task, child, blind, faults>>

(* The ten seconds of cancel_inflight_training_tasks were not enough.       *)
GraceExpires ==
    /\ server = "stopping"
    /\ \E r \in Runs : Live(r)
    /\ \A r \in Runs : ~task[r].cancelled
    /\ Disturbed
    /\ server' = "stopped"
    /\ task' = [r \in Runs |-> NoTask]
    /\ blind' = TRUE
    /\ UNCHANGED <<status, fresh, request, child>>

ProcessDies ==
    /\ server \in {"up", "stopping"}
    /\ Disturbed
    /\ server' = "crashed"
    /\ task' = [r \in Runs |-> NoTask]
    /\ request' = [r \in Runs |-> IF request[r] = "idle" THEN "idle" ELSE "over"]
    /\ UNCHANGED <<status, fresh, child, blind>>

(* Faulty: the reaper takes the rows that never started. *)
ReapPending ==
    status' = [r \in Runs |-> IF status[r] = "PENDING" THEN "ORPHANED" ELSE status[r]]

ReapOrphaned ==
    status' = [r \in Runs |-> IF status[r] = "RUNNING" THEN "ORPHANED" ELSE status[r]]

(* The reaper is best effort: a database that is not there must not prevent *)
(* the boot.                                                               *)
Boot ==
    /\ server \in {"stopped", "crashed"}
    /\ server' = "up"
    /\ \/ ReapOrphaned /\ UNCHANGED <<blind, faults>>
       \/ Disturbed /\ blind' = TRUE /\ UNCHANGED status
    /\ UNCHANGED <<fresh, request, task, child>>

---------------------------------------------------------------------------
(* The child and the clock *)

ChildExits(r) ==
    /\ child[r] = "training"
    /\ \E code \in {"succeeded", "failed"} : child' = [child EXCEPT ![r] = code]
    /\ UNCHANGED <<status, fresh, request, task, server, blind, faults>>

WindowRolls(r) ==
    /\ r \in fresh
    /\ fresh' = fresh \ {r}
    /\ UNCHANGED <<status, request, task, child, server, blind, faults>>

---------------------------------------------------------------------------
RequestStep(r) ==
    EnforceDailyCap(r) \/ Insert(r) \/ InsertUnanswered(r) \/ StartTrainingRun(r)

TaskStep(r) ==
    \/ FindInterpreter(r) \/ Spawn(r) \/ MarkRunning(r) \/ ChildExited(r)
    \/ WallClockExceeded(r) \/ WriteTerminal(r) \/ Return(r) \/ ExceptWrites(r)
    \/ CancelArrives(r) \/ CancelCutsHandler(r)

Mishap(r) == TaskRaises(r) \/ ExceptFails(r)

ServerStep == Shutdown \/ Exit \/ GraceExpires \/ ProcessDies \/ Boot

Next ==
    \/ \E r \in Runs : RequestStep(r) \/ TaskStep(r) \/ Mishap(r)
    \/ \E r \in Runs : ChildExits(r) \/ WindowRolls(r)
    \/ ServerStep

Spec == Init /\ [][Next]_vars

(* The event loop runs every handler and task that is ready, the wall clock *)
(* advances, and the orchestrator is started again after it stopped.        *)
(* Callers, children and mishaps are not fair.                             *)
Fairness ==
    /\ \A r \in Runs : WF_vars(Insert(r) \/ StartTrainingRun(r))
    /\ \A r \in Runs : WF_vars(TaskStep(r))
    /\ WF_vars(Exit)
    /\ WF_vars(Boot)

FairSpec == Spec /\ Fairness

---------------------------------------------------------------------------
(* Properties *)

Task == [pc : {"none", "created", "spawn", "mark", "wait", "write", "return", "except"},
         verdict : Verdicts, cancelled : BOOLEAN]

(* Each variable keeps its kind; a cancellation is only ever on its way to  *)
(* a task that exists.                                                     *)
TypeOK ==
    /\ status \in [Runs -> {"ABSENT", "PENDING", "RUNNING"} \cup Terminal]
    /\ fresh \subseteq Runs
    /\ request \in [Runs -> {"idle", "admitted", "inserted", "over"}]
    /\ task \in [Runs -> Task]
    /\ \A r \in Runs : task[r].cancelled => Live(r)
    /\ child \in [Runs -> {"none", "training", "succeeded", "failed", "killed"}]
    /\ server \in {"up", "stopping", "stopped", "crashed"}
    /\ blind \in BOOLEAN
    /\ faults \in 0..MaxFaults

(* A run has one verdict: the cancellation handler, the exception handler,  *)
(* the time-out and the reaper never change a row that is terminal, however *)
(* late they come ("a duplicate fire after the first wins becomes a no-op", *)
(* mark_terminal).                                                         *)
TerminalIsFinal ==
    [][\A r \in Runs : status[r] \in Terminal => status'[r] = status[r]]_vars

(* A verdict is only written once the child has stopped: "marking the row   *)
(* FAILED while the detached train keeps running for hours (and may         *)
(* --register a model against a FAILED run) is worse than a hard stop".     *)
VerdictAfterChild ==
    \A r \in Runs : status[r] \in Verdicts => child[r] # "training"

(* No task lets go of a child that still trains, but by dying with the      *)
(* whole process; in particular a shutdown leaves none behind.              *)
ChildNeverDropped ==
    [][\A r \in Runs :
        Live(r) /\ task'[r].pc = "none" /\ child'[r] = "training" => server' = "crashed"]_vars

(* After a shutdown no row is stuck in RUNNING until the next boot, unless  *)
(* the write that was to end it was refused ("losing the terminal-status DB *)
(* write and leaving the detached train child running against a row stuck   *)
(* in RUNNING", lifespan).                                                 *)
ShutdownSettles ==
    server = "stopped" /\ ~blind => \A r \in Runs : status[r] # "RUNNING"

(* An agent that posts one run at a time never has more than DailyCap runs  *)
(* on its budget, whatever fails, is reaped or restarts in between.         *)
CapHonoured ==
    \A a \in Sequential : CountActiveInWindow(a) <= DailyCap

(* A run that is RUNNING gets a terminal status, by its task or by the      *)
(* reaper, unless a write that was to give it one was refused.              *)
RunningSettles ==
    \A r \in Runs : status[r] = "RUNNING" ~> (status[r] \in Terminal \/ blind)

(* No row stays PENDING: "the row staying in PENDING with no finished_at    *)
(* would be the worst possible failure mode" (_run_subprocess).             *)
PendingSettles ==
    \A r \in Runs : status[r] = "PENDING" ~> status[r] # "PENDING"

============================================================================
