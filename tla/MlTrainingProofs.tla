-------------------------- MODULE MlTrainingProofs --------------------------
(* Rows, tasks and children of the training runs stay in step, for every    *)
(* set of runs, every cap and any number of disturbances.                  *)
EXTENDS MlTraining, FiniteSetTheorems, TLAPS

(* The actions, sorted by what they disturb. *)
LEMMA RunActions ==
    ASSUME NEW r \in Runs, RequestStep(r) \/ TaskStep(r) \/ Mishap(r) \/ ChildExits(r)
                           \/ WindowRolls(r)
    PROVE  \/ EnforceDailyCap(r) \/ Insert(r) \/ InsertUnanswered(r) \/ StartTrainingRun(r)
           \/ FindInterpreter(r) \/ Spawn(r) \/ MarkRunning(r) \/ ChildExited(r)
           \/ WallClockExceeded(r) \/ WriteTerminal(r) \/ Return(r) \/ TaskRaises(r)
           \/ ExceptWrites(r) \/ ExceptFails(r) \/ CancelArrives(r)
           \/ CancelCutsHandler(r) \/ ChildExits(r) \/ WindowRolls(r)
BY DEF RequestStep, TaskStep, Mishap

---------------------------------------------------------------------------
(* Types *)

LEMMA NoTaskTyped == NoTask \in Task
BY DEF NoTask, Task, Verdicts

LEMMA TypeStart == Init => TypeOK
<1> SUFFICES ASSUME Init PROVE TypeOK
  OBVIOUS
<1>1. task \in [Runs -> Task] /\ \A r \in Runs : ~task[r].cancelled
  BY NoTaskTyped DEF Init, NoTask
<1>2. faults \in 0..MaxFaults
  BY MlAssumption DEF Init
<1> QED
  BY <1>1, <1>2 DEF Init, TypeOK

(* The next step of a task, its verdict and its end. *)
LEMMA TaskTyped ==
    ASSUME TypeOK, NEW r \in Runs
    PROVE  /\ \A pc \in {"created", "spawn", "mark", "wait", "write", "return", "except"} :
                Step(r, pc) => task' \in [Runs -> Task]
                                /\ \A s \in Runs : task'[s].cancelled => task'[s].pc # "none"
           /\ \A v \in Verdicts :
                Decide(r, v) => task' \in [Runs -> Task]
                                /\ \A s \in Runs : task'[s].cancelled => task'[s].pc # "none"
           /\ End(r) => task' \in [Runs -> Task]
                         /\ \A s \in Runs : task'[s].cancelled => task'[s].pc # "none"
<1> USE DEF TypeOK, Task, Live
<1>1. ASSUME NEW pc \in {"created", "spawn", "mark", "wait", "write", "return", "except"},
             Step(r, pc)
      PROVE  /\ task' \in [Runs -> Task]
             /\ \A s \in Runs : task'[s].cancelled => task'[s].pc # "none"
  BY <1>1 DEF Step
<1>2. ASSUME NEW v \in Verdicts, Decide(r, v)
      PROVE  /\ task' \in [Runs -> Task]
             /\ \A s \in Runs : task'[s].cancelled => task'[s].pc # "none"
  BY <1>2 DEF Decide
<1>3. ASSUME End(r)
      PROVE  /\ task' \in [Runs -> Task]
             /\ \A s \in Runs : task'[s].cancelled => task'[s].pc # "none"
  BY <1>3, NoTaskTyped DEF End, NoTask
<1> QED
  BY <1>1, <1>2, <1>3

LEMMA RowTyped ==
    ASSUME TypeOK, NEW r \in Runs
    PROVE  /\ KillChild(r) => child' \in [Runs -> {"none", "training", "succeeded", "failed", "killed"}]
           /\ \A v \in Verdicts : MarkTerminal(r, v) =>
                status' \in [Runs -> {"ABSENT", "PENDING", "RUNNING"} \cup Terminal]
           /\ Disturbed => faults' \in 0..MaxFaults
<1>1. KillChild(r) => child' \in [Runs -> {"none", "training", "succeeded", "failed", "killed"}]
  BY DEF TypeOK, KillChild
<1>2. ASSUME NEW v \in Verdicts, MarkTerminal(r, v)
      PROVE  status' \in [Runs -> {"ABSENT", "PENDING", "RUNNING"} \cup Terminal]
  BY <1>2 DEF TypeOK, MarkTerminal, Terminal
<1>3. Disturbed => faults' \in 0..MaxFaults
  BY MlAssumption DEF TypeOK, Disturbed
<1> QED
  BY <1>1, <1>2, <1>3

LEMMA TypeRunStep ==
    ASSUME TypeOK, NEW r \in Runs,
           RequestStep(r) \/ TaskStep(r) \/ Mishap(r) \/ ChildExits(r) \/ WindowRolls(r)
    PROVE  TypeOK'
<1> USE TaskTyped, RowTyped DEF TypeOK, Live
<1>1. CASE EnforceDailyCap(r)
  BY <1>1 DEF EnforceDailyCap
<1>2. CASE Insert(r)
  BY <1>2 DEF Insert, InsertPending
<1>3. CASE InsertUnanswered(r)
  BY <1>3 DEF InsertUnanswered, InsertPending
<1>4. CASE StartTrainingRun(r)
  BY <1>4 DEF StartTrainingRun
<1>5. CASE FindInterpreter(r)
  BY <1>5 DEF FindInterpreter, Verdicts
<1>6. CASE Spawn(r)
  BY <1>6 DEF Spawn
<1>7. CASE MarkRunning(r)
  BY <1>7 DEF MarkRunning
<1>8. CASE ChildExited(r)
  <2>1. PICK v \in Verdicts : Decide(r, v)
    BY <1>8 DEF ChildExited, Verdicts
  <2> QED
    BY <1>8, <2>1 DEF ChildExited
<1>9. CASE WallClockExceeded(r)
  BY <1>9 DEF WallClockExceeded, Verdicts
<1>10. CASE WriteTerminal(r)
  <2>1. task[r].verdict \in Verdicts
    BY DEF Task
  <2> QED
    BY <1>10, <2>1 DEF WriteTerminal
<1>11. CASE Return(r)
  BY <1>11 DEF Return
<1>12. CASE TaskRaises(r)
  BY <1>12 DEF TaskRaises
<1>13. CASE ExceptWrites(r)
  BY <1>13 DEF ExceptWrites, Verdicts
<1>14. CASE ExceptFails(r)
  BY <1>14 DEF ExceptFails
<1>15. CASE CancelArrives(r)
  <2>1. task' \in [Runs -> Task] /\ \A s \in Runs : task'[s].cancelled => task'[s].pc # "none"
    BY <1>15 DEF CancelArrives, Task
  <2> QED
    BY <1>15, <2>1 DEF CancelArrives
<1>16. CASE CancelCutsHandler(r)
  BY <1>16 DEF CancelCutsHandler
<1>17. CASE ChildExits(r)
  BY <1>17 DEF ChildExits
<1>18. CASE WindowRolls(r)
  BY <1>18 DEF WindowRolls
<1> QED
  BY RunActions, <1>1, <1>2, <1>3, <1>4, <1>5, <1>6, <1>7, <1>8, <1>9, <1>10, <1>11,
     <1>12, <1>13, <1>14, <1>15, <1>16, <1>17, <1>18

LEMMA TypeServerStep ==
    ASSUME TypeOK, ServerStep
    PROVE  TypeOK'
<1> USE MlAssumption DEF TypeOK, Task, Verdicts, Terminal, Live, Disturbed, NoTask
<1>1. CASE Shutdown
  <2>1. \A r \in Runs : /\ task'[r] \in Task
                        /\ task'[r].pc = task[r].pc
                        /\ task'[r].cancelled = Live(r)
    BY <1>1 DEF Shutdown
  <2>2. task' \in [Runs -> Task]
    BY <1>1, <2>1 DEF Shutdown
  <2> QED
    BY <1>1, <2>1, <2>2 DEF Shutdown
<1>2. CASE Exit
  BY <1>2 DEF Exit
<1>3. CASE GraceExpires
  BY <1>3 DEF GraceExpires
<1>4. CASE ProcessDies
  BY <1>4 DEF ProcessDies
<1>5. CASE Boot
  <2>1. status' \in [Runs -> {"ABSENT", "PENDING", "RUNNING"} \cup Terminal]
    BY <1>5 DEF Boot, ReapOrphaned
  <2>2. blind' \in BOOLEAN
    <3>1. blind' = blind \/ blind' = TRUE
      BY <1>5 DEF Boot
    <3> QED
      BY <3>1
  <2>3. faults' \in 0..MaxFaults
    <3>1. faults' = faults \/ (faults < MaxFaults /\ faults' = faults + 1)
      BY <1>5 DEF Boot
    <3> QED
      BY <3>1
  <2> QED
    BY <1>5, <2>1, <2>2, <2>3 DEF Boot
<1> QED
  BY <1>1, <1>2, <1>3, <1>4, <1>5 DEF ServerStep

LEMMA TypeStep == TypeOK /\ [Next]_vars => TypeOK'
<1> SUFFICES ASSUME TypeOK, [Next]_vars PROVE TypeOK'
  OBVIOUS
<1>1. CASE UNCHANGED vars
  BY <1>1 DEF vars, TypeOK, Live
<1> QED
  BY <1>1, TypeRunStep, TypeServerStep DEF Next

(* The type invariant: no handler, task or reaper stores a value of the     *)
(* wrong kind, and no cancellation outlives its task.                      *)
THEOREM TypeCorrect == Spec => []TypeOK
BY TypeStart, TypeStep, PTL DEF Spec

---------------------------------------------------------------------------
(* The invariant: request, row, task and child of one run, and what the     *)
(* state of the server says about them.                                    *)

(* The task is created by the last step of the request, after the row.      *)
RequestFirst(r) ==
    /\ request[r] \in {"idle", "admitted"} => status[r] = "ABSENT"
    /\ request[r] = "inserted" => status[r] = "PENDING"
    /\ request[r] # "over" => task[r].pc = "none" /\ child[r] = "none"
    /\ status[r] = "ABSENT" => r \notin fresh /\ task[r].pc = "none"

(* Who is about to write a verdict has no child that trains; who is about   *)
(* to start one has a row that is still PENDING.                            *)
ChildFollows(r) ==
    /\ task[r].pc \in {"created", "spawn"} => child[r] = "none" /\ status[r] = "PENDING"
    /\ task[r].pc \in {"write", "return", "except"} => child[r] # "training"
    /\ task[r].pc = "return" => status[r] \in Terminal
    /\ status[r] \in Verdicts => child[r] # "training"

(* A server that goes down has answered its requests and has told its tasks; *)
(* one that is down has neither.                                            *)
ServerTold(r) ==
    /\ server # "up" => request[r] \in {"idle", "over"}
    /\ server \in {"stopped", "crashed"} => task[r].pc = "none"
    /\ server = "stopping" /\ ~task[r].cancelled => task[r].pc \in {"none", "except"}

RunningOwned(r) ==
    status[r] = "RUNNING" /\ ~blind /\ server # "crashed" => task[r].pc # "none"

InStep(r) == RequestFirst(r) /\ ChildFollows(r) /\ ServerTold(r) /\ RunningOwned(r)

InStepInv == TypeOK /\ \A r \in Runs : InStep(r)

LEMMA InStepStart == Init => InStepInv
<1> SUFFICES ASSUME Init PROVE InStepInv
  OBVIOUS
<1>1. \A r \in Runs : InStep(r)
  BY DEF Init, InStep, RequestFirst, ChildFollows, ServerTold, RunningOwned, NoTask,
         Verdicts, Terminal
<1> QED
  BY <1>1, TypeStart DEF InStepInv

(* What concerns one run leaves the others alone. *)
OthersKept(r) ==
    /\ server' = server
    /\ blind => blind'
    /\ \A s \in Runs \ {r} :
        /\ status'[s] = status[s] /\ request'[s] = request[s]
        /\ task'[s] = task[s] /\ child'[s] = child[s]
        /\ s \in fresh' <=> s \in fresh

LEMMA RunStepLocal ==
    ASSUME TypeOK, NEW r \in Runs,
           RequestStep(r) \/ TaskStep(r) \/ Mishap(r) \/ ChildExits(r) \/ WindowRolls(r)
    PROVE  OthersKept(r)
<1> USE DEF TypeOK, OthersKept, Step, Decide, End, KillChild, MarkTerminal
<1>1. CASE EnforceDailyCap(r)
  BY <1>1 DEF EnforceDailyCap
<1>2. CASE Insert(r)
  BY <1>2 DEF Insert, InsertPending
<1>3. CASE InsertUnanswered(r)
  BY <1>3 DEF InsertUnanswered, InsertPending
<1>4. CASE StartTrainingRun(r)
  BY <1>4 DEF StartTrainingRun
<1>5. CASE FindInterpreter(r)
  BY <1>5 DEF FindInterpreter
<1>6. CASE Spawn(r)
  BY <1>6 DEF Spawn
<1>7. CASE MarkRunning(r)
  BY <1>7 DEF MarkRunning
<1>8. CASE ChildExited(r)
  BY <1>8 DEF ChildExited
<1>9. CASE WallClockExceeded(r)
  BY <1>9 DEF WallClockExceeded
<1>10. CASE WriteTerminal(r)
  BY <1>10 DEF WriteTerminal
<1>11. CASE Return(r)
  BY <1>11 DEF Return
<1>12. CASE TaskRaises(r)
  BY <1>12 DEF TaskRaises
<1>13. CASE ExceptWrites(r)
  BY <1>13 DEF ExceptWrites
<1>14. CASE ExceptFails(r)
  BY <1>14 DEF ExceptFails
<1>15. CASE CancelArrives(r)
  BY <1>15 DEF CancelArrives
<1>16. CASE CancelCutsHandler(r)
  BY <1>16 DEF CancelCutsHandler
<1>17. CASE ChildExits(r)
  BY <1>17 DEF ChildExits
<1>18. CASE WindowRolls(r)
  BY <1>18 DEF WindowRolls
<1> QED
  BY RunActions, <1>1, <1>2, <1>3, <1>4, <1>5, <1>6, <1>7, <1>8, <1>9, <1>10, <1>11,
     <1>12, <1>13, <1>14, <1>15, <1>16, <1>17, <1>18

LEMMA InStepHere ==
    ASSUME TypeOK, NEW r \in Runs, InStep(r),
           RequestStep(r) \/ TaskStep(r) \/ Mishap(r) \/ ChildExits(r) \/ WindowRolls(r)
    PROVE  InStep(r)'
<1> USE DEF TypeOK, Task, Verdicts, Terminal, InStep, RequestFirst, ChildFollows, ServerTold,
            RunningOwned, At, Step, Decide, End, NoTask, KillChild, MarkTerminal
<1>1. CASE EnforceDailyCap(r)
  BY <1>1 DEF EnforceDailyCap
<1>2. CASE Insert(r)
  BY <1>2 DEF Insert, InsertPending
<1>3. CASE InsertUnanswered(r)
  BY <1>3 DEF InsertUnanswered, InsertPending
<1>4. CASE StartTrainingRun(r)
  BY <1>4 DEF StartTrainingRun
<1>5. CASE FindInterpreter(r)
  BY <1>5 DEF FindInterpreter
<1>6. CASE Spawn(r)
  BY <1>6 DEF Spawn
<1>7. CASE MarkRunning(r)
  BY <1>7 DEF MarkRunning
<1>8. CASE ChildExited(r)
  BY <1>8 DEF ChildExited
<1>9. CASE WallClockExceeded(r)
  BY <1>9 DEF WallClockExceeded
<1>10. CASE WriteTerminal(r)
  BY <1>10 DEF WriteTerminal
<1>11. CASE Return(r)
  BY <1>11 DEF Return
<1>12. CASE TaskRaises(r)
  BY <1>12 DEF TaskRaises
<1>13. CASE ExceptWrites(r)
  BY <1>13 DEF ExceptWrites
<1>14. CASE ExceptFails(r)
  BY <1>14 DEF ExceptFails
<1>15. CASE CancelArrives(r)
  BY <1>15 DEF CancelArrives
<1>16. CASE CancelCutsHandler(r)
  BY <1>16 DEF CancelCutsHandler
<1>17. CASE ChildExits(r)
  BY <1>17 DEF ChildExits
<1>18. CASE WindowRolls(r)
  BY <1>18 DEF WindowRolls
<1> QED
  BY RunActions, <1>1, <1>2, <1>3, <1>4, <1>5, <1>6, <1>7, <1>8, <1>9, <1>10, <1>11,
     <1>12, <1>13, <1>14, <1>15, <1>16, <1>17, <1>18

LEMMA InStepServer ==
    ASSUME TypeOK, ServerStep, NEW r \in Runs, InStep(r)
    PROVE  InStep(r)'
<1> USE DEF TypeOK, Task, Verdicts, Terminal, InStep, RequestFirst, ChildFollows, ServerTold,
            RunningOwned, Live, NoTask
<1>1. CASE Shutdown
  BY <1>1 DEF Shutdown
<1>2. CASE Exit
  BY <1>2 DEF Exit
<1>3. CASE GraceExpires
  BY <1>3 DEF GraceExpires
<1>4. CASE ProcessDies
  BY <1>4 DEF ProcessDies
<1>5. CASE Boot
  BY <1>5 DEF Boot, ReapOrphaned
<1> QED
  BY <1>1, <1>2, <1>3, <1>4, <1>5 DEF ServerStep

LEMMA InStepStep == InStepInv /\ [Next]_vars => InStepInv'
<1> SUFFICES ASSUME InStepInv, [Next]_vars PROVE \A s \in Runs : InStep(s)'
  BY TypeStep DEF InStepInv
<1> TAKE s \in Runs
<1> USE DEF InStepInv
<1>1. CASE UNCHANGED vars
  BY <1>1 DEF vars, InStep, RequestFirst, ChildFollows, ServerTold, RunningOwned
<1>2. ASSUME NEW r \in Runs,
             RequestStep(r) \/ TaskStep(r) \/ Mishap(r) \/ ChildExits(r) \/ WindowRolls(r)
      PROVE  InStep(s)'
  <2>1. CASE s = r
    BY <1>2, <2>1, InStepHere
  <2>2. CASE s # r
    BY <1>2, <2>2, RunStepLocal
       DEF OthersKept, InStep, RequestFirst, ChildFollows, ServerTold, RunningOwned
  <2> QED
    BY <2>1, <2>2
<1>3. CASE ServerStep
  BY <1>3, InStepServer
<1> QED
  BY <1>1, <1>2, <1>3 DEF Next

LEMMA AlwaysInStep == Spec => []InStepInv
BY InStepStart, InStepStep, PTL DEF Spec

(* A row with a verdict has no child that still trains. *)
THEOREM VerdictWaitsForChild == Spec => []VerdictAfterChild
<1>1. InStepInv => VerdictAfterChild
  BY DEF InStepInv, InStep, ChildFollows, VerdictAfterChild
<1> QED
  BY <1>1, AlwaysInStep, PTL

(* A shutdown that could write leaves no row in RUNNING. *)
THEOREM ShutdownLeavesNone == Spec => []ShutdownSettles
<1>1. InStepInv => ShutdownSettles
  BY DEF InStepInv, InStep, ServerTold, RunningOwned, ShutdownSettles
<1> QED
  BY <1>1, AlwaysInStep, PTL

---------------------------------------------------------------------------
(* What a step may never do *)

StaysFinal(r) == status[r] \in Terminal => status'[r] = status[r]

KeepsChild(r) ==
    Live(r) /\ task'[r].pc = "none" /\ child'[r] = "training" => server' = "crashed"

LEMMA RunStepKeeps ==
    ASSUME TypeOK, NEW r \in Runs, InStep(r),
           RequestStep(r) \/ TaskStep(r) \/ Mishap(r) \/ ChildExits(r) \/ WindowRolls(r)
    PROVE  StaysFinal(r) /\ KeepsChild(r)
<1> USE DEF TypeOK, Task, Verdicts, Terminal, InStep, RequestFirst, ChildFollows,
            StaysFinal, KeepsChild, Live, At, Step, Decide, End, NoTask, KillChild, MarkTerminal
<1>1. CASE EnforceDailyCap(r)
  BY <1>1 DEF EnforceDailyCap
<1>2. CASE Insert(r)
  BY <1>2 DEF Insert, InsertPending
<1>3. CASE InsertUnanswered(r)
  BY <1>3 DEF InsertUnanswered, InsertPending
<1>4. CASE StartTrainingRun(r)
  BY <1>4 DEF StartTrainingRun
<1>5. CASE FindInterpreter(r)
  BY <1>5 DEF FindInterpreter
<1>6. CASE Spawn(r)
  BY <1>6 DEF Spawn
<1>7. CASE MarkRunning(r)
  BY <1>7 DEF MarkRunning
<1>8. CASE ChildExited(r)
  BY <1>8 DEF ChildExited
<1>9. CASE WallClockExceeded(r)
  BY <1>9 DEF WallClockExceeded
<1>10. CASE WriteTerminal(r)
  BY <1>10 DEF WriteTerminal
<1>11. CASE Return(r)
  BY <1>11 DEF Return
<1>12. CASE TaskRaises(r)
  BY <1>12 DEF TaskRaises
<1>13. CASE ExceptWrites(r)
  BY <1>13 DEF ExceptWrites
<1>14. CASE ExceptFails(r)
  BY <1>14 DEF ExceptFails
<1>15. CASE CancelArrives(r)
  BY <1>15 DEF CancelArrives
<1>16. CASE CancelCutsHandler(r)
  BY <1>16 DEF CancelCutsHandler
<1>17. CASE ChildExits(r)
  BY <1>17 DEF ChildExits
<1>18. CASE WindowRolls(r)
  BY <1>18 DEF WindowRolls
<1> QED
  BY RunActions, <1>1, <1>2, <1>3, <1>4, <1>5, <1>6, <1>7, <1>8, <1>9, <1>10, <1>11,
     <1>12, <1>13, <1>14, <1>15, <1>16, <1>17, <1>18

LEMMA ServerKeeps ==
    ASSUME TypeOK, ServerStep, NEW r \in Runs, InStep(r)
    PROVE  StaysFinal(r) /\ KeepsChild(r)
<1> USE DEF TypeOK, Task, Verdicts, Terminal, InStep, ChildFollows, ServerTold,
            StaysFinal, KeepsChild, Live, NoTask
<1>1. CASE Shutdown
  BY <1>1 DEF Shutdown
<1>2. CASE Exit
  BY <1>2 DEF Exit
<1>3. CASE GraceExpires
  BY <1>3 DEF GraceExpires
<1>4. CASE ProcessDies
  BY <1>4 DEF ProcessDies
<1>5. CASE Boot
  BY <1>5 DEF Boot, ReapOrphaned
<1> QED
  BY <1>1, <1>2, <1>3, <1>4, <1>5 DEF ServerStep

LEMMA StepKeeps ==
    ASSUME InStepInv, [Next]_vars, NEW s \in Runs
    PROVE  StaysFinal(s) /\ KeepsChild(s)
<1> USE DEF InStepInv
<1>1. CASE UNCHANGED vars
  BY <1>1 DEF vars, StaysFinal, KeepsChild, Live
<1>2. ASSUME NEW r \in Runs,
             RequestStep(r) \/ TaskStep(r) \/ Mishap(r) \/ ChildExits(r) \/ WindowRolls(r)
      PROVE  StaysFinal(s) /\ KeepsChild(s)
  <2>1. CASE s = r
    BY <1>2, <2>1, RunStepKeeps
  <2>2. CASE s # r
    BY <1>2, <2>2, RunStepLocal DEF OthersKept, StaysFinal, KeepsChild, Live
  <2> QED
    BY <2>1, <2>2
<1>3. CASE ServerStep
  BY <1>3, ServerKeeps
<1> QED
  BY <1>1, <1>2, <1>3 DEF Next

(* The first verdict of a run stands: whichever of the task, its handlers   *)
(* and the reaper comes later changes nothing.                              *)
THEOREM TerminalForever == Spec => TerminalIsFinal
<1>1. InStepInv /\ [Next]_vars =>
        [\A r \in Runs : status[r] \in Terminal => status'[r] = status[r]]_vars
  BY StepKeeps DEF StaysFinal
<1> QED
  BY <1>1, AlwaysInStep, PTL DEF Spec, TerminalIsFinal

(* A child that trains is only ever left behind by a crash of the process.   *)
THEOREM NoChildDropped == Spec => ChildNeverDropped
<1>1. InStepInv /\ [Next]_vars =>
        [\A r \in Runs : Live(r) /\ task'[r].pc = "none" /\ child'[r] = "training" =>
            server' = "crashed"]_vars
  BY StepKeeps DEF KeepsChild
<1> QED
  BY <1>1, AlwaysInStep, PTL DEF Spec, ChildNeverDropped

---------------------------------------------------------------------------
(* The daily cap *)

Counted(a) ==
    {r \in fresh : Owner[r] = a /\ status[r] \in {"PENDING", "RUNNING", "COMPLETED"}}

(* A sequential agent has one request between the count and the insertion   *)
(* at most, and that one counted room for its row.                          *)
CapAt(a) ==
    /\ Cardinality(Counted(a)) <= DailyCap
    /\ \A r \in Runs : Owner[r] = a /\ request[r] = "admitted" =>
            Cardinality(Counted(a)) < DailyCap
    /\ \A r, s \in Runs :
            Owner[r] = a /\ Owner[s] = a /\ request[r] \in {"admitted", "inserted"}
                /\ request[s] \in {"admitted", "inserted"} => r = s

CapInv == \A a \in Sequential : CapAt(a)

LEMMA CountedFinite ==
    ASSUME TypeOK, NEW a
    PROVE  IsFiniteSet(Counted(a)) /\ Cardinality(Counted(a)) \in Nat
<1>1. Counted(a) \subseteq Runs
  BY DEF TypeOK, Counted
<1> QED
  BY <1>1, MlAssumption, FS_Subset, FS_CardinalityType

(* A step that neither counts nor inserts: no request comes closer to the   *)
(* insertion, and no row enters the budget.                                 *)
Quiet ==
    \A s \in Runs :
        /\ request'[s] \in {request[s], "over"}
        /\ s \in fresh' => s \in fresh
        /\ s \in fresh /\ status'[s] \in {"PENDING", "RUNNING", "COMPLETED"} =>
                status[s] \in {"PENDING", "RUNNING", "COMPLETED"}

LEMMA RunStepQuiet ==
    ASSUME TypeOK, NEW r \in Runs, InStep(r),
           RequestStep(r) \/ TaskStep(r) \/ Mishap(r) \/ ChildExits(r) \/ WindowRolls(r)
    PROVE  EnforceDailyCap(r) \/ Insert(r) \/ InsertUnanswered(r) \/ Quiet
<1> USE DEF TypeOK, Task, Terminal, InStep, RequestFirst, Quiet, At, MarkTerminal
<1>1. CASE StartTrainingRun(r)
  BY <1>1 DEF StartTrainingRun
<1>2. CASE FindInterpreter(r)
  BY <1>2 DEF FindInterpreter
<1>3. CASE Spawn(r)
  BY <1>3 DEF Spawn
<1>4. CASE MarkRunning(r)
  BY <1>4 DEF MarkRunning
<1>5. CASE ChildExited(r)
  BY <1>5 DEF ChildExited
<1>6. CASE WallClockExceeded(r)
  BY <1>6 DEF WallClockExceeded
<1>7. CASE WriteTerminal(r)
  BY <1>7 DEF WriteTerminal
<1>8. CASE Return(r)
  BY <1>8 DEF Return
<1>9. CASE TaskRaises(r)
  BY <1>9 DEF TaskRaises
<1>10. CASE ExceptWrites(r)
  BY <1>10 DEF ExceptWrites
<1>11. CASE ExceptFails(r)
  BY <1>11 DEF ExceptFails
<1>12. CASE CancelArrives(r)
  BY <1>12 DEF CancelArrives
<1>13. CASE CancelCutsHandler(r)
  BY <1>13 DEF CancelCutsHandler
<1>14. CASE ChildExits(r)
  BY <1>14 DEF ChildExits
<1>15. CASE WindowRolls(r)
  BY <1>15 DEF WindowRolls
<1> QED
  BY RunActions, <1>1, <1>2, <1>3, <1>4, <1>5, <1>6, <1>7, <1>8, <1>9, <1>10, <1>11,
     <1>12, <1>13, <1>14, <1>15

LEMMA ServerQuiet ==
    ASSUME TypeOK, ServerStep
    PROVE  Quiet
<1> USE DEF TypeOK, Quiet
<1>1. CASE Shutdown
  BY <1>1 DEF Shutdown
<1>2. CASE Exit
  BY <1>2 DEF Exit
<1>3. CASE GraceExpires
  BY <1>3 DEF GraceExpires
<1>4. CASE ProcessDies
  BY <1>4 DEF ProcessDies
<1>5. CASE Boot
  BY <1>5 DEF Boot, ReapOrphaned
<1> QED
  BY <1>1, <1>2, <1>3, <1>4, <1>5 DEF ServerStep

LEMMA QuietKeepsCap ==
    ASSUME TypeOK, TypeOK', CapInv, Quiet
    PROVE  CapInv'
<1> SUFFICES ASSUME NEW a \in Sequential PROVE CapAt(a)'
  BY DEF CapInv
<1>1. Counted(a)' \subseteq Counted(a)
  BY DEF TypeOK, Counted, Quiet
<1>2. Cardinality(Counted(a)') <= Cardinality(Counted(a)) /\ Cardinality(Counted(a)') \in Nat
  BY <1>1, CountedFinite, FS_Subset, FS_CardinalityType
<1> QED
  BY <1>2, CountedFinite, MlAssumption DEF CapInv, CapAt, Quiet

LEMMA CountKeepsCap ==
    ASSUME TypeOK, CapInv, NEW r \in Runs, EnforceDailyCap(r)
    PROVE  CapInv'
<1> SUFFICES ASSUME NEW a \in Sequential PROVE CapAt(a)'
  BY DEF CapInv
<1>1. Counted(a)' = Counted(a)
  BY DEF EnforceDailyCap, Counted
<1>2. ASSUME NEW s \in Runs, Owner[s] = a, request'[s] = "admitted"
      PROVE  Cardinality(Counted(a)) < DailyCap
  <2>1. CASE s = r
    BY <1>2, <2>1 DEF EnforceDailyCap, WithinCap, CountActiveInWindow, Counted, TypeOK
  <2>2. CASE s # r
    BY <1>2, <2>2 DEF EnforceDailyCap, CapInv, CapAt, TypeOK
  <2> QED
    BY <2>1, <2>2
<1>3. ASSUME NEW s \in Runs, NEW u \in Runs, Owner[s] = a, Owner[u] = a,
             request'[s] \in {"admitted", "inserted"}, request'[u] \in {"admitted", "inserted"}
      PROVE  s = u
  BY <1>3 DEF EnforceDailyCap, CapInv, CapAt, TypeOK
<1>4. Cardinality(Counted(a)) <= DailyCap
  BY DEF CapInv, CapAt
<1> QED
  BY <1>1, <1>2, <1>3, <1>4 DEF CapAt

LEMMA InsertKeepsCap ==
    ASSUME TypeOK, TypeOK', CapInv, NEW r \in Runs, Insert(r) \/ InsertUnanswered(r)
    PROVE  CapInv'
<1> SUFFICES ASSUME NEW a \in Sequential PROVE CapAt(a)'
  BY DEF CapInv
<1>1. /\ request[r] = "admitted"
      /\ request'[r] \in {"inserted", "over"}
      /\ \A s \in Runs \ {r} : request'[s] = request[s] /\ status'[s] = status[s]
      /\ fresh' = fresh \cup {r}
  BY DEF Insert, InsertUnanswered, InsertPending, TypeOK
<1>2. CASE Owner[r] = a
  <2>1. Counted(a)' \subseteq Counted(a) \cup {r}
    BY <1>1 DEF Counted, TypeOK
  <2>2. Cardinality(Counted(a)) < DailyCap
    BY <1>1, <1>2 DEF CapInv, CapAt
  <2>3. Cardinality(Counted(a)') <= Cardinality(Counted(a)) + 1
    <3>1. /\ IsFiniteSet(Counted(a) \cup {r})
          /\ Cardinality(Counted(a) \cup {r}) <= Cardinality(Counted(a)) + 1
      BY CountedFinite, FS_AddElement
    <3>2. Cardinality(Counted(a)') <= Cardinality(Counted(a) \cup {r})
      BY <2>1, <3>1, FS_Subset
    <3> QED
      BY <3>1, <3>2, CountedFinite, <2>1, FS_Subset, FS_CardinalityType
  <2>4. Cardinality(Counted(a)') <= DailyCap
    <3>1. Cardinality(Counted(a)') \in Nat
      <4>1. IsFiniteSet(Counted(a) \cup {r})
        BY CountedFinite, FS_AddElement
      <4> QED
        BY <2>1, <4>1, FS_Subset, FS_CardinalityType
    <3> QED
      BY <2>2, <2>3, <3>1, CountedFinite, MlAssumption
  <2>5. \A s \in Runs : Owner[s] = a => request'[s] # "admitted"
    BY <1>1, <1>2 DEF CapInv, CapAt
  <2> QED
    BY <1>1, <1>2, <2>4, <2>5 DEF CapInv, CapAt
<1>3. CASE Owner[r] # a
  <2>1. Counted(a)' = Counted(a)
    BY <1>1, <1>3 DEF Counted, TypeOK
  <2> QED
    BY <1>1, <1>3, <2>1 DEF CapInv, CapAt
<1> QED
  BY <1>2, <1>3

LEMMA CapStep == InStepInv /\ InStepInv' /\ CapInv /\ [Next]_vars => CapInv'
<1> SUFFICES ASSUME InStepInv, InStepInv', CapInv, [Next]_vars PROVE CapInv'
  OBVIOUS
<1>1. TypeOK /\ TypeOK'
  BY DEF InStepInv
<1>2. CASE UNCHANGED vars
  <2>1. Quiet
    BY <1>2 DEF vars, Quiet
  <2> QED
    BY <1>1, <2>1, QuietKeepsCap
<1>3. ASSUME NEW r \in Runs,
             RequestStep(r) \/ TaskStep(r) \/ Mishap(r) \/ ChildExits(r) \/ WindowRolls(r)
      PROVE  CapInv'
  <2>1. EnforceDailyCap(r) \/ Insert(r) \/ InsertUnanswered(r) \/ Quiet
    BY <1>3, <1>1, RunStepQuiet, RunStepLocal DEF InStepInv
  <2> QED
    BY <1>1, <2>1, QuietKeepsCap, CountKeepsCap, InsertKeepsCap
<1>4. CASE ServerStep
  BY <1>1, <1>4, ServerQuiet, QuietKeepsCap
<1> QED
  BY <1>2, <1>3, <1>4 DEF Next

LEMMA CapStart == Init => CapInv
<1> SUFFICES ASSUME Init PROVE CapInv
  OBVIOUS
<1> SUFFICES ASSUME NEW a \in Sequential PROVE CapAt(a)
  BY DEF CapInv
<1>1. Cardinality(Counted(a)) = 0
  <2>1. Counted(a) = {}
    BY DEF Init, Counted
  <2> QED
    BY <2>1, FS_EmptySet
<1> QED
  BY <1>1, MlAssumption DEF Init, CapAt

(* An agent that awaits each answer never holds more than its daily cap,    *)
(* whatever its runs, the reaper and the server do between two requests.    *)
THEOREM CapAlwaysHonoured == Spec => []CapHonoured
<1>1. CapInv => CapHonoured
  BY DEF CapInv, CapAt, CapHonoured, CountActiveInWindow, Counted
<1> QED
  BY <1>1, CapStart, CapStep, AlwaysInStep, PTL DEF Spec

============================================================================
