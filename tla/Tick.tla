-------------------------------- MODULE Tick --------------------------------
(***************************************************************************)
(* POST /tick (services/tick.py): one tick claims a queue row, runs one    *)
(* backtest of its sweep on the research JVM, logs the evidence and moves  *)
(* the row on.  Every await of the handler that reads or writes shared     *)
(* state is a step of its own, so ticks of concurrent requests, the reaper *)
(* inside the next tick, the JVM and the operator interleave between any   *)
(* two of them.  Each write is one transaction of its own: a tick that     *)
(* dies leaves what it committed.                                          *)
(***************************************************************************)
EXTENDS ResearchQueue, Sequences

CONSTANTS
    Ticks,        \* concurrent executions of run_tick
    LoopTrack,    \* the track each caller scopes its claims to
    RowTrack,     \* sweep_config['track'] of each row
    Universe,     \* symbol and interval of each row, Null for a synthetic symbol
    Sampler,      \* sweep_config['strategy'] of each row
    Cells,        \* combos of a grid row, n_trials of a tpe row
    IterBudget,   \* iter_budget of each row
    EarlyStop,    \* early_stop_on_no_edge of each row
    Outcomes,     \* the verdict pairs the analysis may reach
    MaxFaults,    \* bound on crashes, failed calls, dead runs and config errors
    SlowTicks,    \* a live tick may outlast poll_timeout_s + 300 s
    LateCancel    \* a tick may die while it returns from its last write

VerdictPairs ==
    {[stat |-> "NO_EDGE",               dec |-> "DISCARD"],
     [stat |-> "INSUFFICIENT_EVIDENCE", dec |-> "ITERATE"],
     [stat |-> "SIGNIFICANT_EDGE",      dec |-> "ITERATE"],
     [stat |-> "SIGNIFICANT_EDGE",      dec |-> "PASS"]}

(* resolve_iter_budget raises the budget of a tpe sweep to its n_trials.     *)
ASSUME TickAssumption ==
    /\ Null \notin Ticks
    /\ LoopTrack \in [Ticks -> {"any", "trading", "hedging"}]
    /\ RowTrack \in [Rows -> {"none", "trading", "hedging"}]
    /\ Sampler \in [Rows -> {"grid", "tpe"}]
    /\ Cells \in [Rows -> Nat \ {0}]
    /\ IterBudget \in [Rows -> Nat \ {0}]
    /\ \A q \in Rows : Sampler[q] = "tpe" => IterBudget[q] >= Cells[q]
    /\ EarlyStop \in [Rows -> BOOLEAN]
    /\ Outcomes \subseteq VerdictPairs
    /\ MaxFaults \in Nat
    /\ SlowTicks \in BOOLEAN
    /\ LateCancel \in BOOLEAN

VARIABLES
    tick,      \* the locals and the program counter of each tick
    runs,      \* backtest_run: the runs the JVM accepted, in order
    audits,    \* hypothesis_audit: the trials recorded, in order
    iters,     \* research_iteration_log: the evidence logged, in order
    faults     \* disturbances so far, at most MaxFaults

vars == <<queue, tick, runs, audits, iters, faults>>

(* The steps between the claim and the last write of a tick: an exception  *)
(* or a cancellation in one of them runs the rollback handler.             *)
ClaimedSteps == {"resume", "derive", "submit", "store", "poll", "find", "log",
                 "attach", "decide"}

InFlight(t) == tick[t].pc \in ClaimedSteps \cup {"rollback"}

IdleTick == [pc |-> "idle", row |-> Null, fence |-> Null, prior |-> 0,
             run |-> Null, audit |-> Null, cell |-> Null, trials |-> 0,
             iter |-> Null]

(* A tick that has nothing left to do but return, or to roll back.          *)
Left(t, pc) == [IdleTick EXCEPT !.pc = pc, !.row = tick[t].row]

TickInit ==
    /\ QueueInit
    /\ tick = [t \in Ticks |-> IdleTick]
    /\ runs = <<>>
    /\ audits = <<>>
    /\ iters = <<>>
    /\ faults = 0

Goto(t, pc) == tick' = [tick EXCEPT ![t].pc = pc]

Disturbed == faults < MaxFaults /\ faults' = faults + 1

---------------------------------------------------------------------------
(* Claiming *)

(* Faulty: the trading loop forgets the untracked rows. *)
TrackMatchesExactly(t, q) == LoopTrack[t] = "any" \/ RowTrack[q] = LoopTrack[t]

TrackMatches(t, q) ==
    \/ LoopTrack[t] = "any"
    \/ RowTrack[q] = LoopTrack[t]
    \/ LoopTrack[t] = "trading" /\ RowTrack[q] = "none"

(* Step 0: the reaper *)
Recover(t) ==
    /\ tick[t].pc = "idle"
    /\ RecoverStuck
    /\ Goto(t, "claim")
    /\ UNCHANGED <<runs, audits, iters, faults>>

(* Step 1: the claim.  NOW() is a timestamp that no tick in flight holds;   *)
(* the claim returns the pointer to the run of a dead attempt, if any.      *)
Claim(t) ==
    /\ tick[t].pc = "claim"
    /\ \E q \in FirstPending({p \in Rows : TrackMatches(t, p)}),
          now \in Fences \ {tick[u].fence : u \in Ticks} :
        /\ ClaimRow(q, now)
        /\ tick' = [tick EXCEPT ![t] =
               [IdleTick EXCEPT !.pc = "resume", !.row = q, !.fence = now,
                                !.prior = queue[q].iter, !.run = queue[q].active]]
    /\ UNCHANGED <<runs, audits, iters, faults>>

EmptyQueue(t) ==
    /\ tick[t].pc = "claim"
    /\ FirstPending({p \in Rows : TrackMatches(t, p)}) = {}
    /\ Goto(t, "idle")
    /\ UNCHANGED <<queue, runs, audits, iters, faults>>

---------------------------------------------------------------------------
(* Step 1.5: resume the run a dead attempt left behind *)

Latest(S) == IF S = {} THEN Null ELSE CHOOSE i \in S : \A j \in S : j <= i

(* Faulty: ORDER BY created_time without DESC. *)
OldestUnattached(q) ==
    LET S == {a \in 1..Len(audits) : audits[a].row = q /\ audits[a].iter = Null} IN
    IF S = {} THEN Null ELSE CHOOSE i \in S : \A j \in S : i <= j

LatestUnattached(q) ==
    Latest({a \in 1..Len(audits) : audits[a].row = q /\ audits[a].iter = Null})

(* Faulty: without the trial at hand, whose audit row is not attached yet. *)
CountOtherTrials(q) ==
    Cardinality({a \in 1..Len(audits) :
        /\ audits[a].iter # Null
        /\ Universe[q] # Null
        /\ Universe[audits[a].row] = Universe[q]})

(* Faulty: the trials that never led to an iteration count as well. *)
CountAllTrials(q) ==
    1 + Cardinality({a \in 1..Len(audits) :
            Universe[q] # Null /\ Universe[audits[a].row] = Universe[q]})

(* The multiplicity of the deflated Sharpe ratio: the trials of this data   *)
(* universe with an iteration on file, and the one at hand.  NULL equals    *)
(* nothing.                                                                *)
CountTrials(q) ==
    1 + Cardinality({a \in 1..Len(audits) :
            /\ audits[a].iter # Null
            /\ Universe[q] # Null
            /\ Universe[audits[a].row] = Universe[q]})

FindIterationForRun(r) == Latest({i \in 1..Len(iters) : iters[i].run = r})

Resumable(q, r) ==
    /\ r # Null
    /\ runs[r].state \in {"RUNNING", "COMPLETED"}
    /\ LatestUnattached(q) # Null \/ FindIterationForRun(r) # Null

(* The run's status, the audit row, the iteration and the trial count are  *)
(* read one after the other.  A run only ever ends, and a resumed poll that *)
(* meets a dead run finds out, so the reads are one step.                  *)
Resume(t) ==
    LET q == tick[t].row
        r == tick[t].run
        a == LatestUnattached(q) IN
    /\ tick[t].pc = "resume"
    /\ IF Resumable(q, r)
       THEN tick' = [tick EXCEPT
                ![t].pc    = IF runs[r].state = "COMPLETED" THEN "find" ELSE "poll",
                ![t].audit = a,
                ![t].trials = CountTrials(q),
                ![t].cell  = IF a = Null THEN Null ELSE audits[a].cell]
       ELSE Goto(t, "derive")
    /\ UNCHANGED <<queue, runs, audits, iters, faults>>

---------------------------------------------------------------------------
(* Steps 2 to 4: derive the combo, record the trial, submit the run *)

(* derive_combo indexes the cross product; next_combo_tpe may ask for any  *)
(* point, again and again, until n_trials.                                 *)
Combos(q, n) ==
    IF n >= Cells[q] THEN {}
    ELSE IF Sampler[q] = "grid" THEN {n} ELSE 0..(Cells[q] - 1)

Exhausted(t) ==
    /\ tick[t].pc = "derive"
    /\ Combos(tick[t].row, tick[t].prior) = {}
    /\ ParkExhausted(tick[t].row)
    /\ tick' = [tick EXCEPT ![t] = Left(t, "reply")]
    /\ UNCHANGED <<runs, audits, iters, faults>>

(* No account_strategy row, or the TPE sampler raised: the row is FAILED   *)
(* and the error marked terminal, so the rollback handler is not run.      *)
ConfigError(t) ==
    /\ tick[t].pc = "derive"
    /\ Combos(tick[t].row, tick[t].prior) # {}
    /\ Disturbed
    /\ FailQueue(tick[t].row)
    /\ tick' = [tick EXCEPT ![t] = Left(t, "reply")]
    /\ UNCHANGED <<runs, audits, iters>>

(* Faulty: a combo on record already is not recorded again. *)
RecordTrialOnce(t) ==
    /\ tick[t].pc = "derive"
    /\ \E c \in Combos(tick[t].row, tick[t].prior) :
        LET a == Latest({b \in 1..Len(audits) :
                     audits[b].row = tick[t].row /\ audits[b].cell = c}) IN
        /\ audits' = IF a # Null THEN audits
                     ELSE Append(audits, [row |-> tick[t].row, cell |-> c, iter |-> Null])
        /\ tick' = [tick EXCEPT ![t].pc = "submit", ![t].cell = c,
                                ![t].trials = CountTrials(tick[t].row),
                                ![t].audit = IF a # Null THEN a ELSE Len(audits) + 1]
    /\ UNCHANGED <<queue, runs, iters, faults>>

RecordTrial(t) ==
    /\ tick[t].pc = "derive"
    /\ \E c \in Combos(tick[t].row, tick[t].prior) :
        /\ audits' = Append(audits, [row |-> tick[t].row, cell |-> c, iter |-> Null])
        /\ tick' = [tick EXCEPT ![t].pc = "submit", ![t].cell = c,
                                ![t].trials = CountTrials(tick[t].row),
                                ![t].audit = Len(audits) + 1]
    /\ UNCHANGED <<queue, runs, iters, faults>>

NewRun(t) == [row |-> tick[t].row, cell |-> tick[t].cell, state |-> "RUNNING"]

SubmitAccepted(t) ==
    /\ tick[t].pc = "submit"
    /\ runs' = Append(runs, NewRun(t))
    /\ tick' = [tick EXCEPT ![t].pc = "store", ![t].run = Len(runs) + 1]
    /\ UNCHANGED <<queue, audits, iters, faults>>

(* The JVM accepted the POST and the answer was lost: submit_backtest      *)
(* raises, and no one learns the id of the run.                            *)
SubmitUnanswered(t) ==
    /\ tick[t].pc = "submit"
    /\ Disturbed
    /\ runs' = Append(runs, NewRun(t))
    /\ tick' = [tick EXCEPT ![t] = Left(t, "rollback")]
    /\ UNCHANGED <<queue, audits, iters>>

StoreActiveRun(t) ==
    /\ tick[t].pc = "store"
    /\ SetActiveRun(tick[t].row, tick[t].run)
    /\ Goto(t, "poll")
    /\ UNCHANGED <<runs, audits, iters, faults>>

---------------------------------------------------------------------------
(* Step 4.5: poll the run to a terminal status, or to the poll cap *)

PollCompleted(t) ==
    /\ tick[t].pc = "poll"
    /\ runs[tick[t].run].state = "COMPLETED"
    /\ Goto(t, "find")
    /\ UNCHANGED <<queue, runs, audits, iters, faults>>

PollDead(t) ==
    /\ tick[t].pc = "poll"
    /\ runs[tick[t].run].state = "FAILED"
    /\ FailQueue(tick[t].row)
    /\ tick' = [tick EXCEPT ![t] = Left(t, "reply")]
    /\ UNCHANGED <<runs, audits, iters, faults>>

PollCapExpires(t) ==
    /\ tick[t].pc = "poll"
    /\ runs[tick[t].run].state = "RUNNING"
    /\ RollbackIter(tick[t].row)
    /\ tick' = [tick EXCEPT ![t] = Left(t, "reply")]
    /\ UNCHANGED <<runs, audits, iters, faults>>

---------------------------------------------------------------------------
(* Step 5: log the evidence, then move the queue pointer *)

(* Faulty: the tick logs without looking for an iteration of the run. *)
FindNothing(t) ==
    /\ tick[t].pc = "find"
    /\ Goto(t, "log")
    /\ UNCHANGED <<queue, runs, audits, iters, faults>>

FindIteration(t) ==
    LET i == FindIterationForRun(tick[t].run) IN
    /\ tick[t].pc = "find"
    /\ tick' = [tick EXCEPT ![t].pc = IF i = Null THEN "log" ELSE "attach",
                            ![t].iter = i]
    /\ UNCHANGED <<queue, runs, audits, iters, faults>>

(* Faulty: the queue moves on although the evidence was not written. *)
LogNothing(t) ==
    /\ tick[t].pc = "log"
    /\ tick' = [tick EXCEPT ![t] = Left(t, "reply")]
    /\ ResetToPending(tick[t].row)
    /\ UNCHANGED <<runs, audits, iters, faults>>

(* Transaction A: the iteration and the backfill of the audit row.          *)
LogEvidence(t) ==
    LET a == tick[t].audit
        i == Len(iters) + 1 IN
    /\ tick[t].pc = "log"
    /\ \E out \in Outcomes :
        iters' = Append(iters, [row |-> tick[t].row, run |-> tick[t].run,
                                cell |-> tick[t].cell, trials |-> tick[t].trials,
                                out |-> out])
    /\ audits' = IF a = Null THEN audits ELSE [audits EXCEPT ![a].iter = i]
    /\ tick' = [tick EXCEPT ![t].pc = "attach", ![t].iter = i]
    /\ UNCHANGED <<queue, runs, faults>>

(* Transaction B: 409 queue_row_reclaimed when the fence does not hold,     *)
(* an error marked terminal, so nothing is rolled back.                    *)
Attach(t) ==
    /\ tick[t].pc = "attach"
    /\ AttachIteration(tick[t].row, tick[t].iter, tick[t].fence)
    /\ IF FenceHolds(tick[t].row, tick[t].fence)
       THEN Goto(t, "decide")
       ELSE tick' = [tick EXCEPT ![t] = Left(t, "reply")]
    /\ UNCHANGED <<runs, audits, iters, faults>>

---------------------------------------------------------------------------
(* Step 6: the next state of the row *)

(* Faulty: the budget is passed before it is tested. *)
NextStateLate(q, n, out) ==
    CASE out.stat = "SIGNIFICANT_EDGE" /\ out.dec = "PASS" -> "PARK"
      [] out.stat = "NO_EDGE" /\ (EarlyStop[q] \/ n > IterBudget[q]) -> "DISCARD"
      [] out.stat # "NO_EDGE" /\ out.dec # "PASS" /\ n > IterBudget[q] ->
             "INSUFFICIENT_EVIDENCE"
      [] OTHER -> "CONTINUE"

(* Faulty: a spent budget always reads as a discard. *)
NextStateDiscards(q, n, out) ==
    CASE out.stat = "SIGNIFICANT_EDGE" /\ out.dec = "PASS" -> "PARK"
      [] out.stat = "NO_EDGE" /\ EarlyStop[q] -> "DISCARD"
      [] out.dec # "PASS" /\ n >= IterBudget[q] -> "DISCARD"
      [] OTHER -> "CONTINUE"

(* Faulty: the attempt's decision is stored as the final verdict. *)
NextStateRaw(q, n, out) ==
    CASE out.stat = "SIGNIFICANT_EDGE" /\ out.dec = "PASS" -> "PARK"
      [] out.stat = "NO_EDGE" /\ (EarlyStop[q] \/ n >= IterBudget[q]) -> "DISCARD"
      [] out.stat # "NO_EDGE" /\ out.dec # "PASS" /\ n >= IterBudget[q] -> out.dec
      [] OTHER -> "CONTINUE"

NextState(q, n, out) ==
    CASE out.stat = "SIGNIFICANT_EDGE" /\ out.dec = "PASS" -> "PARK"
      [] out.stat = "NO_EDGE" /\ (EarlyStop[q] \/ n >= IterBudget[q]) -> "DISCARD"
      [] out.stat # "NO_EDGE" /\ out.dec # "PASS" /\ n >= IterBudget[q] ->
             "INSUFFICIENT_EVIDENCE"
      [] OTHER -> "CONTINUE"

DecideNextState(t) ==
    LET q    == tick[t].row
        next == NextState(q, tick[t].prior + 1, iters[tick[t].iter].out) IN
    /\ tick[t].pc = "decide"
    /\ CASE next = "PARK"     -> ParkExhausted(q)
         [] next = "CONTINUE" -> ResetToPending(q)
         [] OTHER             -> CompleteQueue(q, next)
    /\ tick' = [tick EXCEPT ![t] = Left(t, "reply")]
    /\ UNCHANGED <<runs, audits, iters, faults>>

Reply(t) ==
    /\ tick[t].pc = "reply"
    /\ tick' = [tick EXCEPT ![t] = IdleTick]
    /\ UNCHANGED <<queue, runs, audits, iters, faults>>

---------------------------------------------------------------------------
(* Death of a tick, and of the process *)

(* An exception or a cancellation at any await after the claim.  A tick     *)
(* that is past its last write still awaits the release of its connection  *)
(* and the paper generator, inside the same try block.                     *)
TickFails(t) ==
    /\ \/ tick[t].pc \in ClaimedSteps
       \/ LateCancel /\ tick[t].pc = "reply"
    /\ Disturbed
    /\ tick' = [tick EXCEPT ![t] = Left(t, "rollback")]
    /\ UNCHANGED <<queue, runs, audits, iters>>

Rollback(t) ==
    /\ tick[t].pc = "rollback"
    /\ RollbackIter(tick[t].row)
    /\ tick' = [tick EXCEPT ![t] = IdleTick]
    /\ UNCHANGED <<runs, audits, iters, faults>>

(* _rollback logs an exception of the cleanup and lets the tick end.        *)
RollbackFails(t) ==
    /\ tick[t].pc = "rollback"
    /\ Disturbed
    /\ tick' = [tick EXCEPT ![t] = IdleTick]
    /\ UNCHANGED <<queue, runs, audits, iters>>

ProcessDies ==
    /\ \E t \in Ticks : InFlight(t)
    /\ Disturbed
    /\ tick' = [t \in Ticks |-> IdleTick]
    /\ UNCHANGED <<queue, runs, audits, iters>>

---------------------------------------------------------------------------
(* The JVM, the clock and the operator *)

RunCompletes(r) ==
    /\ runs[r].state = "RUNNING"
    /\ runs' = [runs EXCEPT ![r].state = "COMPLETED"]
    /\ UNCHANGED <<queue, tick, audits, iters, faults>>

(* FAILED, CANCELLED and ERROR are one state here: every caller treats      *)
(* them alike.                                                             *)
RunFails(r) ==
    /\ runs[r].state = "RUNNING"
    /\ Disturbed
    /\ runs' = [runs EXCEPT ![r].state = "FAILED"]
    /\ UNCHANGED <<queue, tick, audits, iters>>

(* started_at passes poll_timeout_s + _STUCK_RUNNING_BUFFER_S.  A tick in   *)
(* flight keeps its row young, unless SlowTicks: outlasting the reaper is   *)
(* one of the disturbances that MaxFaults bounds.                          *)
ClaimAges(q) ==
    /\ queue[q].status = "RUNNING"
    /\ ~queue[q].overdue
    /\ IF \E t \in Ticks : InFlight(t) /\ tick[t].row = q
       THEN SlowTicks /\ Disturbed
       ELSE UNCHANGED faults
    /\ queue' = [queue EXCEPT ![q].overdue = TRUE]
    /\ UNCHANGED <<tick, runs, audits, iters>>

Enqueue(q) ==
    /\ queue[q].status = "ABSENT"
    /\ InsertQueue(q)
    /\ UNCHANGED <<tick, runs, audits, iters, faults>>

Cancel(q) ==
    /\ queue[q].status \in {"PENDING", "RUNNING"}
    /\ CancelQueue(q)
    /\ UNCHANGED <<tick, runs, audits, iters, faults>>

Requeue(q) ==
    /\ queue[q].status = "FAILED"
    /\ RequeueFailed(q)
    /\ UNCHANGED <<tick, runs, audits, iters, faults>>

---------------------------------------------------------------------------
TickStep(t) ==
    \/ Recover(t) \/ Claim(t) \/ EmptyQueue(t) \/ Resume(t)
    \/ Exhausted(t) \/ RecordTrial(t) \/ SubmitAccepted(t) \/ StoreActiveRun(t)
    \/ PollCompleted(t) \/ PollDead(t) \/ PollCapExpires(t)
    \/ FindIteration(t) \/ LogEvidence(t) \/ Attach(t) \/ DecideNextState(t)
    \/ Reply(t) \/ Rollback(t)

Mishap(t) ==
    ConfigError(t) \/ SubmitUnanswered(t) \/ TickFails(t) \/ RollbackFails(t)

OperatorStep(q) == Enqueue(q) \/ Cancel(q) \/ Requeue(q)

Next ==
    \/ \E t \in Ticks : TickStep(t) \/ Mishap(t)
    \/ \E q \in Rows : OperatorStep(q) \/ ClaimAges(q)
    \/ \E r \in 1..Len(runs) : RunCompletes(r) \/ RunFails(r)
    \/ ProcessDies

Spec == TickInit /\ [][Next]_vars

(* Agents and drain loops keep calling /tick, a live tick keeps running,    *)
(* the JVM ends the runs it accepted and time passes.  The operator and the *)
(* mishaps are not fair.                                                   *)
Fairness ==
    /\ \A t \in Ticks : WF_vars(TickStep(t))
    /\ \A q \in Rows : WF_vars(ClaimAges(q))
    /\ WF_vars(\E r \in 1..Len(runs) : RunCompletes(r))

FairSpec == Spec /\ Fairness

---------------------------------------------------------------------------
(* Properties *)

TickLocals == [pc : {"idle", "claim", "rollback", "reply"} \cup ClaimedSteps,
               row : Rows \cup {Null}, fence : Fences \cup {Null}, prior : Nat,
               run : Ids \cup {Null}, audit : Ids \cup {Null},
               cell : Nat \cup {Null}, trials : Nat, iter : Ids \cup {Null}]

Run       == [row : Rows, cell : Nat, state : {"RUNNING", "COMPLETED", "FAILED"}]
Audit     == [row : Rows, cell : Nat, iter : Ids \cup {Null}]
Iteration == [row : Rows, run : Ids, cell : Nat, trials : Nat, out : VerdictPairs]

(* No step stores a value of the wrong kind; in particular an iteration     *)
(* always has the combo of its run, which a resumed tick only knows from    *)
(* the audit row.                                                           *)
TypeOK ==
    /\ queue \in [Rows -> QueueRow]
    /\ tick \in [Ticks -> TickLocals]
    /\ runs \in Seq(Run)
    /\ audits \in Seq(Audit)
    /\ iters \in Seq(Iteration)
    /\ faults \in 0..MaxFaults

(* "Concurrent drains never collide on the same row" (api/tick.py:140): of  *)
(* all the ticks between a claim and their last write, no two work on one   *)
(* row, whatever the reaper, the rollbacks and the operator did meanwhile.  *)
OneTickPerRow ==
    \A t, u \in Ticks :
        InFlight(t) /\ InFlight(u) /\ tick[t].row = tick[u].row => t = u

(* The resuming tick adopts the iteration of a run that is already logged   *)
(* instead of inserting a second one: there is no UNIQUE constraint on      *)
(* backtest_run_id (find_iteration_for_run).                                *)
RunLoggedOnce ==
    \A i, j \in 1..Len(iters) : iters[i].run = iters[j].run => i = j

(* Logged evidence carries the parameters the run was submitted with, and   *)
(* counts exactly once in the trial multiplicity: one audit row of the same *)
(* sweep and cell is attached to it.                                        *)
EvidenceMatchesRun ==
    \A i \in 1..Len(iters) :
        /\ iters[i].row = runs[iters[i].run].row
        /\ iters[i].cell = runs[iters[i].run].cell
        /\ \E a \in 1..Len(audits) :
            /\ {b \in 1..Len(audits) : audits[b].iter = i} = {a}
            /\ audits[a].row = iters[i].row
            /\ audits[a].cell = iters[i].cell

(* The multiplicity that deflates a verdict is read before a run that may   *)
(* take an hour (tick.py step 3.5), while the tick of another sweep on the  *)
(* same symbol and interval logs.  Whatever overlaps, crashes or resumes,   *)
(* an iteration counts every earlier iteration of its own sweep, and        *)
(* nothing beyond what is on file on its universe.                         *)
MultiplicityIsHonest ==
    \A i \in 1..Len(iters) :
        LET q      == iters[i].row
            before == {j \in 1..(i - 1) :
                          Universe[q] # Null /\ Universe[iters[j].row] = Universe[q]}
        IN  /\ iters[i].trials > Cardinality({j \in before : iters[j].row = q})
            /\ iters[i].trials <= 1 + Cardinality(before)

(* What the comment on that count says: "the DATA-UNIVERSE trial count      *)
(* (every COMPLETED trial on this symbol x interval, regardless of          *)
(* strategy_code)".  An iteration counts every iteration logged before it   *)
(* on its data universe.                                                   *)
TrialsCounted ==
    \A i \in 1..Len(iters) :
        LET u == Universe[iters[i].row] IN
        u # Null => iters[i].trials >
            Cardinality({j \in 1..(i - 1) : Universe[iters[j].row] = u})

(* The pointer to an active run is never a dead end while the run lives:    *)
(* the next claim finds the iteration to adopt, or the audit row that holds *)
(* the very combo the run was submitted with.  The branch                   *)
(* tick.active_run_unresumable is not reached.                              *)
ActiveRunIsResumable ==
    \A q \in Rows :
        LET r == queue[q].active
            a == LatestUnattached(q) IN
        r # Null /\ runs[r].state # "FAILED" =>
            /\ runs[r].row = q
            /\ \/ FindIterationForRun(r) # Null
               \/ a # Null /\ audits[a].cell = runs[r].cell

(* A run is not lost between its ticks: what is logged of it is what was   *)
(* submitted, and what is not logged yet can still be.                     *)
RunsAreRecoverable == EvidenceMatchesRun /\ ActiveRunIsResumable

(* The cells a grid row has behind it, by its iteration counter.            *)
CellsBehind(q) ==
    CASE queue[q].status \in {"PENDING", "COMPLETED"}        -> queue[q].iter
      [] queue[q].status \in {"RUNNING", "FAILED"}           -> Decrement(queue[q].iter)
      [] queue[q].status \in {"ABSENT", "PARKED"}            -> 0

(* No cell is silently skipped: every cell a grid sweep has behind it has   *)
(* an iteration on file, however many ticks died, were reaped or requeued.  *)
NoCellSkipped ==
    \A q \in Rows : Sampler[q] = "grid" =>
        \A c \in 0..(CellsBehind(q) - 1) :
            \E i \in 1..Len(iters) : iters[i].row = q /\ iters[i].cell = c

(* The counter that rollbacks, the reaper and requeues decrement keeps to   *)
(* the sweep's budget.                                                      *)
WithinBudget ==
    \A q \in Rows :
        /\ queue[q].status = "RUNNING" => queue[q].iter <= IterBudget[q]
        /\ queue[q].status = "PENDING" => queue[q].iter < IterBudget[q]

(* The counter that the claim raises and rollbacks, the reaper and requeues *)
(* lower is true on both sides: not above the budget, nor ahead of the     *)
(* evidence.                                                               *)
CounterIsTrue == NoCellSkipped /\ WithinBudget

(* A COMPLETED row points at an iteration of its own that supports its      *)
(* final verdict.                                                           *)
ConclusionJustified ==
    \A q \in Rows : queue[q].status = "COMPLETED" =>
        /\ queue[q].last # Null
        /\ iters[queue[q].last].row = q
        /\ (queue[q].verdict = "DISCARD") <=> (iters[queue[q].last].out.stat = "NO_EDGE")

(* The loop never reopens a sweep that is over: no tick that was in flight  *)
(* when the operator cancelled it, or when another tick finished it, and    *)
(* that comes back late, makes it PENDING or RUNNING again or overwrites    *)
(* the verdict it ended with.  A parked sweep may still be completed.       *)
ClosedStaysClosed ==
    [][\A q \in Rows :
        /\ queue[q].status \in Closed => queue'[q].status \in Closed
        /\ queue[q].status = "COMPLETED" =>
              queue'[q].status = "COMPLETED" /\ queue'[q].verdict = queue[q].verdict]_vars

(* The pointer to the last iteration only moves forward: a tick that the    *)
(* reaper overtook, and whose row another tick has claimed and attached     *)
(* newer evidence to since, meets the started_at fence (attach_iteration)   *)
(* and cannot put its own older evidence back.  The row decides on the      *)
(* newest evidence it was ever shown.                                      *)
EvidenceMovesForward ==
    [][\A q \in Rows :
        queue[q].last # Null => queue'[q].last >= queue[q].last]_vars

(* No cell of a grid sweep is logged twice: "if the tick later dies the     *)
(* next claim resumes this run instead of submitting a duplicate"           *)
(* (set_active_run).                                                        *)
CellLoggedOnce ==
    \A i, j \in 1..Len(iters) :
        Sampler[iters[i].row] = "grid" /\ iters[i].row = iters[j].row
            /\ iters[i].cell = iters[j].cell => i = j

(* Every sweep handed to the loop comes to an end, or to the operator.      *)
EverySweepConcludes ==
    \A q \in Rows :
        queue[q].status = "PENDING" ~> queue[q].status \in Closed \cup {"FAILED"}

(* The refinement: a grid row, whatever its ticks do, is a sweep that works *)
(* through its cells in order and on evidence.                              *)
GridRows == {q \in Rows : Sampler[q] = "grid"}

Phase(q) ==
    CASE queue[q].status = "ABSENT"                  -> "absent"
      [] queue[q].status \in {"PENDING", "RUNNING"} -> "open"
      [] queue[q].status = "FAILED"                  -> "failed"
      [] queue[q].status = "PARKED"                  -> "parked"
      [] queue[q].status = "COMPLETED"               -> "done"

Ledger == INSTANCE SweepLedger WITH
    Sweeps    <- GridRows,
    CellCount <- [q \in GridRows |-> Cells[q]],
    Budget    <- [q \in GridRows |-> IterBudget[q]],
    phase     <- [q \in GridRows |-> Phase(q)],
    cursor    <- [q \in GridRows |->
                    IF queue[q].status \in Closed THEN 0 ELSE CellsBehind(q)],
    evidence  <- [q \in GridRows |->
                    {iters[i].cell : i \in {j \in 1..Len(iters) : iters[j].row = q}}]

ImplementsLedger == Ledger!Spec

============================================================================
