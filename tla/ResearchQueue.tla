--------------------------- MODULE ResearchQueue ---------------------------
(***************************************************************************)
(* The research_queue table and the single-statement writes of             *)
(* repo/queue_write.py.  Each operator below is one SQL statement: it      *)
(* gives the value of the table after the statement committed, and leaves  *)
(* the table alone when the WHERE clause matches no row.  Which process    *)
(* issues which statement is the business of the module that extends this  *)
(* one.                                                                    *)
(***************************************************************************)
EXTENDS Naturals, FiniteSets

CONSTANTS
    Rows,       \* the sweeps an operator may enqueue
    Priority,   \* research_queue.priority of each row; smaller is claimed first
    Fences,     \* timestamps that NOW() returns to a claim, tested for equality only
    Null        \* SQL NULL

ASSUME QueueAssumption ==
    /\ IsFiniteSet(Rows)
    /\ Priority \in [Rows -> Nat]
    /\ Null \notin Rows
    /\ Null \notin Fences
    /\ Null \notin Nat

VARIABLE queue

Statuses == {"ABSENT", "PENDING", "RUNNING", "PARKED", "COMPLETED", "FAILED"}

(* The rows no statement of the tick may move again: a finished sweep, and *)
(* one the operator cancelled.                                             *)
Closed == {"PARKED", "COMPLETED"}

FinalVerdicts == {"DISCARD", "INSUFFICIENT_EVIDENCE"}

(* Runs, audit rows and iterations are known by their place in the table.   *)
Ids == Nat \ {0}

QueueRow == [status : Statuses, iter : Nat, started : Fences \cup {Null},
             overdue : BOOLEAN, active : Ids \cup {Null}, last : Ids \cup {Null},
             verdict : FinalVerdicts \cup {Null}, order : Nat]

(* overdue stands for started_at < NOW() - max_age_seconds: the only test   *)
(* of started_at that is not an equality.  order stands for created_time.  *)
NoRow == [status |-> "ABSENT", iter |-> 0, started |-> Null, overdue |-> FALSE,
          active |-> Null, last |-> Null, verdict |-> Null, order |-> 0]

QueueInit == queue = [q \in Rows |-> NoRow]

InStatus(s) == {q \in Rows : queue[q].status = s}

(* GREATEST(iteration_number - 1, 0) *)
Decrement(n) == IF n = 0 THEN 0 ELSE n - 1

---------------------------------------------------------------------------
Update(q, row) == queue' = [queue EXCEPT ![q] = row]

(* An UPDATE with expected_status = 'RUNNING', as every caller passes it.   *)
WhileRunning(q, row) ==
    IF queue[q].status = "RUNNING" THEN Update(q, row) ELSE UNCHANGED queue

(* insert_queue: the created_time of a new row is after that of every other. *)
InsertQueue(q) ==
    Update(q, [queue[q] EXCEPT !.status = "PENDING",
                               !.order  = 1 + Cardinality(Rows \ InStatus("ABSENT"))])

(* ORDER BY priority ASC, created_time ASC *)
Precedes(p, q) ==
    \/ Priority[p] < Priority[q]
    \/ Priority[p] = Priority[q] /\ queue[p].order < queue[q].order

(* Faulty: RUNNING rows are claimed as well, as before the fix of claim_next. *)
FirstPendingOrRunning(matching) ==
    LET open == matching \cap (InStatus("PENDING") \cup InStatus("RUNNING")) IN
    {q \in open : \A p \in open : p = q \/ Precedes(q, p)}

(* claim_next over the rows that match the caller's track: FOR UPDATE SKIP *)
(* LOCKED makes concurrent claims take turns, so a claim is one step.      *)
FirstPending(matching) ==
    {q \in matching \cap InStatus("PENDING") :
        \A p \in matching \cap InStatus("PENDING") : p = q \/ Precedes(q, p)}

ClaimRow(q, now) ==
    Update(q, [queue[q] EXCEPT !.status = "RUNNING", !.iter = @ + 1,
                               !.started = now, !.overdue = FALSE])

(* recover_stuck: one UPDATE over every RUNNING row older than the cap.    *)
(* active_backtest_run_id is kept, started_at is not.                      *)
Recovered(row) ==
    IF row.status = "RUNNING" /\ row.overdue
    THEN [row EXCEPT !.status = "PENDING", !.started = Null, !.overdue = FALSE,
                     !.iter = Decrement(@)]
    ELSE row

RecoverStuck == queue' = [q \in Rows |-> Recovered(queue[q])]

(* Faulty: the attempt that died still counts. *)
RollbackKeepsCounter(q) ==
    WhileRunning(q, [queue[q] EXCEPT !.status = "PENDING", !.overdue = FALSE])

RollbackIter(q) ==
    WhileRunning(q, [queue[q] EXCEPT !.status = "PENDING", !.overdue = FALSE,
                                     !.iter = Decrement(@)])

(* Faulty: without expected_status. *)
ResetUnguarded(q) ==
    Update(q, [queue[q] EXCEPT !.status = "PENDING", !.overdue = FALSE])

ResetToPending(q) ==
    WhileRunning(q, [queue[q] EXCEPT !.status = "PENDING", !.overdue = FALSE])

ParkExhausted(q) ==
    WhileRunning(q, [queue[q] EXCEPT !.status = "PARKED", !.overdue = FALSE,
                                     !.active = Null])

FailQueue(q) ==
    WhileRunning(q, [queue[q] EXCEPT !.status = "FAILED", !.overdue = FALSE,
                                     !.active = Null])

(* complete_queue with no walk_forward_id, as the tick calls it             *)
CompleteQueue(q, final) ==
    WhileRunning(q, [queue[q] EXCEPT !.status = "COMPLETED", !.overdue = FALSE,
                                     !.active = Null, !.verdict = final])

(* set_active_run: guarded by the status alone, not by started_at *)
SetActiveRun(q, run) == WhileRunning(q, [queue[q] EXCEPT !.active = run])

(* Faulty: guarded by the status, as the other statements are. *)
FenceByStatus(q, fence) == queue[q].status = "RUNNING"

(* attach_iteration with expected_started_at: guarded by started_at alone, *)
(* so a cancelled row still receives the pointer.                          *)
FenceHolds(q, fence) == queue[q].started = fence

AttachIteration(q, iteration, fence) ==
    IF FenceHolds(q, fence)
    THEN Update(q, [queue[q] EXCEPT !.last = iteration, !.active = Null])
    ELSE UNCHANGED queue

(* cancel_queue: the active run is kept on the parked row *)
CancelQueue(q) ==
    Update(q, [queue[q] EXCEPT !.status = "PARKED", !.overdue = FALSE])

RequeueFailed(q) ==
    Update(q, [queue[q] EXCEPT !.status = "PENDING", !.iter = Decrement(@)])

============================================================================
