---------------------------- MODULE SweepLedger ----------------------------
(***************************************************************************)
(* What the research queue promises about a grid sweep, with no word of    *)
(* ticks, runs, claims or crashes: its cells are worked through in order,  *)
(* the next one only once the current one has evidence on file, and the    *)
(* sweep concludes on evidence or because its cells are spent.  Tick.tla   *)
(* is shown to implement it.                                               *)
(***************************************************************************)
EXTENDS Naturals

CONSTANTS
    Sweeps,    \* the grid rows of the queue
    CellCount, \* combos of each sweep, at least one
    Budget     \* iter_budget of each sweep, at least one

VARIABLES
    phase,     \* absent, open, failed, parked or done
    cursor,    \* the cell an open or failed sweep works on, 0 once closed
    evidence   \* the cells with an iteration on file

ledger == <<phase, cursor, evidence>>

Phases == {"absent", "open", "failed", "parked", "done"}

Init ==
    /\ phase = [s \in Sweeps |-> "absent"]
    /\ cursor = [s \in Sweeps |-> 0]
    /\ evidence = [s \in Sweeps |-> {}]

Move(s, from, to) == phase[s] = from /\ phase' = [phase EXCEPT ![s] = to]

Close(s, to) ==
    /\ Move(s, "open", to)
    /\ cursor' = [cursor EXCEPT ![s] = 0]
    /\ UNCHANGED evidence

Open(s) == Move(s, "absent", "open") /\ UNCHANGED <<cursor, evidence>>

(* The current cell is put on file, possibly once more.                     *)
Log(s) ==
    /\ phase[s] = "open"
    /\ cursor[s] < CellCount[s]
    /\ evidence' = [evidence EXCEPT ![s] = @ \cup {cursor[s]}]
    /\ UNCHANGED <<phase, cursor>>

Advance(s) ==
    /\ phase[s] = "open"
    /\ cursor[s] \in evidence[s]
    /\ cursor[s] + 1 < Budget[s]
    /\ cursor' = [cursor EXCEPT ![s] = @ + 1]
    /\ UNCHANGED <<phase, evidence>>

(* COMPLETED with a final verdict, or PARKED for the walk-forward.           *)
Conclude(s) == cursor[s] \in evidence[s] /\ (Close(s, "done") \/ Close(s, "parked"))

Exhaust(s) == cursor[s] = CellCount[s] /\ Close(s, "parked")

Cancel(s) == Close(s, "parked")

(* The tick in flight when the sweep was cancelled still logs its cell.     *)
LogLate(s) ==
    /\ phase[s] = "parked"
    /\ \E c \in 0..(CellCount[s] - 1) :
        evidence' = [evidence EXCEPT ![s] = @ \cup {c}]
    /\ UNCHANGED <<phase, cursor>>

Fail(s) == Move(s, "open", "failed") /\ UNCHANGED <<cursor, evidence>>

Requeue(s) == Move(s, "failed", "open") /\ UNCHANGED <<cursor, evidence>>

LedgerStep(s) ==
    \/ Open(s) \/ Log(s) \/ Advance(s) \/ Conclude(s) \/ Exhaust(s)
    \/ Cancel(s) \/ LogLate(s) \/ Fail(s) \/ Requeue(s)

Spec == Init /\ [][\E s \in Sweeps : LedgerStep(s)]_ledger

---------------------------------------------------------------------------
(* What the promise amounts to: the evidence of a sweep still at work has   *)
(* no gap below its cursor, and the cursor stays within the budget.         *)
NoGap ==
    \A s \in Sweeps : phase[s] \in {"open", "failed"} =>
        /\ 0..(cursor[s] - 1) \subseteq evidence[s]
        /\ cursor[s] < Budget[s]

============================================================================
