------------------------------ MODULE Backlog ------------------------------
(***************************************************************************)
(* The walk-forward backlog (repo/queue.py, GET /walk-forward/backlog):    *)
(* sweeps that the tick parked on a significant edge, and what becomes of  *)
(* them when POST /walk-forward validates them.  The request stores its    *)
(* verdict and then answers; the gates in front of it, the folds it runs   *)
(* and the registry it updates are the business of other modules.          *)
(***************************************************************************)
EXTENDS Tick

VARIABLE validations   \* walk_forward_run, and whether the request has answered

StabilityVerdicts ==
    {"ROBUST", "INCONSISTENT", "INSUFFICIENT_EVIDENCE", "OVERFIT", "NO_EDGE"}

(* list_walk_forward_backlog.  No statement stores a walk_forward_id in     *)
(* research_queue (every complete_queue passes None), so that walk_forward_id *)
(* IS NULL holds of every row.                                              *)
WalkForwardBacklog ==
    {q \in Rows : /\ queue[q].status = "PARKED"
                  /\ queue[q].last # Null
                  /\ iters[queue[q].last].out.stat = "SIGNIFICANT_EDGE"}

(* run_walk_forward inserts the verdict it reached on a candidate of the    *)
(* backlog.  A bound of the model: each iteration is validated once.        *)
RunWalkForward(q) ==
    LET i == queue[q].last IN
    /\ q \in WalkForwardBacklog
    /\ \A v \in validations : v.iteration # i
    /\ \E verdict \in StabilityVerdicts :
        validations' = validations \cup
            {[iteration |-> i, verdict |-> verdict, answered |-> FALSE]}
    /\ UNCHANGED vars

(* The rest of the handler: the registry, the activity log and the answer.  *)
(* No statement on research_queue.                                          *)
AnswerWalkForward(v) ==
    /\ ~v.answered
    /\ validations' = (validations \ {v}) \cup {[v EXCEPT !.answered = TRUE]}
    /\ UNCHANGED vars

BacklogInit == TickInit /\ validations = {}

BacklogNext ==
    \/ Next /\ UNCHANGED validations
    \/ \E q \in Rows : RunWalkForward(q)
    \/ \E v \in validations : AnswerWalkForward(v)

BacklogSpec == BacklogInit /\ [][BacklogNext]_<<vars, validations>>

(* What the comments say of POST /walk-forward: it "(if ROBUST) flips the   *)
(* queue to COMPLETED/PASS" (tick.py), and the backlog lists a row "iff it  *)
(* has NOT already been walk-forwarded" (list_walk_forward_backlog).  A     *)
(* candidate whose robust validation was answered has left the backlog.     *)
ValidatedLeavesBacklog ==
    \A q \in WalkForwardBacklog, v \in validations :
        ~(v.answered /\ v.verdict = "ROBUST" /\ v.iteration = queue[q].last)

=============================================================================
