------------------------------ MODULE Reviews ------------------------------
(***************************************************************************)
(* Review requests and review verdicts in the research_journal table       *)
(* (repo/reviews.py), and the checklist that turns findings into a verdict *)
(* (services/review.py).  Each operator on the journal is one statement or *)
(* one transaction: it takes the table and returns the table or the answer *)
(* of a query.  Rows are kept in the order of created_time.                *)
(***************************************************************************)
EXTENDS Naturals, Sequences, FiniteSets

CONSTANTS
    Targets,        \* review targets: a plan (strategy, axes, hypothesis) or an iteration
    TargetKind,     \* "plan" or "graduation", of each target
    TargetTrack,    \* the track the target's sweep was enqueued on
    Hypothesis      \* what a plan's hypothesis_id names: nothing, an entry
                    \* without a mechanism, or an entry that names one

Kinds == {"plan", "graduation"}
Tracks == {"none", "trading", "hedging"}

ASSUME ReviewAssumption ==
    /\ TargetKind \in [Targets -> Kinds]
    /\ TargetTrack \in [Targets -> Tracks]
    /\ Hypothesis \in [Targets -> {"none", "bare", "named"}]

Verdicts == {"APPROVED", "CONDITIONAL_APPROVAL", "REJECTED"}

(* REVIEW_VERDICTS_PASSING_GATE *)
PassingGate == {"APPROVED", "CONDITIONAL_APPROVAL"}

---------------------------------------------------------------------------
(* The checklist.  A check is known by its name; which of the statistical  *)
(* ones fail is data, which of them block is the code's decision.          *)
PlanChecks == {"pre_registration", "mechanism_named", "axis_not_recently_failed"}

GraduationChecks == {"n_trades_ample", "pf_ci_lower_bound", "dsr_threshold",
                     "cost_realism", "regime_concentration", "portfolio_fit",
                     "param_robustness"}

(* The plan checks that fail.  An entry that exists was written before the *)
(* plan that quotes its id, and its type is not looked at.                 *)
FailedPlanChecks(hypothesis, recentlyFailed) ==
    {k \in PlanChecks :
        \/ k = "pre_registration" /\ hypothesis = "none"
        \/ k = "mechanism_named" /\ hypothesis # "named"
        \/ k = "axis_not_recently_failed" /\ recentlyFailed}

HedgingBlockers == {"regime_concentration", "param_robustness"}

(* Mutants, each the way a plausible slip would write the operator after   *)
(* it: no escalation for a hedge; a verdict outside the enum.              *)
SameBlockersOnEveryTrack(t) ==
    IF TargetKind[t] = "plan" THEN {"pre_registration"}
    ELSE {"n_trades_ample", "pf_ci_lower_bound", "dsr_threshold"}

Blockers(t) ==
    IF TargetKind[t] = "plan" THEN {"pre_registration"}
    ELSE {"n_trades_ample", "pf_ci_lower_bound", "dsr_threshold"}
           \cup (IF TargetTrack[t] = "hedging" THEN HedgingBlockers ELSE {})

AggregateOutsideEnum(failed, blockers) ==
    IF failed \cap blockers # {} \/ Cardinality(failed) >= 2 THEN "REJECTED"
    ELSE IF failed # {} THEN "CONDITIONAL"
    ELSE "APPROVED"

(* aggregate_verdict, with WARNING_FAIL_REJECT_THRESHOLD = 2.              *)
AggregateVerdict(failed, blockers) ==
    IF failed \cap blockers # {} \/ Cardinality(failed) >= 2 THEN "REJECTED"
    ELSE IF failed # {} THEN "CONDITIONAL_APPROVAL"
    ELSE "APPROVED"

---------------------------------------------------------------------------
(* The journal.  active is status = 'ACTIVE'; an answered request is       *)
(* 'PARKED'.  failed holds the findings of a verdict.  late marks a row     *)
(* inserted by a retry of a call the server had answered already.          *)
Request(t, agent, late) ==
    [kind |-> "request", target |-> t, by |-> agent, active |-> TRUE,
     verdict |-> "NONE", failed |-> {}, late |-> late]

Verdict(t, agent, v, failed, late) ==
    [kind |-> "verdict", target |-> t, by |-> agent, active |-> TRUE,
     verdict |-> v, failed |-> failed, late |-> late]

RowsOf(journal, kind, t) ==
    {n \in 1..Len(journal) : journal[n].kind = kind /\ journal[n].target = t}

(* ORDER BY created_time DESC LIMIT 1, over a set of places that is not    *)
(* empty.                                                                  *)
Latest(places) == CHOOSE n \in places : \A m \in places : m <= n

InsertReviewRequest(journal, row) == Append(journal, row)

(* Mutant: only the latest request is closed.                              *)
CloseLatestRequest(journal, t) ==
    LET asked == RowsOf(journal, "request", t)
    IN  [n \in 1..Len(journal) |->
            IF n \in asked /\ n = Latest(asked)
            THEN [journal[n] EXCEPT !.active = FALSE] ELSE journal[n]]

(* The UPDATE of insert_review_verdict: every open request of the target.  *)
CloseRequests(journal, t) ==
    [n \in 1..Len(journal) |->
        IF n \in RowsOf(journal, "request", t)
        THEN [journal[n] EXCEPT !.active = FALSE] ELSE journal[n]]

InsertReviewVerdict(journal, row) == Append(CloseRequests(journal, row.target), row)

(* Mutant: ORDER BY created_time ASC.                                      *)
FirstVerdict(journal, t) ==
    LET on == RowsOf(journal, "verdict", t)
    IN  IF on = {} THEN "NONE"
        ELSE journal[CHOOSE n \in on : \A m \in on : n <= m].verdict

(* fetch_latest_verdict, down to the verdict the gates look at.            *)
LatestVerdict(journal, t) ==
    LET on == RowsOf(journal, "verdict", t)
    IN  IF on = {} THEN "NONE" ELSE journal[Latest(on)].verdict

(* Mutant: only an open request has a requester.                           *)
RequestedByWhileOpen(journal, t, agent) ==
    LET asked == {n \in RowsOf(journal, "request", t) : journal[n].active}
    IN  asked # {} /\ journal[Latest(asked)].by = agent

(* fetch_latest_request_requester: a closed request counts too.            *)
RequestedBy(journal, t, agent) ==
    LET asked == RowsOf(journal, "request", t)
    IN  asked # {} /\ journal[Latest(asked)].by = agent

HasRequest(journal, t) == RowsOf(journal, "request", t) # {}
============================================================================
