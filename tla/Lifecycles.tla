----------------------------- MODULE Lifecycles -----------------------------
(***************************************************************************)
(* What the orchestrator's catalogues allow a row to become: the status    *)
(* graphs of model_registry, signal_definition and experiment_run, the     *)
(* status a registration starts with, and what a research verdict says of  *)
(* a strategy in the curated registry.  No state, only the tables of the   *)
(* code as sets and functions.                                             *)
(***************************************************************************)
EXTENDS Naturals, Sequences

(* _PROMOTION_TRANSITIONS, as the set of its edges.                        *)
Promotions ==
    ({"awaiting_operator_review"} \X {"trained", "rejected_by_operator"})
    \cup ({"trained"} \X {"staged", "rejected_by_operator"})
    \cup ({"staged"} \X {"shadow", "retired"})
    \cup ({"shadow"} \X {"cooling_down", "retired"})
    \cup ({"cooling_down"} \X {"live", "retired"})
    \cup ({"live", "rejected_by_operator"} \X {"retired"})

PromotionTargets == {"trained", "staged", "shadow", "cooling_down", "live",
                     "retired", "rejected_by_operator"}

ModelStatuses == PromotionTargets \cup {"training", "awaiting_operator_review"}

(* The gauntlet block of a registration and its deployment_ready flag.     *)
Gauntlets == {"PASS_READY", "PASS_UNREADY", "FAIL", "NONE"}

DerivedStatus ==
    [g \in Gauntlets |-> CASE g = "NONE"         -> "training"
                           [] g = "PASS_READY"   -> "trained"
                           [] g = "PASS_UNREADY" -> "awaiting_operator_review"
                           [] g = "FAIL"         -> "rejected_by_operator"]

SignalStatuses == {"shadow", "active", "retired"}

(* _SIGNAL_STATUS_TRANSITIONS.                                             *)
SignalMoves ==
    ({"shadow"} \X {"active", "retired"}) \cup ({"active"} \X {"shadow", "retired"})

RunVerdicts == {"completed", "failed", "aborted"}
RunMoves == {"running"} \X RunVerdicts

(* registry_sync.derive_status: a walk-forward verdict or, from the tick,  *)
(* a statistical one, to a tier and a lifecycle; NONE is no conclusion.    *)
ResearchVerdicts == {"ROBUST", "OVERFIT", "INCONSISTENT", "SIGNIFICANT_EDGE",
                     "INSUFFICIENT_EVIDENCE", "NO_EDGE", "NOT_TESTED"}

DeriveStatus(v) ==
    CASE v = "ROBUST"                                  -> "TIER_A_LEAD"
      [] v \in {"OVERFIT", "NO_EDGE"}                  -> "TIER_C_FALSIFIED"
      [] v \in {"INCONSISTENT", "INSUFFICIENT_EVIDENCE"} -> "TIER_B_PARKED"
      [] v = "SIGNIFICANT_EDGE"                        -> "TIER_B_LEAD"
      [] OTHER                                         -> "NONE"

Standings == {"TIER_A_LEAD", "TIER_C_FALSIFIED", "TIER_B_PARKED", "TIER_B_LEAD"}

---------------------------------------------------------------------------
(* A row with a lifecycle keeps in trail every status it was given: the    *)
(* first at its insertion, the last is its status column.                  *)
Status(row) == row.trail[Len(row.trail)]
Moved(row, s) == [row EXCEPT !.trail = Append(@, s)]

Follows(trail, moves) ==
    \A n \in 1..Len(trail) - 1 : <<trail[n], trail[n + 1]>> \in moves
=============================================================================
