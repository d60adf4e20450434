------------------------------ MODULE MCIntake ------------------------------
(* Instances of Intake for TLC.                                             *)
EXTENDS Intake, TLC

CONSTANTS c1, c2

Symmetric == Permutations(Calls)

TwoCalls == {c1, c2}

(* Two plans that sweep the same axes under different hypotheses, one of    *)
(* them never registered, and the graduation of a hedging iteration.        *)
MCTargets == {"registered", "invented", "hedge"}
MCTargetKind == [t \in MCTargets |-> IF t = "hedge" THEN "graduation" ELSE "plan"]
MCTargetTrack == [t \in MCTargets |-> IF t = "hedge" THEN "hedging" ELSE "none"]
MCHypothesis == [t \in MCTargets |-> IF t = "registered" THEN "bare" ELSE "none"]
MCAxesOf == [t \in MCTargets |-> "axes"]

MCGraduationFails == {{"portfolio_fit"}, {"param_robustness"}}

Call1(who, op, t, k) == [agent |-> who, op |-> op, target |-> t, key |-> k,
                         track |-> "none", choice |-> "REJECTED", bypass |-> {}]

(* The paired review of a plan, by the checklist or by another agent; a     *)
(* reviewer that researches too; a plan nobody registered.                  *)
PlanIntents ==
    {Call1("researcher", "request", "registered", "k1"),
     Call1("reviewer", "request", "registered", "k1"),
     Call1("reviewer", "verdict", "registered", "k1"),
     [Call1("reviewer", "verdict", "registered", "k2") EXCEPT !.choice = "APPROVED"],
     Call1("researcher", "auto", "registered", "k1"),
     Call1("researcher", "request", "invented", "k2"),
     Call1("researcher", "auto", "invented", "k2")}

GraduationIntents ==
    {Call1("researcher", "request", "hedge", "k3"),
     Call1("researcher", "auto", "hedge", "k3"),
     Call1("researcher", "walk", "hedge", "k1")}

(* Sweeps of the same axes: behind both gates, around the review gate       *)
(* untracked and for one track, and around both gates without a key.        *)
QueueIntents ==
    {Call1("researcher", "queue", "registered", "k1"),
     [Call1("researcher", "queue", "invented", "k2") EXCEPT !.bypass = {"review"}],
     [Call1("researcher", "queue", "registered", "k3")
         EXCEPT !.track = "hedging", !.bypass = {"review"}],
     [Call1("researcher", "queue", "invented", "-") EXCEPT !.bypass = Gates]}

AllIntents == PlanIntents \cup GraduationIntents \cup QueueIntents
============================================================================
