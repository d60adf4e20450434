------------------------------- MODULE MCTick -------------------------------
(* Instances of Tick for TLC.                                               *)
EXTENDS Tick, TLC

CONSTANTS q1, q2, t1, t2, n1, n2

Symmetric == Permutations(Ticks) \cup Permutations(Fences)

OneRow == {q1}
TwoRows == {q1, q2}
TwoTicks == {t1, t2}
TwoFences == {n1, n2}

AllRows(x) == [q \in Rows |-> x]

(* One loop on the trading track drains two rows: an untracked grid row     *)
(* that has fewer combos than budget, and a more urgent trading row sampled *)
(* by TPE.                                                                  *)
OneTick      == {t1}
OneFence     == {n1}
LiveTrack    == (t1 :> "trading")
LiveRowTrack == (q1 :> "none") @@ (q2 :> "trading")
LivePriority == (q1 :> 20) @@ (q2 :> 10)
LiveSampler  == (q1 :> "grid") @@ (q2 :> "tpe")
LiveCells    == (q1 :> 1) @@ (q2 :> 2)
LiveBudget   == AllRows(2)
LiveEarly    == (q1 :> FALSE) @@ (q2 :> TRUE)
LiveOutcomes == {v \in VerdictPairs : v.dec \in {"DISCARD", "PASS"}}

(* The trading and the hedging loop, each on a sweep of the same symbol.    *)
DualTrack    == (t1 :> "trading") @@ (t2 :> "hedging")
DualRowTrack == (q1 :> "trading") @@ (q2 :> "hedging")

(* Bound: one sweep with any outcome and up to MaxFaults mishaps, or two     *)
(* sweeps of one symbol, drained by ticks that overlap, undisturbed and      *)
(* with three runs between them.                                            *)
TrialsOutcomes == {v \in VerdictPairs : v.stat = "INSUFFICIENT_EVIDENCE"}
OneSweepOrTwoCalm ==
    queue[q2].status # "ABSENT" =>
        /\ queue[q1].status # "ABSENT"
        /\ faults = 0 /\ Len(runs) <= 3
        /\ \A i \in 1..Len(iters) : iters[i].out \in TrialsOutcomes

(* A tick that outlasts the reaper and one that overtakes it.  Overtaken     *)
(* ticks may submit run after run: FewRuns bounds the tables.               *)
SlowOutcomes == {v \in VerdictPairs : v.stat \in {"INSUFFICIENT_EVIDENCE", "NO_EDGE"}}
FewRuns      == Len(runs) <= 3 /\ Len(iters) <= 3 /\ Len(audits) <= 3

MCUniverse  == AllRows("BTCUSDT 1h")
MCPriority  == AllRows(10)
MCRowTrack  == AllRows("none")
MCLoopTrack == [t \in Ticks |-> "any"]
MCSampler   == AllRows("grid")
MCCells     == AllRows(3)
MCBudget    == AllRows(2)
MCEarly     == AllRows(TRUE)

============================================================================
