----------------------------- MODULE MCGauntlet -----------------------------
(* Instances of Gauntlet.  Dates are those of the code's defaults where it *)
(* has any; the runs are chosen so that each verdict can be reached.       *)
EXTENDS Gauntlet

CONSTANTS j1, j2, m1, m2, m3, eth, btc

Sym == Permutations(Jobs)

(* A daily strategy whose window a bear is in; an intraday one, and the    *)
(* same as a pool candidate; one whose iteration has too few trades; and   *)
(* one whose iteration is not on record.                                   *)
Walk(iteration, daily, n, unreviewed, candidate) ==
    [iteration |-> iteration, daily |-> daily, start |-> <<2018, 1, 1>>, end |-> <<2021, 1, 1>>,
     train |-> 12, test |-> 3, step |-> 3, n |-> n, override |-> FALSE,
     unreviewed |-> unreviewed, candidate |-> candidate]
MCWalks == {Walk(None, TRUE, 3, TRUE, FALSE), Walk(m1, FALSE, 3, FALSE, FALSE),
            Walk(m1, FALSE, 2, FALSE, TRUE), Walk(m2, FALSE, 3, TRUE, FALSE),
            Walk(m3, FALSE, 2, TRUE, FALSE)}
MCTickTrades == (m1 :> 400) @@ (m2 :> 60)

Run(pf, ret, trades) == [pf |-> pf, ret |-> ret, trades |-> trades]
MCFoldRuns == {Run(150, 8, 60), Run(90, -5, 60), Run(NoPf, 0, 0), Failed, Capped}

(* The second sleeve starts after the first fold has ended.                *)
Sleeve(s, from) == [surface |-> s, from |-> from]
MCBooks ==
    {[sleeves |-> <<Sleeve(btc, <<2020, 1, 1>>), Sleeve(eth, <<2021, 5, 1>>)>>,
      end |-> <<2022, 1, 1>>, external |-> 0],
     [sleeves |-> <<Sleeve(btc, <<2021, 1, 1>>), Sleeve(btc, <<2021, 1, 1>>)>>,
      end |-> <<2022, 6, 1>>, external |-> 1]}
BookWalk(n) == [train |-> 12, test |-> 3, step |-> 3, n |-> n, override |-> FALSE]
MCBookWalks == {BookWalk(2)}
SleeveRun(wins, losses, n, ret) == [wins |-> wins, losses |-> losses, n |-> n, ret |-> ret]
MCSleeveRuns == {SleeveRun(300, 200, 60, 5), SleeveRun(100, 200, 60, -5), Failed}

Regime(tag, from, to) == [tag |-> tag, from |-> from, to |-> to]
MCCatalog ==
    <<Regime("BEAR", <<2022, 1, 1>>, <<2023, 1, 1>>), Regime("CHOP", <<2023, 1, 1>>, <<2023, 10, 1>>),
      Regime("TRANSITION", <<2023, 10, 1>>, <<2024, 1, 1>>),
      Regime("BULL", <<2024, 1, 1>>, <<2025, 1, 1>>), Regime("BULL", <<2025, 1, 1>>, <<2026, 1, 1>>),
      Regime("TRANSITION", <<2026, 1, 1>>, <<2026, 5, 1>>)>>
MCDataStarts == {<<2017, 8, 17>>, <<2023, 1, 1>>}
MCWindowRuns == {[trades |-> 40, net |-> TRUE], [trades |-> 40, net |-> FALSE],
                 [trades |-> 20, net |-> TRUE], Failed}

MCDrawRuns == {Failed, [pf |-> 150]}
MCScales == <<1000, 10000, 100000>>
MCScaleRuns == {Failed, Capped} \union
    {[pf |-> pf, edge |-> edge] : pf \in {NoPf, 90, 110, 140, 200}, edge \in {5}}
MCTickAnswers ==
    {EmptyQueue, Exhausted, Raised(TRUE, FALSE), Raised(FALSE, TRUE),
     Iterated(m1, "SIGNIFICANT_EDGE", "PASS"), Iterated(m2, "NO_EDGE", "DISCARD"),
     Iterated(m1, "SIGNIFICANT_EDGE", "ITERATE"), Iterated(m2, "INSUFFICIENT_EVIDENCE", "ITERATE")}
(* Two requests of the kinds that share rows, one of them a null screen at *)
(* most; the others one at a time.                                         *)
MCCost == [k \in Kinds |-> CASE k \in {"analyze", "bookwalk", "signal"} -> 2
                              [] k = "null" -> 3
                              [] OTHER -> 5]

(* A window that starts on the last day of a long month.                   *)
LateWalks == {[Walk(None, TRUE, 3, TRUE, FALSE) EXCEPT !.start = <<2018, 11, 30>>,
                                                        !.override = TRUE]}
WalkOnly == [k \in Kinds |-> IF k = "walk" THEN 1 ELSE 2]
=============================================================================
