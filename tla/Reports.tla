------------------------------ MODULE Reports ------------------------------
(* What is read off rows already written, without state: the provisional   *)
(* roster, verdict drift, paired deltas, regime breakdown and the skeptic  *)
(* prescreen (services/provisional_roster.py, verdict_drift.py,            *)
(* paired_delta.py, regime_analysis.py, specialists/prescreen.py).         *)
EXTENDS Analysis

(* The roster.  The overfitting discount makes a score of the return; it   *)
(* is a geometric mean, so the score is an input, in whole numbers.        *)
Provisional(c) ==
    /\ c.track \in {None, "trading"} /\ c.stat = "SIGNIFICANT_EDGE"
    /\ c.annual # None /\ c.annual > 0
    /\ c.walk \notin {"OVERFIT", "NO_EDGE"}

(* Higher score first, then the deflated Sharpe ratio, then the code.      *)
RanksAbove(c, d) ==
    LET dsr(x) == IF x.dsr = None THEN -1 ELSE x.dsr
    IN  \/ c.score > d.score
        \/ c.score = d.score /\ dsr(c) > dsr(d)
        \/ c.score = d.score /\ dsr(c) = dsr(d) /\ c.code > d.code

RankedCandidates(candidates) ==
    LET able == {i \in DOMAIN candidates : Provisional(candidates[i])}
        first(i, j) == \/ RanksAbove(candidates[i], candidates[j])
                       \/ i < j /\ ~RanksAbove(candidates[j], candidates[i])
        order == Arranged([i \in able |-> {j \in able : first(j, i)}])
    IN  [k \in DOMAIN order |-> candidates[order[k]]]

RosterGap(active, floor) == Max({0, floor - active})

(* Mutant: a code that has several candidates is picked for each.          *)
PickAgain(picks, c, gap, excluded) ==
    IF Len(picks) >= gap \/ c.code \in excluded THEN picks ELSE Append(picks, c)

Pick(picks, c, gap, excluded) ==
    IF Len(picks) >= gap \/ c.code \in excluded \/ \E i \in DOMAIN picks : picks[i].code = c.code
    THEN picks ELSE Append(picks, c)

RosterFill(active, candidates, floor, excluded) ==
    FoldLeft(LAMBDA picks, c : Pick(picks, c, RosterGap(active, floor), excluded),
             <<>>, RankedCandidates(candidates))
-----------------------------------------------------------------------------
(* Drift: the latest cross-window verdict of a promoted strategy ranks     *)
(* below the one before it.  verdicts are newest first; a row that is      *)
(* incomplete or cannot be read is skipped.                                *)
VerdictRank(v) ==
    CASE v = "INSUFFICIENT_DATA_IN_WINDOW" -> 1
      [] v = "INCONSISTENT_CROSS_WINDOW" -> 2
      [] v = "ROBUST_CROSS_WINDOW" -> 3
      [] OTHER -> 0

DriftOf(verdicts) ==
    IF verdicts = None \/ Len(verdicts) < 2 THEN 0
    ELSE Max({0, VerdictRank(verdicts[2]) - VerdictRank(verdicts[1])})

Drifts(promoted) == [s \in {s \in DOMAIN promoted : DriftOf(promoted[s]) > 0} |-> DriftOf(promoted[s])]
-----------------------------------------------------------------------------
(* Paired deltas: two iterations with equal parameters apart from the ML   *)
(* ones, exactly one of them treated and exactly one not.                  *)
Bucket(rows, params, arm) == {i \in DOMAIN rows : rows[i].params = params /\ rows[i].arm = arm}

Pairs(rows) ==
    {p \in {rows[i].params : i \in DOMAIN rows} :
        Cardinality(Bucket(rows, p, "on")) = 1 /\ Cardinality(Bucket(rows, p, "off")) = 1}

(* The metric of an arm that is missing drops the pair.                    *)
Deltas(rows) ==
    LET metric(p, arm) == rows[CHOOSE i \in Bucket(rows, p, arm) : TRUE].metric
    IN  [p \in {p \in Pairs(rows) : metric(p, "on") # None /\ metric(p, "off") # None} |->
            metric(p, "on") - metric(p, "off")]

(* ci and mean are those of the resampled deltas, in hundredths.           *)
DeltaVerdict(n, minimum, metric, ci, mean) ==
    IF n < minimum THEN "INDETERMINATE"
    ELSE IF metric = "trade_count" THEN "NEUTRAL"
    ELSE IF ci.low > 0 THEN "POSITIVE_DELTA"
    ELSE IF ci.high < 0 THEN "NEGATIVE_DELTA"
    ELSE IF Abs(mean) < 5 THEN "NEUTRAL" ELSE "INDETERMINATE"
-----------------------------------------------------------------------------
(* Regimes.  A trade carries its own, or takes that of the bar nearest to  *)
(* its entry, less than two hours away.                                    *)
OwnRegimes(trades) ==
    LET known == SelectSeq(trades, LAMBDA t : t.regime # None)
    IN  IF 2 * Len(known) < Len(trades) THEN None ELSE known

(* Trend: the close against the mean of the sma closes before it.          *)
(* Volatility: how many of the mean ranges of the last bars, this one      *)
(* among them, are not above this one's.                                   *)
RangesBefore(bars, i, n) == Total(Field(SubSeq(bars, i - n, i - 1), LAMBDA b : b.range))

BarRegime(bars, i, win) ==
    LET before == SubSeq(bars, i - win.sma, i - 1)
        among == Max({win.atr + 1, i - win.rank})..i
        atr(k) == RangesBefore(bars, k, win.atr)
        low == {k \in among : atr(k) <= atr(i)}
    IN  <<IF win.sma * bars[i].close > Total(Field(before, LAMBDA b : b.close)) THEN "BULL" ELSE "BEAR",
          IF 2 * Cardinality(low) >= Cardinality(among) THEN "HIGH_VOL" ELSE "LOW_VOL">>

(* Bars are sorted by time, so the earlier of two as near is found first.  *)
RegimeAt(bars, entry, win) ==
    LET judged == (win.sma + 1)..Len(bars)
        far(i) == Abs(bars[i].at - entry)
        near == {i \in judged : far(i) < win.near}
    IN  IF near = {} THEN <<"UNKNOWN">>
        ELSE BarRegime(bars, CHOOSE i \in near : \A k \in near :
                                far(i) < far(k) \/ (far(i) = far(k) /\ i <= k), win)

(* Without regimes of their own the trades take them from the bars, which  *)
(* must be enough for the mean and some more.                              *)
Classified(trades, bars, win) ==
    IF OwnRegimes(trades) # None THEN OwnRegimes(trades)
    ELSE IF Len(bars) < win.bars THEN None
    ELSE Field(trades, LAMBDA t : [t EXCEPT !.regime = RegimeAt(bars, t.entry, win)])

Breakdown(trades) ==
    LET groups == Stratify(trades, Regimes(trades))
        Mine(r) == Field(SelectSeq(trades, LAMBDA t : t.regime = r), LAMBDA t : t.pnl)
        pf(r) == IF Losses(Mine(r)) > 0
                 THEN Min({9900, (100 * Wins(Mine(r))) \div Losses(Mine(r))})
                 ELSE IF Wins(Mine(r)) > 0 THEN 9900 ELSE 0
    IN  [r \in DOMAIN groups |-> [n |-> groups[r].n, wins |-> groups[r].wins, pf |-> pf(r)]]

(* The best regime with ten trades or more.                                *)
BestPf(breakdown, minimum) ==
    LET pfs == {breakdown[r].pf : r \in {r \in DOMAIN breakdown : breakdown[r].n >= minimum}}
    IN  IF pfs = {} THEN None ELSE Max(pfs)

(* What analyze answers; there may be nothing to classify by.              *)
RegimeReport(trades, bars, win, minimum) ==
    LET classified == Classified(trades, bars, win)
        breakdown == Breakdown(classified)
    IN  IF trades = <<>> \/ classified = None THEN [best |-> None, promising |-> FALSE, of |-> <<>>]
        ELSE [best |-> BestPf(breakdown, minimum), of |-> breakdown,
              promising |-> BestPf(breakdown, minimum) # None /\ BestPf(breakdown, minimum) >= 115]
-----------------------------------------------------------------------------
(* The prescreen: five flags, any of which calls the skeptic.              *)
ArchetypeChurn(queued) == Cardinality({queued[i] : i \in DOMAIN queued}) > 4

RepeatAxis(axes) ==
    LET n == Cardinality({axes[i] : i \in DOMAIN axes}) IN n > 0 /\ Len(axes) > (3 * n) \div 2

(* Within a tenth of a discarded neighbour in every numeric parameter and  *)
(* equal in the others; the twenty latest are looked at, newest first.     *)
Near(p, q) ==
    /\ DOMAIN p = DOMAIN q
    /\ \A k \in DOMAIN p :
        IF p[k] \in Int /\ q[k] \in Int THEN 10 * Abs(p[k] - q[k]) <= Max({Abs(p[k]), Abs(q[k])})
        ELSE p[k] = q[k]

NarrowWindow(candidate, discarded, latest) ==
    /\ candidate # None /\ DOMAIN candidate # {}
    /\ \E i \in 1..Min({latest, Len(discarded)}) : discarded[i] # None /\ Near(candidate, discarded[i])

(* A hypothesis that is named must exist, be one, and be unedited.         *)
PostHocEdit(named, entry) ==
    named /\ (entry = None \/ entry.type # "HYPOTHESIS" \/ entry.updated - entry.created > 1)

Undercount(declared, recorded) ==
    declared # None /\ declared > 0 /\ 10 * recorded > 12 * declared

CallSkeptic(queued, axes, candidate, discarded, latest, named, entry, declared, recorded) ==
    \/ ArchetypeChurn(queued) \/ RepeatAxis(axes)
    \/ NarrowWindow(candidate, discarded, latest)
    \/ PostHocEdit(named, entry) \/ Undercount(declared, recorded)
=============================================================================
