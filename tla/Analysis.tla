------------------------------ MODULE Analysis ------------------------------
(* From the trades of a run to its verdicts, without state:                *)
(* services/analyze.py, services/portfolio.py and the judgement of         *)
(* services/capacity.py.                                                   *)
(*                                                                         *)
(* Money is an integer, a profit factor an integer number of hundredths,   *)
(* rounded down.  What numpy-like floating point or a random generator     *)
(* decides is an argument: the profit factors of the resamples, and how a  *)
(* deflated Sharpe ratio compares with its threshold.                      *)
EXTENDS WalkForward, TLC

CONSTANT MinOverlap      \* days two series share before they correlate (20)

Abs(x) == IF x < 0 THEN -x ELSE x
Infinite == 999900       \* the profit factor of a run that never lost

PfOf(wins, losses, n) ==
    CASE n < 2 \/ wins + losses = 0 -> NoPf
      [] OTHER -> IF losses = 0 THEN Infinite ELSE (100 * wins) \div losses

Wins(pnls) == Total(SelectSeq(pnls, LAMBDA p : p > 0))
Losses(pnls) == -Total(SelectSeq(pnls, LAMBDA p : p < 0))
ProfitFactor(pnls) == PfOf(Wins(pnls), Losses(pnls), Len(pnls))

(* 95 per cent confidence interval from the resamples' profit factors.     *)
NoInterval == [low |-> NoPf, high |-> NoPf]

BootstrapInterval(n, resampled) ==
    LET finite == SortSeq(SelectSeq(resampled, LAMBDA p : p # NoPf /\ p < Infinite), <)
        k == Len(finite)
    IN  IF n < 5 \/ k = 0 THEN NoInterval
        ELSE [low |-> finite[(25 * k) \div 1000 + 1],
              high |-> finite[Max({(975 * k) \div 1000 - 1, 0}) + 1]]

(* Whether a Sharpe ratio exists at all.                                   *)
Varies(s) == \E i, j \in DOMAIN s : s[i] # s[j]

(* Resampling, which has nothing to scale by when the mean is zero.        *)
BootstrapDsr(pnls, resampled) == IF Total(pnls) = 0 THEN "none" ELSE resampled

(* "none", "below" or "clears": the closed form decides unless the         *)
(* variance of the estimate degenerates; then resampling does.             *)
DeflatedSharpe(pnls, closed, resampled) ==
    IF Len(pnls) < 30 \/ ~Varies(pnls) THEN "none"
    ELSE IF closed # "degenerate" THEN closed
    ELSE BootstrapDsr(pnls, resampled)

StatisticalVerdict(n, ci, dsr) ==
    IF n < 100 \/ ci = NoInterval THEN "INSUFFICIENT_EVIDENCE"
    ELSE IF ci.low > 100 /\ dsr = "clears" THEN "SIGNIFICANT_EDGE"
    ELSE IF ci.high < 100 THEN "NO_EDGE"
    ELSE "INSUFFICIENT_EVIDENCE"

(* The sign of a geometric return made annual; -100 per cent is ruin.      *)
Annualized(ret, days) ==
    IF ret = None \/ days <= 0 THEN None
    ELSE IF ret < 0 THEN "negative" ELSE "nonnegative"

DecisionVerdict(stat, n, annual) ==
    IF n >= 100 /\ stat = "NO_EDGE" THEN "DISCARD"
    ELSE IF n >= 100 /\ stat = "SIGNIFICANT_EDGE" /\ annual = "nonnegative" THEN "PASS"
    ELSE "ITERATE"

(* Profit after slippage, in ten-thousandths; the size of a trade that     *)
(* did not record it is guessed from its profit.                           *)
Notional(t) == IF t.notional > 0 THEN t.notional ELSE 50 * Max({Abs(t.pnl), 10})
AfterSlippage(trades, bps) ==
    Total(Field(trades, LAMBDA t : 10000 * t.pnl - bps * Notional(t)))

(* Trades, profit and wins per key: the regimes, or the quarters, of entry. *)
Stratify(trades, keys) ==
    [k \in Range(keys) |->
        LET mine == {i \in DOMAIN trades : keys[i] = k}
        IN  [n |-> Cardinality(mine), pnl |-> MapThenSumSet(LAMBDA i : trades[i].pnl, mine),
             wins |-> Cardinality({i \in mine : trades[i].pnl > 0})]]
Regimes(trades) == Field(trades, LAMBDA t : t.regime)

DeployedTime(trades) ==
    Total(Field(trades, LAMBDA t : Max({t.exit - t.entry, 0})))

AnalyzeRun(trades, days, geometric, resampled, closed, boot) ==
    LET pnls == Field(trades, LAMBDA t : t.pnl)
        n == Len(pnls)
        ci == BootstrapInterval(n, resampled)
        stat == StatisticalVerdict(n, ci, DeflatedSharpe(pnls, closed, boot))
    IN  [n |-> n, pf |-> ProfitFactor(pnls), ci |-> ci, stat |-> stat,
         decision |-> DecisionVerdict(stat, n, Annualized(geometric, days)),
         slippage |-> [bps \in {5, 10, 20, 50} |-> AfterSlippage(trades, bps)],
         regimes |-> Stratify(trades, Regimes(trades)),
         deployed |-> DeployedTime(trades)]
-----------------------------------------------------------------------------
(* ml_gate_shadow_analysis: each check of the gate claims the first trade  *)
(* of its strategy and side that opened within the window after it and is  *)
(* not claimed.  A trade counts as claimed by its key and opening time.    *)
Claimable(trades, claimed, row, window) ==
    {i \in DOMAIN trades : /\ trades[i].key = row.key
                           /\ trades[i].entry - row.at \in 0..window
                           /\ <<trades[i].key, trades[i].entry>> \notin claimed}

Nearest(trades, fits) ==
    CHOOSE i \in fits : \A j \in fits : \/ trades[i].entry < trades[j].entry
                                        \/ trades[i].entry = trades[j].entry /\ i <= j

Check(trades, window, acc, row) ==
    LET fits == Claimable(trades, acc.claimed, row, window)
        found == Nearest(trades, fits)
    IN  CASE row.gate = "unknown" -> acc
          [] OTHER ->
        IF fits = {} THEN [acc EXCEPT !.unmatched = @ + (IF row.gate = "blocked" THEN 1 ELSE 0)]
        ELSE [acc EXCEPT ![row.gate] = Append(@, found),
                         !.claimed = @ \union {<<trades[found].key, trades[found].entry>>}]

ShadowGate(rows, trades, window) ==
    FoldLeft(LAMBDA acc, row : Check(trades, window, acc, row),
             [blocked |-> <<>>, allowed |-> <<>>, unmatched |-> 0, claimed |-> {}], rows)

(* At least five checks and a trade, or there is no analysis.              *)
GateAddsValue(rows, trades, window) ==
    LET blocked == ShadowGate(rows, trades, window).blocked
        pnls == [i \in DOMAIN blocked |-> trades[blocked[i]].pnl]
        losers == SelectSeq(pnls, LAMBDA p : p < 0)
    IN  Len(rows) >= 5 /\ 2 * Len(losers) > Len(pnls) /\ Total(pnls) < 0
-----------------------------------------------------------------------------
(* services/portfolio.py.  A series is a function from days to returns.    *)
(* Only ratios of returns matter to a correlation, so returns are profits. *)
DayOf(t) == IF t.exit # None THEN t.exit ELSE t.entry

DailyReturns(trades) ==
    LET closed(d) == {i \in DOMAIN trades : DayOf(trades[i]) = d}
    IN  [d \in {DayOf(trades[i]) : i \in DOMAIN trades} \ {None} |->
            SumFunction([i \in closed(d) |-> trades[i].pnl])]

(* Twice the rank of each value, ties sharing the mean of their places.    *)
Below(values, i) ==
    {j \in DOMAIN values : values[j] < values[i] \/ (values[j] = values[i] /\ j < i)}
Order(values) == Arranged([i \in DOMAIN values |-> Below(values, i)])
Places(values, i) == {k \in DOMAIN values : values[Order(values)[k]] = values[i]}

Ranks(values) == [i \in DOMAIN values |-> Min(Places(values, i)) + Max(Places(values, i))]

(* Pearson's coefficient is num / sqrt(a * b), or None.                    *)
Cov(u, v, n) == n * Total([i \in 1..n |-> u[i] * v[i]]) - Total(u) * Total(v)

Pearson(xs, ys) ==
    LET n == Len(xs)
    IN  IF n < 2 \/ Cov(xs, xs, n) = 0 \/ Cov(ys, ys, n) = 0 THEN None
        ELSE [num |-> Cov(xs, ys, n), a |-> Cov(xs, xs, n), b |-> Cov(ys, ys, n)]

Correlation(f, g, ranked) ==
    LET both == DOMAIN f \cap DOMAIN g
        days == Arranged([d \in both |-> {e \in both : e < d}])
        Over(h) == [i \in DOMAIN days |-> h[days[i]]]
    IN  IF Len(days) < MinOverlap THEN None
        ELSE IF ranked THEN Pearson(Ranks(Over(f)), Ranks(Over(g)))
        ELSE Pearson(Over(f), Over(g))

(* The lower bound low (hundredths), lowered by half the correlation c, is *)
(* at most one: low * (1 - c / 2) <= 100.                                  *)
DropsToOne(low, c) ==
    \/ low <= 100
    \/ c.num > 0 /\ low * low * c.num * c.num >= (2 * low - 200) * (2 * low - 200) * c.a * c.b

(* The gate uses the largest positive correlation with a baseline, so it   *)
(* demotes when one of them would; with none to compare, it does not apply.*)
PortfolioGate(low, candidate, baselines) ==
    LET found == {Correlation(candidate, baselines[b], TRUE) : b \in DOMAIN baselines} \ {None}
    IN  IF found = {} \/ low = NoPf THEN [applied |-> FALSE, demote |-> FALSE]
        ELSE [applied |-> TRUE, demote |-> \E c \in found : DropsToOne(low, c)]

(* A protected strategy without a long enough recent run is no baseline.   *)
Baselines(series) ==
    [s \in {s \in DOMAIN series : Cardinality(DOMAIN series[s]) >= MinOverlap} |-> series[s]]
-----------------------------------------------------------------------------
(* services/capacity.py: the same run at growing capital.                  *)
Scale(usd, pf, edge) == [status |-> "completed", usd |-> usd, pf |-> pf, edge |-> edge]

Valid(scales) ==
    SortSeq(SelectSeq(CompletedOnly(scales), LAMBDA s : s.pf # NoPf),
            LAMBDA s, t : s.usd < t.usd)

(* The largest capital with no failing scale below it.                     *)
MaxViable(scales) ==
    LET valid == Valid(scales)
        intact == {i \in DOMAIN valid : \A j \in 1..i : valid[j].pf >= 120}
    IN  IF Len(valid) < 2 \/ valid[1].pf < 100 \/ intact = {} THEN None
        ELSE valid[Max(intact)].usd

EdgeDecay(scales) ==
    LET valid == Valid(scales)
        base == valid[1].pf
        WithinDecay(percent) == \A i \in DOMAIN valid : 100 * (base - valid[i].pf) < percent * base
    IN  CASE Len(valid) < 2 -> "INSUFFICIENT_DATA"
          [] OTHER -> IF base < 100 THEN "INVERTED"
                      ELSE IF WithinDecay(20) THEN "LINEAR_SCALABLE"
                      ELSE IF WithinDecay(40) THEN "GRADUAL_DECAY" ELSE "SHARP_CLIFF"

JudgeVerdict(decay, viable, floor) ==
    IF viable = None \/ viable < floor THEN "REJECT"
    ELSE IF decay \in {"SHARP_CLIFF", "INVERTED"} \/ viable < 5 * floor THEN "CONCERN"
    ELSE "PROCEED"

EdgeAt(scales, usd) ==
    LET at == SelectSeq(CompletedOnly(scales), LAMBDA s : s.usd = usd)
    IN  IF at = <<>> THEN None ELSE at[1].edge

(* At the largest scale not above the floor, else at the smallest.         *)
EdgeAtFloor(scales, floor) ==
    LET usds == {s.usd : s \in {s \in Range(CompletedOnly(scales)) : s.edge # None}}
        below == {u \in usds : u <= floor}
    IN  CASE usds = {} -> None
          [] OTHER -> EdgeAt(scales, IF below # {} THEN Max(below) ELSE Min(usds))
=============================================================================
