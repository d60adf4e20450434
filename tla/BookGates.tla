----------------------------- MODULE BookGates -----------------------------
(* The gates a book of strategies passes, without state:                   *)
(* services/carry_book_gate.py, services/hedging_gate.py and               *)
(* services/combination_book.py.                                           *)
(*                                                                         *)
(* Equity and prices are integers at days <<y, m, d>>, returns and growth  *)
(* are in basis points, rounded down.  A Sharpe ratio, an annual growth    *)
(* rate and the resamples of a bootstrap are floating point: arguments.    *)
EXTENDS Analysis

CONSTANTS
    Covered,             \* symbols whose basis the JVM models
    MinYearDays,         \* days a year needs to be judged (90)
    MinPairs             \* days a hedge shares with its benchmark (30)

Growth(from, to) == (10000 * to) \div from - 10000

(* _returns and _strat_returns_by_date_from_equity: none from nothing.     *)
ReturnsOf(points) ==
    [i \in {i \in 2..Len(points) : points[i - 1].value # 0} |->
        [day |-> points[i].day, ret |-> Growth(points[i - 1].value, points[i].value)]]

(* The last return of a day is the one a day has.                          *)
ByDay(returns) ==
    [d \in {returns[i].day : i \in DOMAIN returns} |->
        returns[Max({i \in DOMAIN returns : returns[i].day = d})].ret]

(* _max_drawdown_pct: one pass with the highest value so far.              *)
Fall(acc, v) ==
    LET peak == Max({acc.peak, v})
        fall == IF peak > 0 THEN (10000 * (peak - v)) \div peak ELSE 0
    IN  [peak |-> peak, worst |-> Max({acc.worst, fall})]

MaxDrawdown(values) ==
    FoldLeft(Fall, [peak |-> IF values = <<>> THEN 0 ELSE values[1], worst |-> 0], values).worst

NoMetrics == [growth |-> None, sharpe |-> None, drawdown |-> None]

MetricsOf(points, growth, sharpe) ==
    LET values == Field(points, LAMBDA p : p.value)
        n == Len(points)
    IN  IF n < 2 THEN NoMetrics
        ELSE [growth |-> IF values[1] > 0 /\ values[n] > 0 THEN growth ELSE None,
              sharpe |-> IF Varies(Field(ReturnsOf(points), LAMBDA r : r.ret)) THEN sharpe ELSE None,
              drawdown |-> MaxDrawdown(values)]
-----------------------------------------------------------------------------
(* The carry book.  Every year with enough days must have paid.            *)
YearsJudged(daily) ==
    {y \in {d[1] : d \in DOMAIN daily} :
        Cardinality({d \in DOMAIN daily : d[1] = y}) >= MinYearDays}

PositiveEveryYear(daily) ==
    /\ YearsJudged(daily) # {}
    /\ \A y \in YearsJudged(daily) :
        MapThenSumSet(LAMBDA d : daily[d], {d \in DOMAIN daily : d[1] = y}) > 0

(* A leg's profit, trades, and whether the basis of its symbol is modelled.*)
PerLeg(trades) ==
    [s \in {trades[i].symbol : i \in DOMAIN trades} \ {None} |->
        LET mine == SelectSeq(trades, LAMBDA t : t.symbol = s)
        IN  [pnl |-> Total(Field(mine, LAMBDA t : t.pnl)), n |-> Len(mine),
             unmodelled |-> s \notin Covered]]

(* The first condition that fails, in the order they are reported.         *)
CarryVerdict(points, growth, sharpe, legs, leverage, perLeg, cap, strict) ==
    LET m == MetricsOf(points, growth, sharpe)
        daily == ByDay(ReturnsOf(points))
    IN  IF Len(points) < 2 THEN "insufficient_equity_points"
        ELSE IF m.sharpe = None \/ m.sharpe < 100 THEN "book_sharpe_below_min"
        ELSE IF m.drawdown > 1500 THEN "book_maxdd_too_deep"
        ELSE IF legs < 4 THEN "too_few_legs"
        ELSE IF m.growth = None \/ m.growth < 0 THEN "net_return_below_floor"
        ELSE IF leverage > cap THEN "leverage_over_cap"
        ELSE IF ~PositiveEveryYear(daily) THEN "not_positive_every_year"
        ELSE IF strict /\ \E s \in DOMAIN perLeg : perLeg[s].unmodelled THEN "basis_coverage_required"
        ELSE "passed"

EvaluateRun(run, growth, sharpe, cap, strict) ==
    IF run = None THEN "backtest_run_not_found"
    ELSE CarryVerdict(run.points, growth, sharpe, IF run.legs = None THEN 0 ELSE run.legs,
                      IF run.leverage \in {None, 0} THEN 1 ELSE run.leverage, PerLeg(run.trades), cap, strict)

(* A preview: the legs present on a day share it, and what is borrowed     *)
(* costs borrow a day.  Legs are aligned by position, not by date.         *)
PreviewReturns(legs, leverage, borrow) ==
    LET days == Max({0} \union {Len(legs[s]) : s \in DOMAIN legs})
        present(i) == {s \in DOMAIN legs : i <= Len(legs[s])}
    IN  [i \in 1..days |->
            (leverage * SumFunction([s \in present(i) |-> legs[s][i]])) \div Cardinality(present(i))
                - leverage * borrow]

PreviewEquity(returns) ==
    FoldLeft(LAMBDA s, r : Append(s, (s[Len(s)] * (10000 + r)) \div 10000), <<10000>>, returns)
-----------------------------------------------------------------------------
(* The hedge: give up at most 5 per cent of growth, and gain a quarter of  *)
(* a Sharpe ratio or 5 per cent of drawdown.                               *)
BeatsBuyHold(strat, bench) ==
    LET values == {strat.growth, bench.growth, strat.sharpe, bench.sharpe, strat.drawdown, bench.drawdown}
    IN  IF None \in values THEN "insufficient"
        ELSE IF strat.growth < bench.growth - 500 THEN "growth floor breached"
        ELSE IF strat.sharpe - bench.sharpe >= 25 \/ bench.drawdown - strat.drawdown >= 500
             THEN "passed" ELSE "no improvement"

(* The interval of sorted resamples; its lower end decides.                *)
LowerEnd(resampled) == SortSeq(resampled, <)[(25 * Len(resampled)) \div 1000 + 1]

Significant(n, resampled) == n >= MinPairs /\ resampled # <<>> /\ LowerEnd(resampled) > 0

(* Returns of both series on the days both have, in the order of days.     *)
Dated(days) == Arranged([d \in days |-> {e \in days : Before(e, d)}])

Aligned(strat, bench) ==
    LET days == Dated(DOMAIN strat \cap DOMAIN bench)
    IN  [i \in DOMAIN days |-> [day |-> days[i], strat |-> strat[days[i]], bench |-> bench[days[i]]]]

(* The book in units of the coin, relative to its first day.               *)
StackSeries(equity, close) ==
    LET days == Dated({d \in DOMAIN equity \cap DOMAIN close : close[d] > 0})
        base == [at |-> equity[days[1]], price |-> close[days[1]]]
    IN  CASE Len(days) < 2 -> <<>>
          [] OTHER -> IF base.at <= 0 THEN <<>>
                      ELSE [i \in DOMAIN days |-> [day |-> days[i], value |->
                            (10000 * equity[days[i]] * base.price) \div (close[days[i]] * base.at)]]

StackMetrics(stack, growth) ==
    IF Len(stack) < 2 THEN [final |-> None, growth |-> None, drawdown |-> None]
    ELSE [final |-> stack[Len(stack)].value,
          growth |-> IF stack[Len(stack)].value > 0 THEN growth ELSE None,
          drawdown |-> MaxDrawdown(Field(stack, LAMBDA p : p.value))]

(* A run without two equity points is rebuilt from its trades: one return  *)
(* for each day asked about, zero where no trade closed, compounded from   *)
(* the day before.  Profits are in ten-thousandths of the capital.         *)
HedgeSource(points) == IF Len(points) >= 2 THEN "equity_points" ELSE "trades"

OpenWindow(start, end) ==        \* mutant: the last day is left out
    {d \in (start[1]..end[1]) \X (1..12) \X (1..31) :
        d \in Date /\ ~Before(d, start) /\ Before(d, end)}

DaysWithin(start, end) ==
    {d \in (start[1]..end[1]) \X (1..12) \X (1..31) :
        d \in Date /\ ~Before(d, start) /\ ~Before(end, d)}

CalendarFill(daily, start, end) ==
    [d \in DaysWithin(start, end) |-> IF d \in DOMAIN daily THEN daily[d] ELSE 0]

RebuiltMetrics(daily, growth, sharpe) ==
    LET days == Dated(DOMAIN daily)
        returns == [i \in DOMAIN days |-> daily[days[i]]]
        equity == PreviewEquity(returns)
    IN  IF Len(days) < 2 THEN NoMetrics
        ELSE [growth |-> IF equity[Len(equity)] > 0 THEN growth ELSE None,
              sharpe |-> IF Varies(returns) THEN sharpe ELSE None,
              drawdown |-> MaxDrawdown(equity)]

(* Returns by day, and metrics, of a run from whichever source it has.     *)
HedgeReturns(run) ==
    IF HedgeSource(run.points) = "equity_points" THEN ByDay(ReturnsOf(run.points))
    ELSE CalendarFill(DailyReturns(run.trades), run.start, run.end)

HedgeMetrics(run, growth, sharpe) ==
    IF HedgeSource(run.points) = "equity_points" THEN MetricsOf(run.points, growth, sharpe)
    ELSE RebuiltMetrics(HedgeReturns(run), growth, sharpe)

HedgePasses(strat, bench, both, resampled) ==
    BeatsBuyHold(strat, bench) = "passed" /\ Significant(Len(both), resampled)
-----------------------------------------------------------------------------
(* The combination book.  Critical values are in thousandths.              *)
CriticalValues ==
    <<<<1, 12706>>, <<2, 4303>>, <<3, 3182>>, <<4, 2776>>, <<5, 2571>>, <<6, 2447>>, <<7, 2365>>,
      <<8, 2306>>, <<9, 2262>>, <<10, 2228>>, <<12, 2179>>, <<15, 2131>>, <<18, 2101>>, <<20, 2086>>,
      <<25, 2060>>, <<30, 2042>>, <<40, 2021>>, <<60, 2000>>>>

CriticalAt(df) ==
    LET below == {i \in DOMAIN CriticalValues : CriticalValues[i][1] <= df}
    IN  CriticalValues[Max({1} \union below)][2]

(* The sign of the rank correlation and whether it is significant: when it *)
(* is perfect, or its t statistic, in thousandths, reaches the bar.        *)
Coefficient(xs, ys, minimum, t) ==
    LET c == Pearson(Ranks(xs), Ranks(ys))
    IN  IF Len(xs) < minimum \/ c = None THEN [sign |-> "0", significant |-> FALSE]
        ELSE [sign |-> IF c.num > 0 THEN "+" ELSE IF c.num < 0 THEN "-" ELSE "0",
              significant |-> c.num * c.num = c.a * c.b \/ t >= Max({2000, CriticalAt(Len(xs) - 2)})]

(* Alpha, coefficient, marginal Sharpe ratio and correlation, hundredths.  *)
AdmissionReasons(ic, alpha, expected, marginal, correlation) ==
    [alpha |-> alpha # None /\ alpha >= 200,
     signed |-> ic.significant /\ ic.sign = expected,
     adds |-> marginal > 2,
     uncorrelated |-> correlation = None \/ correlation < 80]

Admitted(reasons) == \A r \in DOMAIN reasons : reasons[r]
=============================================================================
