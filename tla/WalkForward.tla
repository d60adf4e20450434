---------------------------- MODULE WalkForward ----------------------------
(* The windows and verdicts of a walk-forward, as operators without state: *)
(* services/walk_forward.py, and the folds of a pooled book from           *)
(* services/pooled_certification.py.  Module Gauntlet runs the backtests.  *)
(*                                                                         *)
(* Dates are <<year, month, day>> of 1901..2099.  A profit factor or a     *)
(* return in per cent is an integer number of hundredths.  The deflated    *)
(* Sharpe ratio of a return series is floating point and scipy: whether it *)
(* clears the bar is an input.                                             *)
EXTENDS Integers, Sequences, FiniteSets, FiniteSetsExt, SequencesExt

CONSTANT None            \* no value

LastDay(y, m) == IF m = 2 THEN (IF y % 4 = 0 THEN 29 ELSE 28)
                 ELSE IF m \in {4, 6, 9, 11} THEN 30 ELSE 31

Date == {d \in Nat \X (1..12) \X (1..31) : d[3] <= LastDay(d[1], d[2])}

(* Days since some day of the past; as date differences, only differences  *)
(* of it have a meaning.                                                   *)
DayNumber(d) ==
    d[3] + <<0, 31, 59, 90, 120, 151, 181, 212, 243, 273, 304, 334>>[d[2]]
         + 365 * d[1] + (d[1] - 1) \div 4 + (IF d[2] > 2 /\ d[1] % 4 = 0 THEN 1 ELSE 0)

Before(d, e) == DayNumber(d) < DayNumber(e)

(* The day of the month is clamped to the length of the month reached.     *)
AddMonths(d, months) ==
    LET total == d[1] * 12 + (d[2] - 1) + months
        year == total \div 12
        month == (total % 12) + 1
    IN  <<year, month, Min({d[3], LastDay(year, month)})>>

(* Test windows [from, to), one step apart, up to the first that overruns. *)
TestWindow(start, train, test, step, i) ==
    LET from == AddMonths(AddMonths(start, i * step), train)
    IN  [from |-> from, to |-> AddMonths(from, test)]

BuildFolds(start, end, train, test, step, n) ==
    LET Fits(i) == ~Before(end, TestWindow(start, train, test, step, i).to)
        k == CHOOSE k \in 0..n : /\ \A i \in 0..(k - 1) : Fits(i)
                                 /\ k = n \/ ~Fits(k)
    IN  [i \in 1..k |-> TestWindow(start, train, test, step, i - 1)]

KnownBears == { [from |-> <<2018, 1, 17>>, to |-> <<2018, 12, 15>>],
                [from |-> <<2020, 2, 19>>, to |-> <<2020, 3, 23>>],
                [from |-> <<2021, 11, 10>>, to |-> <<2022, 12, 31>>] }

OverlapDays(w, v) ==
    Max({0, Min({DayNumber(w.to), DayNumber(v.to)}) - Max({DayNumber(w.from), DayNumber(v.from)})})

WindowCoversBear(w) == \E b \in KnownBears : OverlapDays(w, b) >= 45

(* The two refusals that come before any backtest.                         *)
Accepts(start, end, train, test, step, n, overrideBear) ==
    /\ step >= test
    /\ overrideBear \/ WindowCoversBear([from |-> start, to |-> end])
    /\ BuildFolds(start, end, train, test, step, n) # <<>>
-----------------------------------------------------------------------------
NoPf == -1       \* a run without trades has no profit factor

(* What a backtest leaves in fold_results.                                 *)
Failed == [status |-> "failed"]
Capped == [status |-> "capped"]      \* still running when the poll gave up
Completed(pf, ret, trades, days) ==
    [status |-> "completed", pf |-> pf, ret |-> ret, trades |-> trades, days |-> days]

CompletedOnly(results) == SelectSeq(results, LAMBDA f : f.status = "completed")
Total(s) == SumFunction(s)
Squares(s) == [i \in DOMAIN s |-> s[i] * s[i]]
Field(results, Get(_)) == [i \in DOMAIN results |-> Get(results[i])]

(* Sorting: before[d] is what comes before d, so the k-th is the one that  *)
(* k - 1 others come before.                                               *)
Arranged(before) ==
    [k \in 1..Cardinality(DOMAIN before) |->
        CHOOSE d \in DOMAIN before : Cardinality(before[d]) = k - 1]

ProfitFactors(results) ==
    SelectSeq(Field(CompletedOnly(results), LAMBDA f : f.pf), LAMBDA p : p # NoPf)
Returns(results) == Field(CompletedOnly(results), LAMBDA f : f.ret)

OfStatus(status, results) == {k \in DOMAIN results : results[k].status = status}
TotalTrades(results) == SumFunction([k \in OfStatus("completed", results) |-> results[k].trades])
TestDays(results) == SumFunction([k \in OfStatus("completed", results) |-> results[k].days])

(* share is at least percent of the values.                                *)
AtLeast(percent, share, s) == 100 * share >= percent * Max({Len(s), 1})
Above(x, s) == Cardinality({i \in DOMAIN s : s[i] > x})

(* The population variance of s exceeds the square of x.                   *)
Spreads(x, s) == Len(s) > 1 /\ Len(s) * Total(Squares(s)) - Total(s) * Total(s) > x * x * Len(s) * Len(s)

StabilityVerdict(results) ==
    LET pfs == ProfitFactors(results)
    IN  CASE TotalTrades(results) < 100 -> "INSUFFICIENT_EVIDENCE"
          [] OTHER ->
        CASE pfs = <<>> \/ Total(pfs) < 100 * Len(pfs) -> "NO_EDGE"
          [] OTHER ->
        CASE ~AtLeast(60, Above(100, pfs), pfs) ->
                IF Total(pfs) > 100 * Len(pfs) THEN "OVERFIT" ELSE "NO_EDGE"
          [] OTHER -> IF Spreads(150, pfs) THEN "INCONSISTENT" ELSE "ROBUST"

(* A daily bar, or few trades for the days they were made in; a batch      *)
(* without a completed fold has no rate.                                   *)
IsLowFrequency(daily, trades, days) ==
    daily \/ (days > 0 /\ trades * 365 < 52 * days)

(* enough: 30 daily observations; significant: the deflated Sharpe ratio.  *)
LowFreqVerdict(results, enough, significant) ==
    LET rets == Returns(results)
        mean == Total(rets)
    IN  IF TotalTrades(results) < 8 \/ ~enough THEN "INSUFFICIENT_EVIDENCE"
        ELSE IF mean <= 0 THEN "NO_EDGE"
        ELSE IF ~AtLeast(60, Above(0, rets), rets) THEN "OVERFIT"
        ELSE IF ~significant THEN "INSUFFICIENT_EVIDENCE"
        ELSE IF 4 * (Len(rets) * Total(Squares(rets)) - mean * mean) > 25 * mean * mean
             THEN "INCONSISTENT"
        ELSE "ROBUST"

WalkForwardVerdict(results, daily, enough, significant) ==
    IF IsLowFrequency(daily, TotalTrades(results), TestDays(results))
    THEN LowFreqVerdict(results, enough, significant)
    ELSE StabilityVerdict(results)
=============================================================================
