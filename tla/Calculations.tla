---------------------------- MODULE Calculations ----------------------------
(* The calculations of modules Screens, Weights, BookGates and Reports     *)
(* that no other module reaches, one action per question a handler asks of *)
(* them.  A question and its answer stand until they are forgotten: what   *)
(* is checked is that the one pass over sorted rows, the rounds of pinning *)
(* and the early exits of the code come to what they are meant to compute, *)
(* which is stated below without them.                                     *)
EXTENDS Screens, Weights, BookGates, Reports

CONSTANTS
    Inputs,              \* kind of question -> the arguments to ask it with
    Lengths,             \* lengths of the regime classifier, in bars
    MinTrades,           \* trades a regime needs (10)
    MinIcObs,            \* observations a coefficient needs (20)
    Latest               \* discards the prescreen looks back on (20)

(* What the questions are asked with.  Rows are read in the order the      *)
(* algorithms rely on: bars and points by time, checks of the gate and     *)
(* trades as they come.  Buckets need two observations each.               *)
List(s) == s \in Seq(Range(s))

AlignGiven(x) ==
    /\ x.bars \in Seq(Int) /\ \A t, u \in DOMAIN x.bars : t <= u => x.bars[t] <= x.bars[u]
    /\ List(x.points) /\ \A i \in DOMAIN x.points : x.points[i].ts \in Int
    /\ \A i, j \in DOMAIN x.points : i <= j => x.points[i].ts <= x.points[j].ts
    /\ x.horizon \in Nat

QuantilesGiven(n) == n \in Nat /\ n >= 2 * Quantiles(n)

ContentionGiven(x) == List(x) /\ \A t \in Range(x) : t.entry \in Int /\ t.exit \in Int

GateGiven(x) ==
    /\ List(x.rows) /\ List(x.trades) /\ x.window \in Nat
    /\ \A i \in DOMAIN x.rows : x.rows[i].gate \in {"blocked", "allowed", "unknown"} /\ x.rows[i].at \in Int
    /\ \A i \in DOMAIN x.trades : x.trades[i].entry \in Int

SeriesGiven(x) ==
    /\ List(x.f) /\ List(x.g) /\ x.low \in Int
    /\ \A t \in Range(x.f) \union Range(x.g) :
        t.pnl \in Int /\ {t.entry, t.exit} \subseteq Int \union {None}

(* What an optimizer makes of the returns is long only, an HRP of any      *)
(* series is not nothing, and a cap is a share of the book; amounts are    *)
(* whole numbers, and None is what could not be read.                      *)
PlanGiven(x) ==
    /\ IsFiniteSet(DOMAIN x.days) /\ \A c \in EligibleCodes(x.days) : x.computed[c] \in Nat
    /\ x.caller \in Int /\ (x.jvm = None \/ x.jvm \in Int)
    /\ \A r \in x.rows : r.allocation \in Int /\ (x.kelly[r.id] = None \/ x.kelly[r.id] \in Int)

PoolGiven(x) ==
    /\ IsFiniteSet(DOMAIN x.raw) /\ \A k \in DOMAIN x.raw : x.raw[k] \in Nat
    /\ SumFunction(x.raw) > 0 /\ x.cap \in 1..100

(* Equity may be anything, and so may the returns of a leg; days are dates. *)
PointsGiven(points) == List(points) /\ \A p \in Range(points) : p.day \in Date /\ p.value \in Int

CarryGiven(x) == x.run = None \/ PointsGiven(x.run.points)

PreviewGiven(x) ==
    /\ IsFiniteSet(DOMAIN x.legs) /\ \A s \in DOMAIN x.legs : x.legs[s] \in Seq(Int)
    /\ x.leverage \in Nat /\ x.borrow \in Nat

HedgeGiven(x) ==
    /\ PointsGiven(x.run.points) /\ PointsGiven(x.bench) /\ x.growth \in Int
    /\ {x.run.start, x.run.end} \subseteq Date
    /\ List(x.run.trades) /\ \A t \in Range(x.run.trades) :
        t.pnl \in Int /\ {t.entry, t.exit} \subseteq Date \union {None}

AdmitGiven(x) ==
    /\ x.xs \in Seq(Int) /\ x.ys \in Seq(Int) /\ Len(x.xs) = Len(x.ys)
    /\ x.expected \in {"+", "-"} /\ x.marginal \in Int
    /\ \A v \in {x.alpha, x.correlation} : v = None \/ v \in Int

RosterGiven(x) ==
    /\ List(x.candidates) /\ x.active \in Int /\ x.floor \in Int
    /\ \A c \in Range(x.candidates) :
        c.code \in Int /\ c.score \in Int /\ (c.dsr = None \/ c.dsr \in Int)

DriftGiven(x) == \A s \in DOMAIN x : x[s] = None \/ (List(x[s]) /\ None \notin Seq(Range(x[s])))

ArmsGiven(x) == List(x.rows)

RegimesGiven(x) ==
    /\ List(x.bars) /\ \A i \in DOMAIN x.bars : x.bars[i].at \in Int
    /\ \A i, j \in DOMAIN x.bars : i <= j => x.bars[i].at <= x.bars[j].at
    /\ List(x.trades) /\ \A i \in DOMAIN x.trades : x.trades[i].entry \in Int

ASSUME InputsAssumption ==
    /\ MinNotional \in Nat /\ MinOverlap \in Nat
    /\ {Lengths.sma, Lengths.atr, Lengths.rank, Lengths.near, Lengths.bars} \subseteq Nat
    /\ Lengths.sma < Lengths.bars
    /\ None \notin Int /\ None \notin [num : Int, a : Int, b : Int]
    /\ \A x \in Inputs.align : AlignGiven(x)
    /\ \A n \in Inputs.quantiles : QuantilesGiven(n)
    /\ \A x \in Inputs.contention : ContentionGiven(x)
    /\ \A x \in Inputs.gate : GateGiven(x)
    /\ \A x \in Inputs.series : SeriesGiven(x)
    /\ \A x \in Inputs.plan : PlanGiven(x)
    /\ \A x \in Inputs.pool : PoolGiven(x)
    /\ \A x \in Inputs.carry : CarryGiven(x)
    /\ \A x \in Inputs.preview : PreviewGiven(x)
    /\ \A x \in Inputs.hedge : HedgeGiven(x)
    /\ \A x \in Inputs.admit : AdmitGiven(x)
    /\ \A x \in Inputs.roster : RosterGiven(x)
    /\ \A x \in Inputs.drift : DriftGiven(x)
    /\ \A x \in Inputs.arms : ArmsGiven(x)
    /\ \A x \in Inputs.regimes : RegimesGiven(x)

VARIABLES given, answer
vars == <<given, answer>>

Nothing == [kind |-> "none"]
Init == given = Nothing /\ answer = None

Reply(kind, x, a) == given' = [kind |-> kind, of |-> x] /\ answer' = a
-----------------------------------------------------------------------------
AlignSignal ==
    given = Nothing /\ \E x \in Inputs.align :
        Reply("align", x, [signal |-> AlignPointInTime(x.bars, x.points),
                           pairs |-> PairedBars(x.bars, x.points, x.horizon)])

SplitQuantiles ==
    given = Nothing /\ \E n \in Inputs.quantiles :
        Reply("quantiles", n, [k \in 1..n |-> BucketOf(n, Quantiles(n), k)])

MeasureContention ==
    given = Nothing /\ \E x \in Inputs.contention :
        Reply("contention", x, Contention(x, {x[i].inst : i \in DOMAIN x}))

AttributeGate ==
    given = Nothing /\ \E x \in Inputs.gate :
        Reply("gate", x, [adds |-> GateAddsValue(x.rows, x.trades, x.window),
                          of |-> ShadowGate(x.rows, x.trades, x.window)])

CompareSeries ==
    given = Nothing /\ \E x \in Inputs.series :
        LET f == DailyReturns(x.f)
            g == DailyReturns(x.g)
        IN  Reply("series", x, [corr |-> Correlation(f, g, TRUE),
                                gate |-> PortfolioGate(x.low, f, Baselines([g |-> g]))])

PlanRebalance ==
    given = Nothing /\ \E x \in Inputs.plan :
        Reply("plan", x, PlanOf(x.rows, x.optimizer, x.computed, x.days, x.caller, x.jvm, x.kelly, x.rehearsal))

WeighPool ==
    given = Nothing /\ \E x \in Inputs.pool :
        Reply("pool", x, PoolWeights(x.raw, x.symbolOf, x.cap))

EvaluateCarry ==
    given = Nothing /\ \E x \in Inputs.carry :
        Reply("carry", x, EvaluateRun(x.run, x.growth, x.sharpe, 3, x.strict))

PreviewCarry ==
    given = Nothing /\ \E x \in Inputs.preview :
        Reply("preview", x, PreviewEquity(PreviewReturns(x.legs, x.leverage, x.borrow)))

ValueOn(points) ==
    [d \in {points[i].day : i \in DOMAIN points} |->
        points[CHOOSE i \in DOMAIN points : points[i].day = d].value]

EvaluateHedge ==
    given = Nothing /\ \E x \in Inputs.hedge :
        LET strat == HedgeMetrics(x.run, x.growth, x.sharpe)
            bench == MetricsOf(x.bench, 2000, 50)
            both == Aligned(HedgeReturns(x.run), ByDay(ReturnsOf(x.bench)))
        IN  Reply("hedge", x,
                [source |-> HedgeSource(x.run.points), both |-> both,
                 stack |-> IF HedgeSource(x.run.points) = "trades" THEN None
                           ELSE StackMetrics(StackSeries(ValueOn(x.run.points), ValueOn(x.bench)), x.growth),
                 passed |-> HedgePasses(strat, bench, both, x.resampled)])

AdmitAlpha ==
    given = Nothing /\ \E x \in Inputs.admit :
        LET ic == Coefficient(x.xs, x.ys, MinIcObs, x.t)
            reasons == AdmissionReasons(ic, x.alpha, x.expected, x.marginal, x.correlation)
        IN  Reply("admit", x, [ic |-> ic, reasons |-> reasons, admitted |-> Admitted(reasons)])

FillRoster ==
    given = Nothing /\ \E x \in Inputs.roster :
        Reply("roster", x, RosterFill(x.active, x.candidates, x.floor, x.excluded))

WatchVerdicts ==
    given = Nothing /\ \E x \in Inputs.drift :
        Reply("drift", x, Drifts(x))

CompareArms ==
    given = Nothing /\ \E x \in Inputs.arms :
        LET deltas == Deltas(x.rows)
        IN  Reply("arms", x, [deltas |-> deltas,
                              verdict |-> DeltaVerdict(Cardinality(DOMAIN deltas), x.minimum,
                                                       x.metric, x.ci, x.mean)])

AnalyzeRegimes ==
    given = Nothing /\ \E x \in Inputs.regimes :
        Reply("regimes", x, RegimeReport(x.trades, x.bars, Lengths, MinTrades))

Prescreen ==
    given = Nothing /\ \E x \in Inputs.prescreen :
        Reply("prescreen", x, CallSkeptic(x.queued, x.axes, x.candidate, x.discarded, Latest,
                                          x.named, x.entry, x.declared, x.recorded))

Forget == given # Nothing /\ given' = Nothing /\ answer' = None

Next ==
    \/ AlignSignal \/ SplitQuantiles \/ MeasureContention \/ AttributeGate \/ CompareSeries
    \/ PlanRebalance \/ WeighPool
    \/ EvaluateCarry \/ PreviewCarry \/ EvaluateHedge \/ AdmitAlpha
    \/ FillRoster \/ WatchVerdicts \/ CompareArms \/ AnalyzeRegimes \/ Prescreen
    \/ Forget

Spec == Init /\ [][Next]_vars
-----------------------------------------------------------------------------
Asked(kind) == given.kind = kind

(* A bar sees the latest point that is not after it, whatever the cursor   *)
(* did before, and is paired only if it sees one.                          *)
SignalIsCausal(x, a) ==
    \A t \in DOMAIN x.bars :
        LET past == {i \in DOMAIN x.points : x.points[i].ts <= x.bars[t]}
        IN  /\ a.signal[t] = IF past = {} THEN None ELSE x.points[Max(past)].value
            /\ t \in a.pairs => past # {} /\ t + x.horizon \in DOMAIN x.bars

(* Buckets are in order, none is empty and none is larger by two.          *)
BucketsAreEven(n, a) ==
    LET size(b) == Cardinality({k \in 1..n : a[k] = b})
    IN  /\ \A k \in 1..(n - 1) : a[k] <= a[k + 1]
        /\ \A b, c \in 0..(Quantiles(n) - 1) : size(b) > 0 /\ size(b) - size(c) <= 1

(* Contention is time: at each instant count the positions that are open.  *)
OpenAt(trades, u) == {i \in Real(trades) : trades[i].entry <= u /\ u < trades[i].exit}
Touching(trades, u) == {i \in Real(trades) : trades[i].entry <= u /\ u <= trades[i].exit}
Instants(trades) == UNION {trades[i].entry..trades[i].exit : i \in Real(trades)}
Rivals(trades, held) == \E i, j \in held : i # j /\ trades[i].inst = trades[j].inst

ContentionIsTime(trades, a) ==
    LET time(n) == Cardinality({u \in Instants(trades) : Cardinality(OpenAt(trades, u)) >= n})
    IN  /\ a.any = time(1) /\ a.two = time(2) /\ a.three = time(3)
        /\ a.same = Cardinality({u \in Instants(trades) : Rivals(trades, OpenAt(trades, u))})
        /\ a.most = Max({0} \union {Cardinality(Touching(trades, u)) : u \in Instants(trades)})

(* No trade answers for two checks of the gate, each answers for a check   *)
(* of its key that it opened after, and a blocked check that finds none is *)
(* counted.                                                                *)
EachTradeClaimedOnce(x, a) ==
    LET claimed == a.of.blocked \o a.of.allowed
        blocked == {i \in DOMAIN x.rows : x.rows[i].gate = "blocked"}
    IN  /\ \A i, j \in DOMAIN claimed : i # j => claimed[i] # claimed[j]
        /\ \A i \in DOMAIN claimed : \E r \in Range(x.rows) :
            r.key = x.trades[claimed[i]].key /\ x.trades[claimed[i]].entry - r.at \in 0..x.window
        /\ Len(a.of.blocked) + a.of.unmatched = Cardinality(blocked)

(* Correlation is the same both ways and at most one; it is all that can   *)
(* demote a strategy whose lower bound is above one.                       *)
CorrelationIsSound(x, a) ==
    LET back == Correlation(DailyReturns(x.g), DailyReturns(x.f), TRUE)
    IN  IF a.corr = None THEN back = None /\ ~a.gate.applied
        ELSE /\ a.corr.num = back.num /\ a.corr.num * a.corr.num <= a.corr.a * a.corr.b
             /\ a.gate.demote => x.low <= 100 \/ a.corr.num > 0

(* The one-pass algorithms of the screens and of the run analysis compute  *)
(* what they are for, over every small input.                              *)
ScreensMatchReference ==
    /\ Asked("align") => SignalIsCausal(given.of, answer)
    /\ Asked("quantiles") => BucketsAreEven(given.of, answer)
    /\ Asked("contention") => ContentionIsTime(given.of, answer)
    /\ Asked("gate") => EachTradeClaimedOnce(given.of, answer)
    /\ Asked("series") => CorrelationIsSound(given.of, answer)
-----------------------------------------------------------------------------
(* A rebalance never inverts the optimizer's order and leaves nobody below *)
(* the least weight, unless they are twelve or more: one at its most and   *)
(* eleven at their least are more than the book.  And equity that covers a *)
(* plan's orders covers them when it doubles.                              *)
PlanIsFair(x, a) ==
    LET raw == RawWeights(x.optimizer, EligibleCodes(x.days), x.computed)
        w == a.weights
        richer == PlanOf(x.rows, x.optimizer, x.computed, x.days, 2 * x.caller, x.jvm, x.kelly, x.rehearsal)
    IN  /\ \A c, d \in DOMAIN w.parts : raw[c] >= raw[d] => w.parts[c] >= w.parts[d]
        /\ Cardinality(DOMAIN w.parts) <= 11 => \A c \in DOMAIN w.parts : 100 * w.parts[c] >= 5 * w.whole
        /\ richer.below \subseteq a.below

(* The cap fills like water: symbols at the cap, and all others raised by  *)
(* one common factor, which is not less than what the capped ones got;     *)
(* nothing is left over, and members of a symbol share as before.          *)
CapFillsLikeWater(x, out) ==
    LET weights == ClampOnce(x.raw)
        base == BySymbol(weights, x.symbolOf)
        members(s) == {k \in DOMAIN out : x.symbolOf[k] = s}
        one(s) == out[CHOOSE k \in members(s) : TRUE].den \div base[s]
        share(s) == SumFunction([k \in members(s) |-> out[k].num]) \div base[s]
        capped(s) == 100 * share(s) = x.cap * one(s)
        feasible == x.cap * Cardinality(DOMAIN base) >= 100
    IN  feasible =>
            /\ \A s \in DOMAIN base : 100 * share(s) <= x.cap * one(s)
            /\ \A s \in DOMAIN base : SumFunction([t \in DOMAIN base |-> share(t)]) = one(s)
            /\ \A s, t \in DOMAIN base : ~capped(t) => share(s) * base[t] <= share(t) * base[s]
            /\ \A s \in DOMAIN base : \A k, l \in members(s) :
                out[k].num \div weights.parts[k] = out[l].num \div weights.parts[l]

(* Capital is divided in the optimizer's order, with a least weight, and   *)
(* with the cap per symbol kept without money left idle.                   *)
CapitalIsDividedFairly ==
    /\ Asked("plan") => PlanIsFair(given.of, answer)
    /\ Asked("pool") => CapFillsLikeWater(given.of, answer)

(* What the docstring of _apply_guardrails promises of its last resort:    *)
(* "with N·MAX >= 1 and N·MIN <= 1 that never re-breaches MAX".            *)
MaxWeightHolds ==
    Asked("plan") =>
        LET w == answer.weights
            n == Cardinality(DOMAIN w.parts)
        IN  n * 50 >= 100 /\ n * 5 <= 100 => \A c \in DOMAIN w.parts : 100 * w.parts[c] <= 50 * w.whole
-----------------------------------------------------------------------------
(* The drawdown of a book is a fall from an earlier value, and none is     *)
(* deeper, as long as it owns something; one that came to owe money has    *)
(* lost everything, and one that passes has fallen no deeper than allowed. *)
DrawdownIsDeepest(x, a) ==
    LET v == Field(x.run.points, LAMBDA p : p.value)
        fall(p) == (10000 * (v[p[1]] - v[p[2]])) \div v[p[1]]
        falls == {p \in (1..Len(v)) \X (1..Len(v)) : p[1] <= p[2] /\ v[p[1]] > 0}
    IN  /\ MaxDrawdown(v) = 0 \/ \E p \in falls : MaxDrawdown(v) = fall(p)
        /\ \A p \in falls : IF v[p[2]] >= 0 THEN fall(p) <= MaxDrawdown(v) ELSE MaxDrawdown(v) >= 10000
        /\ a = "passed" => \A p \in falls : fall(p) <= 1500

(* What is borrowed only costs, until there is nothing left to lose.       *)
BorrowOnlyCosts(x, a) ==
    LET free == PreviewEquity(PreviewReturns(x.legs, x.leverage, 0))
    IN  /\ Len(a) = Len(free)
        /\ \A i \in DOMAIN a : (\A j \in 1..i : a[j] > 0) => a[i] <= free[i]

(* The days a series has a return on.                                      *)
DaysOf(points) == {points[i].day : i \in {i \in 2..Len(points) : points[i - 1].value # 0}}

(* The hedge is judged on days both series have, each once and in order -  *)
(* for a run rebuilt from its trades every day asked about, traded or not, *)
(* and no other - and passes only on enough of them, with growth within    *)
(* five points of the benchmark's.                                         *)
Covers(run, d) ==
    IF Len(run.points) < 2 THEN ~Before(d, run.start) /\ ~Before(run.end, d)
    ELSE d \in DaysOf(run.points)

HedgeIsPaired(x, a) ==
    LET both == a.both
    IN  /\ {both[i].day : i \in DOMAIN both} = {d \in DaysOf(x.bench) : Covers(x.run, d)}
        /\ \A i, j \in DOMAIN both : i < j => Before(both[i].day, both[j].day)
        /\ a.passed => x.growth >= 1500 /\ Len(both) >= MinPairs

(* A signal turned upside down is as significant, with the other sign, and *)
(* admitted for the same reasons when the other sign is expected of it.    *)
CoefficientIsOdd(x, a) ==
    LET down == Coefficient(x.xs, Field(x.ys, LAMBDA y : -y), MinIcObs, x.t)
        opposite == [s \in {"+", "-", "0"} |-> CASE s = "+" -> "-" [] s = "-" -> "+" [] s = "0" -> "0"]
    IN  /\ down.sign = opposite[a.ic.sign] /\ down.significant = a.ic.significant
        /\ AdmissionReasons(down, x.alpha, opposite[x.expected], x.marginal, x.correlation) = a.reasons
        /\ a.admitted => a.ic.sign = x.expected

(* The roster takes each code once, none excluded, no more than the gap,   *)
(* and nobody it leaves out while there was room ranks above one it took.  *)
RosterIsBest(x, picks) ==
    LET codes == {picks[i].code : i \in DOMAIN picks}
        left == {c \in Range(x.candidates) : Provisional(c) /\ c.code \notin codes \union x.excluded}
    IN  /\ Cardinality(codes) = Len(picks) /\ codes \cap x.excluded = {}
        /\ Len(picks) <= RosterGap(x.active, x.floor)
        /\ Len(picks) < RosterGap(x.active, x.floor) => left = {}
        /\ \A i \in DOMAIN picks : \A c \in {c \in Range(x.candidates) : Provisional(c)} :
            c \in left \/ c.code = picks[i].code => ~RanksAbove(c, picks[i])

(* The order of rows that both arms are read in does not matter, and the   *)
(* verdicts before the latest two do not.                                  *)
ArmsIgnoreOrder(x, a) == Deltas(Reverse(x.rows)) = a.deltas
DriftIsRecent(x, a) == 
    Drifts([s \in DOMAIN x |-> IF x[s] = None THEN None ELSE SubSeq(x[s], 1, Min({2, Len(x[s])}))]) = a

(* A trade's regime knows no bar after the one nearest to its entry, and   *)
(* every trade that is reported on is in one regime.                       *)
RegimesAreCausal(x, a) ==
    LET far(t, i) == Abs(x.bars[i].at - t.entry)
        upTo(t) == Max({i \in DOMAIN x.bars : \A k \in DOMAIN x.bars : far(t, i) <= far(t, k)})
    IN  /\ OwnRegimes(x.trades) = None /\ Len(x.bars) >= Lengths.bars =>
            \A i \in DOMAIN x.trades : LET t == x.trades[i] IN
                RegimeAt(x.bars, t.entry, Lengths) =
                    RegimeAt(SubSeq(x.bars, 1, Max({upTo(t), Lengths.sma + 1})), t.entry, Lengths)
        /\ a.promising => \E r \in DOMAIN a.of : a.of[r].n >= MinTrades

(* Whether a candidate is near a discarded one does not depend on which of *)
(* the two is measured against the other.                                  *)
ClosenessIsMutual(x) ==
    \A i \in DOMAIN x.discarded :
        x.candidate # None /\ x.discarded[i] # None =>
            (Near(x.candidate, x.discarded[i]) <=> Near(x.discarded[i], x.candidate))

(* The gates and the reports compute what they are for.                    *)
ReportsMatchReference ==
    /\ Asked("carry") /\ given.of.run # None => DrawdownIsDeepest(given.of, answer)
    /\ Asked("preview") => BorrowOnlyCosts(given.of, answer)
    /\ Asked("hedge") => HedgeIsPaired(given.of, answer)
    /\ Asked("admit") => CoefficientIsOdd(given.of, answer)
    /\ Asked("roster") => RosterIsBest(given.of, answer)
    /\ Asked("arms") => ArmsIgnoreOrder(given.of, answer)
    /\ Asked("drift") => DriftIsRecent(given.of, answer)
    /\ Asked("regimes") => RegimesAreCausal(given.of, answer)
    /\ Asked("prescreen") => ClosenessIsMutual(given.of)
=============================================================================
