--------------------------- MODULE MCCalculations ---------------------------
(* Small inputs for every calculation: as far as it can be afforded, all   *)
(* of those that differ in order, ties, gaps and ends.                     *)
EXTENDS Calculations

CONSTANTS btc, eth, sol, text

SeqsOf(S, n) == [1..n -> S]
Sorted(s) == \A i \in 1..(Len(s) - 1) : s[i] <= s[i + 1]

AlignInputs ==
    {[bars |-> b, points |-> [i \in DOMAIN p |-> [ts |-> p[i], value |-> i]], horizon |-> h] :
        b \in {<<1, 3, 4>>, <<2, 2, 5>>}, h \in {1, 2},
        p \in {p \in UNION {SeqsOf(0..5, n) : n \in 0..3} : Sorted(p)}}

ContentionInputs ==
    SeqsOf([entry : 0..2, exit : 1..3, inst : {btc}], 2) \union
    {<<[entry |-> 0, exit |-> 3, inst |-> btc]>> \o s : s \in SeqsOf([entry : 0..3, exit : 2..4, inst : {btc, eth}], 2)}

(* Five checks; the last pair of trades are twins.                         *)
GateTrade(k, e, p) == [key |-> k, entry |-> e, pnl |-> p]
GateInputs ==
    {[rows |-> [i \in 1..5 |-> [key |-> IF i = 5 THEN eth ELSE btc, at |-> <<0, 0, 1, 1, 3>>[i], gate |-> g[i]]],
      trades |-> t, window |-> 2] :
        g \in SeqsOf({"blocked", "allowed", "unknown"}, 5),
        t \in {<<GateTrade(btc, 1, -5), GateTrade(btc, 2, 3), GateTrade(eth, 4, -1)>>,
               <<GateTrade(btc, 3, -5), GateTrade(btc, 3, -5)>>, <<GateTrade(eth, 1, 1)>>}}

Daily(p) == [d \in DOMAIN p |-> [exit |-> IF d = 2 THEN None ELSE d, entry |-> d, pnl |-> p[d]]]
SeriesInputs ==
    {[f |-> Daily(f), g |-> Daily(g), low |-> l] :
        f \in SeqsOf({-1, 0, 2}, 3), g \in SeqsOf({-1, 0, 2}, 3) \union {<<1, 2>>}, l \in {90, 130}}

Row(i, c) == [id |-> i, code |-> c, allocation |-> 100]
PlanInput(optimizer, computed, days, caller, jvm, rehearsal) ==
    [rows |-> {Row(1, btc), Row(2, eth), Row(3, sol)}, optimizer |-> optimizer, computed |-> computed,
     days |-> days, caller |-> caller, jvm |-> jvm, kelly |-> <<None, 50, 0>>, rehearsal |-> rehearsal]
PlanDays == {[c \in {btc, eth, sol} |-> 30],
             [c \in {btc, eth, sol} |-> CASE c = sol -> 20 [] OTHER -> 40],
             [c \in {btc, eth, sol} |-> None]}
PlanInputs ==
    {PlanInput("HRP", w, d, e, j, r) : w \in [{btc, eth, sol} -> {0, 2, 20, 45, 98}], d \in PlanDays,
                                       e \in {0, 4, 8}, j \in {None, -1, 16}, r \in BOOLEAN} \union
    {PlanInput("EQUAL_WEIGHT", [c \in {btc, eth, sol} |-> 0], d, 8, None, FALSE) : d \in PlanDays}

PoolInputs ==
    {[raw |-> r, symbolOf |-> <<btc, btc, eth, sol>>, cap |-> c] :
        r \in SeqsOf({1, 2, 6}, 4), c \in {30, 40, 45, 60}}

Points(days, values) == [i \in DOMAIN values |-> [day |-> days[i], value |-> values[i]]]
NewYear == <<<<2020, 12, 30>>, <<2020, 12, 31>>, <<2021, 1, 1>>, <<2021, 1, 2>>, <<2021, 1, 3>>>>
CarryRun(values, legs, leverage) ==
    [points |-> Points(NewYear, values), legs |-> legs, leverage |-> leverage,
     trades |-> <<[symbol |-> btc, pnl |-> 5], [symbol |-> sol, pnl |-> -1], [symbol |-> None, pnl |-> 1]>>]
Carry(run, growth, sharpe, strict) ==
    [run |-> run, growth |-> growth, sharpe |-> sharpe, strict |-> strict]
CarryInputs ==
    {Carry(CarryRun(v, 4, 2), 500, 120, FALSE) : v \in SeqsOf({90, 100, 112}, 5)} \union
    {Carry(CarryRun(v, 4, 2), 500, 120, FALSE) : v \in SeqsOf({-40, 0, 100, 150}, 3)} \union
    {Carry(CarryRun(<<100, 101, 102, 103, 104>>, l, k), g, s, b) :
        l \in {None, 4}, k \in {None, 2, 4}, g \in {-1, 500}, s \in {50, 120}, b \in BOOLEAN} \union
    {Carry(CarryRun(<<100>>, 4, 2), 500, 120, FALSE), Carry(None, 500, 120, FALSE)}

PreviewInputs ==
    {[legs |-> [s \in {btc, eth} |-> IF s = btc THEN p ELSE q], leverage |-> k, borrow |-> b] :
        p \in SeqsOf({-100, 200}, 2) \union SeqsOf({-10100}, 2), q \in {<<>>} \union SeqsOf({-300, 50}, 3), k \in {1, 3}, b \in {0, 5}}

(* Three days with a leap day between, and the week they are in: a run     *)
(* with its equity, or with one point or none and its trades, of which one *)
(* closed outside of the week, one has no exit and one no time at all.     *)
LeapDays == <<<<2020, 2, 28>>, <<2020, 2, 29>>, <<2020, 3, 2>>, <<2020, 3, 3>>>>
Traded(entry, exit, p) == [entry |-> entry, exit |-> exit, pnl |-> p]
HedgeRun(points, trades, start, end) == [points |-> points, trades |-> trades, start |-> start, end |-> end]
HedgeRuns ==
    {HedgeRun(Points(LeapDays, v), <<>>, LeapDays[1], LeapDays[3]) : v \in SeqsOf({80, 100}, 3)} \union
    {HedgeRun(p, <<Traded(LeapDays[1], LeapDays[2], k), Traded(LeapDays[2], None, l),
                   Traded(LeapDays[1], LeapDays[2], -100), Traded(LeapDays[1], <<2020, 3, 9>>, 500),
                   Traded(None, None, 700)>>, LeapDays[1], e) :
        p \in {<<>>, Points(LeapDays, <<100>>)}, k \in {-900, 0, 100}, l \in {0, 300},
        e \in {<<2020, 2, 27>>, LeapDays[1], LeapDays[3], LeapDays[4]}}
HedgeInputs ==
    {[run |-> u, bench |-> Points(d, <<100, 90, 60>>), growth |-> g, sharpe |-> s, resampled |-> r] :
        u \in HedgeRuns, d \in {LeapDays, Tail(LeapDays)}, g \in {1000, 1600}, s \in {60, 80},
        r \in {<<>>, <<3, 1, 2>>, <<0, 4>>}}

(* t is that of the ranks; no correlation of three but a perfect one has a *)
(* t statistic near its bar.  Each of the four conditions may fail.        *)
Alpha(xs, ys, t) ==
    [xs |-> xs, ys |-> ys, t |-> t, alpha |-> 200, expected |-> "+", marginal |-> 5, correlation |-> None]
Rising == <<1, 2, 3, 4, 5, 6>>
AdmitInputs ==
    {Alpha(xs, ys, 1732) : xs \in SeqsOf(1..3, 3), ys \in SeqsOf(1..3, 3)} \union
    {Alpha(Rising, <<1, 2, 3, 5, 4, 6>>, 5659), Alpha(Rising, <<2, 1, 4, 3, 6, 5>>, 2959),
     Alpha(Rising, <<3, 1, 4, 2, 6, 5>>, 1743), Alpha(Rising, <<1, 2, 2, 4, 6, 5>>, 4967)} \union
    {[Alpha(Rising, ys, 0) EXCEPT !.alpha = a, !.expected = e, !.marginal = m, !.correlation = c] :
        ys \in {Rising, Reverse(Rising)}, a \in {None, 199, 200}, e \in {"+", "-"},
        m \in {-4, 2, 3}, c \in {None, 79, 80}}

Candidate(code, score, dsr) ==
    [code |-> code, score |-> score, dsr |-> dsr, track |-> None, stat |-> "SIGNIFICANT_EDGE",
     annual |-> 10, walk |-> "ROBUST"]
Candidates ==
    {Candidate(1, 5, None), Candidate(1, 7, 90), Candidate(2, 5, 90), Candidate(2, 7, None),
     Candidate(3, 7, 90), [Candidate(3, 9, 99) EXCEPT !.walk = "OVERFIT"]}
RosterInputs ==
    {[active |-> a, floor |-> 3, candidates |-> c, excluded |-> e] :
        a \in {1, 2, 4}, c \in SeqsOf(Candidates, 3), e \in {{}, {2}}}

DriftInputs ==
    {[s \in {btc, eth} |-> IF s = btc THEN v ELSE None] :
        v \in UNION {SeqsOf({"ROBUST_CROSS_WINDOW", "INCONSISTENT_CROSS_WINDOW",
                             "NO_EDGE_CROSS_WINDOW"}, n) : n \in 0..3}}

(* Three rows have one pair at most, whose resamples are all its delta.    *)
Arms(rows, metric) ==
    LET deltas == Deltas(rows)
        delta == IF DOMAIN deltas = {} THEN 0 ELSE deltas[CHOOSE p \in DOMAIN deltas : TRUE]
    IN  [rows |-> rows, minimum |-> 1, metric |-> metric, mean |-> delta,
         ci |-> [low |-> delta, high |-> delta]]
ArmInputs ==
    {Arms(r, m) : r \in SeqsOf([params : {1, 2}, arm : {"on", "off"}, metric : {None, 3, 5}], 3),
                  m \in {"profit_factor", "trade_count"}}

MCLengths == [sma |-> 2, atr |-> 1, rank |-> 2, near |-> 2, bars |-> 4]
RegimeInputs ==
    {[bars |-> [i \in DOMAIN c |-> [at |-> 2 * i, close |-> c[i], range |-> r[i]]],
      trades |-> <<[entry |-> e, regime |-> None, pnl |-> 5], [entry |-> 7, regime |-> None, pnl |-> -4],
                   [entry |-> 8, regime |-> g, pnl |-> 2]>>] :
        c \in SeqsOf({1, 2}, 5) \union {<<1, 2, 3>>}, r \in SeqsOf({1, 2}, 5), e \in {3, 6, 9, 12},
        g \in {None, <<"BULL">>}}
    \union {[bars |-> <<>>, trades |-> t] :
        t \in {<<>>, <<[entry |-> 1, regime |-> <<"BULL">>, pnl |-> 5], [entry |-> 1, regime |-> None, pnl |-> 5]>>,
               [i \in 1..2 |-> [entry |-> i, regime |-> <<"BULL">>, pnl |-> i - 2]]}}

Params(a, b) == [a |-> a, b |-> b]
Skeptic(queued, axes, candidate, discarded, entry, recorded) ==
    [queued |-> queued, axes |-> axes, candidate |-> candidate, discarded |-> discarded,
     named |-> TRUE, entry |-> entry, declared |-> 10, recorded |-> recorded]
Hypothesis(edited) == [type |-> "HYPOTHESIS", created |-> 0, updated |-> edited]
Numbers == {-10, 10, 11, 20, text}
PrescreenInputs ==
    {Skeptic(<<1, 1>>, <<1, 2>>, Params(10, a), <<None, Params(b, c), Params(20, 20)>>, Hypothesis(0), 12) :
        a \in Numbers, b \in Numbers, c \in Numbers} \union
    {Skeptic(q, x, None, <<>>, e, n) : q \in {<<1, 1, 2>>, <<1, 2, 3, 4, 5>>}, x \in {<<>>, <<1, 2>>, <<1, 1>>},
        e \in {None, Hypothesis(0), Hypothesis(5), [Hypothesis(0) EXCEPT !.type = "NOTE"]}, n \in {12, 13}}

MCInputs ==
    [align |-> AlignInputs, quantiles |-> {6, 7, 10, 29, 199, 200, 203}, contention |-> ContentionInputs,
     gate |-> GateInputs, series |-> SeriesInputs, plan |-> PlanInputs, pool |-> PoolInputs,
     carry |-> CarryInputs, preview |-> PreviewInputs, hedge |-> HedgeInputs, admit |-> AdmitInputs,
     roster |-> RosterInputs, drift |-> DriftInputs, arms |-> ArmInputs, regimes |-> RegimeInputs,
     prescreen |-> PrescreenInputs]
=============================================================================
