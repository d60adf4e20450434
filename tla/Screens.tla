------------------------------ MODULE Screens ------------------------------
(* The verdicts and the small algorithms of the other screens, without     *)
(* state: services/cross_window.py, services/null_screen.py,               *)
(* services/signal_screen.py and the position overlap of                   *)
(* services/pooled_certification.py.                                       *)
EXTENDS WalkForward, TLC

(* aggregate_windows and cross_window_verdict.  A window without market    *)
(* data is not run; a thin one has fewer than 30 trades; net says whether  *)
(* it stays positive after 20 bps of slippage.                             *)
NoData == [status |-> "no_data"]
Window(tag, trades, net) ==
    [status |-> "completed", tag |-> tag, trades |-> trades, net |-> net]

Eligible(windows) == SelectSeq(CompletedOnly(windows), LAMBDA w : w.trades >= 30)

CrossWindowVerdict(windows) ==
    LET judged == Eligible(windows)
        positive == Cardinality({i \in DOMAIN judged : judged[i].net})
        n == Len(judged)
    IN  IF n < 3 \/ Total(Field(judged, LAMBDA w : w.trades)) < 100
        THEN "INSUFFICIENT_DATA_IN_WINDOW"
        ELSE IF ~AtLeast(50, positive, judged) THEN "NO_EDGE_CROSS_WINDOW"
        ELSE IF ~AtLeast(80, positive, judged) THEN "INCONSISTENT_CROSS_WINDOW"
        ELSE IF \A i \in 1..n : judged[i].tag # "BEAR" THEN "INSUFFICIENT_DATA_IN_WINDOW"
        ELSE "ROBUST_CROSS_WINDOW"
-----------------------------------------------------------------------------
(* summarize_pf_distribution: the value at share num/den of the sorted     *)
(* sequence, interpolated; the result is in units of 1/den.                *)
Percentile(s, num, den) ==
    LET sorted == SortSeq(s, <)
        pos == num * (Len(s) - 1)
        low == (pos \div den) + 1
        frac == pos % den
    IN  IF frac = 0 THEN den * sorted[low]
        ELSE (den - frac) * sorted[low] + frac * sorted[low + 1]

Finite(draws) == SelectSeq(draws, LAMBDA p : p # NoPf)

NullScreenVerdict(draws, planned) ==
    LET pfs == Finite(draws)
        edge == Cardinality({i \in DOMAIN pfs : pfs[i] >= 120})
    IN  IF 2 * Len(pfs) < planned \/ pfs = <<>> THEN "INSUFFICIENT_DATA"
        ELSE IF Percentile(pfs, 3, 4) >= 4 * 120 /\ AtLeast(25, edge, pfs) THEN "EDGE_PRESENT"
        ELSE IF Percentile(pfs, 19, 20) < 20 * 120 \/ ~AtLeast(10, edge, pfs) THEN "NO_EDGE_DETECTED"
        ELSE "INCONCLUSIVE"

(* Three draws in a row without a profit factor end the screen.            *)
Bails(draws) ==
    Len(draws) >= 3 /\ \A i \in (Len(draws) - 2)..Len(draws) : draws[i] = NoPf

JournalTypeOfNullScreen(verdict) ==
    IF verdict = "NO_EDGE_DETECTED" THEN "ANTI_PATTERN" ELSE "STRATEGY_OUTCOME"
-----------------------------------------------------------------------------
(* align_point_in_time: for each bar the latest point that is not after    *)
(* it, found with one cursor over both sequences, which are sorted by time.*)
MoveCursor(cursor, bar, points) ==
    LET i == CHOOSE i \in cursor.next..(Len(points) + 1) :
                /\ \A j \in cursor.next..(i - 1) : points[j].ts <= bar
                /\ i <= Len(points) => points[i].ts > bar
        last == IF i = cursor.next THEN cursor.last ELSE points[i - 1].value
    IN  [next |-> i, last |-> last, out |-> Append(cursor.out, last)]

(* Mutant: each bar takes the point nearest to it, before or after.        *)
AlignNearest(bars, points) ==
    [t \in DOMAIN bars |->
        IF points = <<>> THEN None
        ELSE points[CHOOSE i \in DOMAIN points : \A j \in DOMAIN points :
                (points[i].ts - bars[t]) * (points[i].ts - bars[t])
                    <= (points[j].ts - bars[t]) * (points[j].ts - bars[t])].value]

AlignPointInTime(bars, points) ==
    FoldLeft(LAMBDA cursor, bar : MoveCursor(cursor, bar, points),
             [next |-> 1, last |-> None, out |-> <<>>], bars).out

(* forward_log_returns: which bar a bar's return ends at, if any.          *)
ForwardBar(n, horizon, t) == IF t + horizon <= n THEN t + horizon ELSE None

(* quantile_spread: the bucket of the k-th smallest of n observations.     *)
Quantiles(n) == IF n >= 200 THEN 5 ELSE 3
BucketOf(n, q, k) == ((k - 1) * q) \div n

(* Bars and buckets that the pairs of a screen are made of.                *)
PairedBars(bars, points, horizon) ==
    LET signal == AlignPointInTime(bars, points)
    IN  {t \in DOMAIN bars : signal[t] # None /\ ForwardBar(Len(bars), horizon, t) # None}

(* row_verdict: enough is 30 observations; t is how strong the t statistic *)
(* is: none at all, below 1, below 2, or beyond.                           *)
RowVerdict(enough, t, excludesZero) ==
    IF ~enough THEN "INSUFFICIENT_DATA"
    ELSE IF t = "strong" /\ excludesZero THEN "PROMISING"
    ELSE IF t \in {"none", "weak"} /\ ~excludesZero THEN "DEAD"
    ELSE "WEAK"

OverallVerdict(rows) ==
    LET judgeable == SelectSeq(rows, LAMBDA v : v # "INSUFFICIENT_DATA")
        Is(v) == \E i \in DOMAIN rows : rows[i] = v
    IN  IF Is("PROMISING") THEN "PROMISING"
        ELSE IF judgeable = <<>> THEN "INSUFFICIENT_DATA"
        ELSE IF \A i \in DOMAIN judgeable : judgeable[i] = "DEAD" THEN "DEAD"
        ELSE "WEAK"

JournalTypeOfScreen(verdict) ==
    IF verdict = "DEAD" THEN "ANTI_PATTERN" ELSE "CROSS_STRATEGY_FINDING"
-----------------------------------------------------------------------------
(* contention_diagnostics: a sweep over the entries and exits of a book's  *)
(* trades, in time order and entries first, adding up the time with any,   *)
(* with two, with three open positions, and with two in one instrument.    *)
Opens(trades, i) == [at |-> trades[i].entry, delta |-> 1, inst |-> trades[i].inst, of |-> i]
Closes(trades, i) == [at |-> trades[i].exit, delta |-> -1, inst |-> trades[i].inst, of |-> i]

Sooner(e, f) ==
    \/ e.at < f.at
    \/ e.at = f.at /\ e.delta > f.delta
    \/ e.at = f.at /\ e.delta = f.delta /\ e.of < f.of

Real(trades) == {i \in DOMAIN trades : trades[i].exit > trades[i].entry}
EventsOf(trades) == UNION {{Opens(trades, i), Closes(trades, i)} : i \in Real(trades)}

Events(trades) ==
    LET events == EventsOf(trades)
    IN  Arranged([e \in events |-> {f \in events : Sooner(f, e)}])

Sweep(acc, e) ==
    LET span == IF acc.open > 0 THEN e.at - acc.last ELSE 0
        if(b) == IF b THEN span ELSE 0
    IN  [last |-> e.at, open |-> acc.open + e.delta,
         byInst |-> [acc.byInst EXCEPT ![e.inst] = @ + e.delta],
         most |-> Max({acc.most, acc.open + e.delta}),
         any |-> acc.any + span,
         two |-> acc.two + if(acc.open >= 2),
         three |-> acc.three + if(acc.open >= 3),
         same |-> acc.same + if(\E i \in DOMAIN acc.byInst : acc.byInst[i] >= 2)]

Contention(trades, instruments) ==
    FoldLeft(Sweep, [last |-> 0, open |-> 0, byInst |-> [i \in instruments |-> 0], most |-> 0,
                     any |-> 0, two |-> 0, three |-> 0, same |-> 0], Events(trades))
=============================================================================
