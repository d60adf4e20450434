------------------------------ MODULE Gauntlet ------------------------------
(* The requests that run backtests one after another and conclude with one *)
(* verdict: walk-forward, the certification of a pooled book and its       *)
(* walk-forward, cross-window, null screen, signal screen, capacity sweep  *)
(* and the drain of the queue.                                             *)
(*                                                                         *)
(* A request holds no lock and lives in one handler.  Each await at which  *)
(* something is read or written is a step; other requests interleave, and  *)
(* a crash of the process ends them all and keeps every row committed.     *)
(* A refused request changes nothing and is left out.                      *)
EXTENDS Screens, Analysis, Drain

CONSTANTS
    Jobs,            \* the requests there can be at a time
    Walks,           \* walk-forward requests
    TickTrades,      \* trades of each iteration that a tick has logged
    Books,           \* books to certify: sleeves, end and declared trials
    BookWalks,       \* fold parameters of the walk-forward of a book
    Surfaces,        \* instrument and interval of each sleeve or screen
    Catalog,         \* windows_for: the regime windows
    DataStarts,      \* days the market data of an instrument may begin
    Families,        \* families of signals
    Scales, Floor,   \* capital of a capacity sweep, in its order, and the least
    FoldRuns,        \* what one backtest may come to, in each request
    SleeveRuns,
    WindowRuns,
    DrawRuns,
    ScaleRuns,
    Draws,           \* draws of a null screen
    TickAnswers,     \* what run_tick may answer
    MaxIters,        \* ticks of a drain
    Cost, MaxCost,   \* share of the bound on requests that each kind takes
    MaxCrashes       \* bound

Kinds == {"walk", "analyze", "bookwalk", "cross", "null", "signal", "capacity", "drain"}

ASSUME GauntletAssumption ==
    /\ Cost \in [Kinds -> Nat] /\ MaxCost \in Nat /\ MaxCrashes \in Nat
    /\ Draws >= 4 /\ MaxIters \in Nat \ {0}
    /\ None \notin Nat \union BOOLEAN \union DOMAIN TickTrades

(* What the bodies of both requests on a book are validated against.       *)
ASSUME BookAssumption ==
    /\ Books \subseteq [sleeves : Seq([surface : Surfaces, from : Date]), end : Date, external : Nat]
    /\ \A b \in Books : Len(b.sleeves) \in 2..5
    /\ BookWalks \subseteq [train : 1..60, test : 1..24, step : 1..24, n : 1..20, override : BOOLEAN]

(* A sleeve that completes has its trades; a tick answers what it can.     *)
ASSUME AnswerAssumption ==
    /\ \A run \in SleeveRuns \ {Failed} : run.n \in Nat
    /\ TickAnswers \subseteq {EmptyQueue, Exhausted}
          \union {Raised(config, retryable) : config, retryable \in BOOLEAN}
          \union {Iterated(i, stat, verdict) : i \in DOMAIN TickTrades, stat \in StatsCounted,
                                              verdict \in {"PASS", "ITERATE", "DISCARD"}}

VARIABLES
    job,             \* the request a handler works on, or None
    audits,          \* hypothesis_audit
    iterations,      \* research_iteration_log: the books' rows
    certificates,    \* walk_forward_run, cross_window_run, capacity_sweep_result
    journal,         \* the entries of null and signal screens
    digests,         \* what drains have answered
    reviewed,        \* iterations whose latest graduation review passes
    spent, crashes

vars == <<job, audits, iterations, certificates, journal, digests, reviewed, spent, crashes>>
rows == <<audits, iterations, certificates, journal, digests>>

Init ==
    /\ job = [j \in Jobs |-> None]
    /\ audits = <<>> /\ iterations = <<>> /\ certificates = <<>>
    /\ journal = <<>> /\ digests = <<>>
    /\ reviewed = {}
    /\ spent = 0 /\ crashes = 0

Working(j, kind) == job[j] # None /\ job[j].kind = kind

Begin(j, request) ==
    /\ job[j] = None
    /\ spent + Cost[request.kind] <= MaxCost
    /\ job' = [job EXCEPT ![j] = request]
    /\ spent' = spent + Cost[request.kind]
    /\ UNCHANGED <<rows, reviewed, crashes>>

Advance(j, request) ==
    /\ job' = [job EXCEPT ![j] = request]
    /\ UNCHANGED <<reviewed, spent, crashes>>

End(j) == Advance(j, None)
-----------------------------------------------------------------------------
(* A walk-forward: one backtest per fold; a fold that fails or is still    *)
(* running when the poll gives up is recorded and left out of the verdict. *)
FoldOf(w, run) ==
    IF run \in {Failed, Capped} THEN run
    ELSE Completed(run.pf, run.ret, run.trades, DayNumber(w.to) - DayNumber(w.from))

(* An identifier without a row in the iteration log is not held to this.   *)
Frequent(w) ==
    LET n == TickTrades[w.iteration] IN
    IF IsLowFrequency(w.daily, n, DayNumber(w.end) - DayNumber(w.start))
    THEN n >= 8 ELSE n >= 30 * w.n

ReviewGate(w) ==
    w.unreviewed \/ (w.iteration # None /\ (w.candidate \/ w.iteration \in reviewed))

RequestWalkForward(j) ==
    \E w \in Walks :
        /\ Begin(j, [kind |-> "walk", input |-> w, results |-> <<>>,
                     folds |-> BuildFolds(w.start, w.end, w.train, w.test, w.step, w.n)])
        /\ ReviewGate(w)
        /\ w.iteration \in DOMAIN TickTrades => Frequent(w)
        /\ Accepts(w.start, w.end, w.train, w.test, w.step, w.n, w.override)

RunFold(j) ==
    LET k == Len(job[j].results) + 1 IN
    /\ Working(j, "walk") /\ k <= Len(job[j].folds)
    /\ \E run \in FoldRuns :
        Advance(j, [job[j] EXCEPT !.results = Append(@, FoldOf(job[j].folds[k], run))])
    /\ UNCHANGED rows

(* Mutant: the row is written when the fold before the last is done.       *)
InsertEarly(j) ==
    /\ Working(j, "walk") /\ Len(job[j].results) + 1 = Len(job[j].folds)
    /\ certificates' = Append(certificates,
            [kind |-> "walk", iteration |-> job[j].input.iteration, folds |-> job[j].folds,
             results |-> job[j].results, verdict |-> StabilityVerdict(job[j].results)])
    /\ End(j)
    /\ UNCHANGED <<audits, iterations, journal, digests>>

InsertWalkForward(j) ==
    LET results == job[j].results
        verdicts == {WalkForwardVerdict(results, job[j].input.daily, enough, significant) :
                        enough, significant \in BOOLEAN}
    IN  /\ Working(j, "walk") /\ Len(results) = Len(job[j].folds)
        /\ \E v \in verdicts :
            certificates' = Append(certificates,
                [kind |-> "walk", iteration |-> job[j].input.iteration,
                 folds |-> job[j].folds, results |-> results, verdict |-> v])
        /\ End(j)
        /\ UNCHANGED <<audits, iterations, journal, digests>>
-----------------------------------------------------------------------------
(* The certification of a book.  An audit row counts as a trial once an    *)
(* iteration has it, or when it is the draw of a null screen.              *)
Trial(surface, draw) == [surface |-> surface, draw |-> draw, iteration |-> None, verdict |-> None]

CountsAsTrial(a) == a.iteration # None \/ a.draw
TrialsOn(on) == {i \in DOMAIN audits : audits[i].surface \in on /\ CountsAsTrial(audits[i])}
SurfacesOf(book) == {s.surface : s \in Range(book.sleeves)}
StartOf(book) ==
    CHOOSE d \in {s.from : s \in Range(book.sleeves)} :
        \A s \in Range(book.sleeves) : ~Before(s.from, d)

Certifiable(book) == \A s \in Range(book.sleeves) : Before(s.from, book.end)

RequestAnalyze(j) ==
    \E b \in Books :
        /\ Begin(j, [kind |-> "analyze", book |-> b, evidence |-> <<>>, results |-> <<>>,
                     counts |-> [s \in Surfaces |-> None], trials |-> None, seen |-> 0])
        /\ Certifiable(b)

(* Every sleeve is on record before the first backtest; one commit each.   *)
AuditSleeve(j) ==
    LET k == Len(job[j].evidence) + 1
        book == job[j].book
    IN  /\ Working(j, "analyze") /\ k <= Len(book.sleeves)
        /\ audits' = Append(audits, Trial(book.sleeves[k].surface, FALSE))
        /\ Advance(j, [job[j] EXCEPT !.evidence = Append(@, Len(audits) + 1)])
        /\ UNCHANGED <<iterations, certificates, journal, digests>>

(* A sleeve without a completed run ends the request; its audits stay.     *)
RunSleeve(j) ==
    LET n == Len(job[j].book.sleeves) IN
    /\ Working(j, "analyze") /\ Len(job[j].evidence) = n /\ Len(job[j].results) < n
    /\ \E run \in SleeveRuns :
        IF run = Failed THEN End(j)
        ELSE Advance(j, [job[j] EXCEPT !.results = Append(@, run),
                                       !.seen = Cardinality(TrialsOn(SurfacesOf(job[j].book)))])
    /\ UNCHANGED rows

(* Mutant: a surface is counted once for each of its sleeves.              *)
PooledTrialsBySleeve(book, counts) ==
    IF \E s \in SurfacesOf(book) : counts[s] = None THEN None
    ELSE SumFunction([k \in DOMAIN book.sleeves |-> counts[book.sleeves[k].surface]]) + book.external + 1

(* None until the last of the surfaces is counted.                         *)
PooledTrials(book, counts) ==
    IF \E s \in SurfacesOf(book) : counts[s] = None THEN None
    ELSE SumFunction([s \in SurfacesOf(book) |-> counts[s]]) + book.external + 1

(* A query for each surface, in whatever order: others commit in between.  *)
CountTrials(j) ==
    LET me == job[j] IN
    /\ Working(j, "analyze") /\ me.trials = None /\ Len(me.results) = Len(me.book.sleeves)
    /\ \E s \in SurfacesOf(me.book) :
        LET counts == [me.counts EXCEPT ![s] = Cardinality(TrialsOn({s}))]
        IN  /\ me.counts[s] = None
            /\ Advance(j, [me EXCEPT !.counts = counts, !.trials = PooledTrials(me.book, counts)])
    /\ UNCHANGED rows

(* The profits of all sleeves are pooled; bootstrap and Sharpe ratio of    *)
(* the pool are floating point.                                            *)
BookVerdicts(results) ==
    LET n == Total(Field(results, LAMBDA r : r.n))
        stats == {StatisticalVerdict(n, [low |-> low, high |-> 150], dsr) :
                    low \in {90, 110}, dsr \in {"none", "below", "clears"}}
            \union {StatisticalVerdict(n, [low |-> 80, high |-> 90], "below")}
    IN  {[stat |-> s, decision |-> DecisionVerdict(s, n, annual)] :
            s \in stats, annual \in {None, "negative", "nonnegative"}}

(* Mutant: the rows of the book are found by their surface.                *)
CommitBySurface(j) ==
    LET me == job[j]
        i == Len(iterations) + 1
    IN  /\ Working(j, "analyze") /\ me.trials # None
        /\ \E v \in BookVerdicts(me.results) :
            /\ iterations' = Append(iterations,
                 [book |-> me.book, evidence |-> me.evidence, verdict |-> v.decision,
                  trials |-> me.trials, seen |-> me.seen])
            /\ audits' = [a \in DOMAIN audits |->
                IF audits[a].surface \in SurfacesOf(me.book) /\ audits[a].iteration = None
                THEN [audits[a] EXCEPT !.iteration = i, !.verdict = v.decision]
                ELSE audits[a]]
        /\ End(j)
        /\ UNCHANGED <<certificates, journal, digests>>

CommitAnalysis(j) ==
    LET me == job[j]
        i == Len(iterations) + 1
    IN  /\ Working(j, "analyze") /\ me.trials # None
        /\ \E v \in BookVerdicts(me.results) :
            /\ iterations' = Append(iterations,
                 [book |-> me.book, evidence |-> me.evidence, verdict |-> v.decision,
                  trials |-> me.trials, seen |-> me.seen])
            /\ audits' = [a \in DOMAIN audits |->
                IF a \in Range(me.evidence)
                THEN [audits[a] EXCEPT !.iteration = i, !.verdict = v.decision]
                ELSE audits[a]]
        /\ End(j)
        /\ UNCHANGED <<certificates, journal, digests>>
-----------------------------------------------------------------------------
(* The walk-forward of a certified book: every sleeve in every fold.       *)
BooksPassingReview == DOMAIN iterations \cap reviewed

RequestBookWalk(j) ==
    \E i \in BooksPassingReview, w \in BookWalks :
        LET book == iterations[i].book
            start == StartOf(book)
        IN  /\ Begin(j, [kind |-> "bookwalk", iteration |-> i, book |-> book,
                         folds |-> BuildFolds(start, book.end, w.train, w.test, w.step, w.n),
                         results |-> <<>>, parts |-> <<>>, part |-> <<>>])
            /\ Accepts(start, book.end, w.train, w.test, w.step, w.n, w.override)

Skipped == [status |-> "skipped"]
RanFrom(start, run) == [status |-> "ran", start |-> start, run |-> run]

(* A sleeve whose data starts after the fold has no position in it.        *)
RunSleeveOfFold(j) ==
    LET me == job[j]
        fold == me.folds[Len(me.results) + 1]
        sleeve == me.book.sleeves[Len(me.part) + 1]
        start == IF Before(fold.from, sleeve.from) THEN sleeve.from ELSE fold.from
    IN  /\ Working(j, "bookwalk")
        /\ Len(me.results) < Len(me.folds) /\ Len(me.part) < Len(me.book.sleeves)
        /\ IF ~Before(start, fold.to)
           THEN Advance(j, [me EXCEPT !.part = Append(@, Skipped)])
           ELSE \E run \in SleeveRuns :
                Advance(j, [me EXCEPT !.part =
                    Append(@, IF run = Failed THEN Failed ELSE RanFrom(start, run))])
        /\ UNCHANGED rows

(* What the sleeves that ran made together, a share of the capital each.   *)
Pool(fold, part) ==
    LET Pooled(Get(_)) == SumFunction([k \in OfStatus("ran", part) |-> Get(part[k].run)])
        n == Pooled(LAMBDA r : r.n)
    IN  Completed(PfOf(Pooled(LAMBDA r : r.wins), Pooled(LAMBDA r : r.losses), n),
                  Pooled(LAMBDA r : r.ret) \div Len(part), n,
                  DayNumber(fold.to) - DayNumber(fold.from))

(* Mutant: the fold is what the other sleeves made of it.                  *)
BookFoldOfRest(fold, part) ==
    IF \A k \in DOMAIN part : part[k].status # "ran" THEN Failed ELSE Pool(fold, part)

(* One failed sleeve fails the fold: without it the fold is not the book.  *)
BookFold(fold, part) ==
    IF \E k \in DOMAIN part : part[k] = Failed THEN Failed ELSE Pool(fold, part)

CloseFold(j) ==
    LET me == job[j]
        fold == me.folds[Len(me.results) + 1]
    IN  /\ Working(j, "bookwalk") /\ Len(me.part) = Len(me.book.sleeves)
        /\ Advance(j, [me EXCEPT !.part = <<>>, !.parts = Append(@, me.part),
                                 !.results = Append(@, BookFold(fold, me.part))])
        /\ UNCHANGED rows

InsertBookWalk(j) ==
    LET me == job[j] IN
    /\ Working(j, "bookwalk") /\ Len(me.results) = Len(me.folds)
    /\ certificates' = Append(certificates,
            [kind |-> "bookwalk", iteration |-> me.iteration, folds |-> me.folds, parts |-> me.parts,
             results |-> me.results, verdict |-> StabilityVerdict(me.results)])
    /\ End(j)
    /\ UNCHANGED <<audits, iterations, journal, digests>>
-----------------------------------------------------------------------------
(* The regime windows, those before the first day of market data skipped.  *)
RequestCrossWindow(j) ==
    \E first \in DataStarts :
        Begin(j, [kind |-> "cross", first |-> first, results |-> <<>>])

RunWindow(j) ==
    LET w == Catalog[Len(job[j].results) + 1]
        Note(run) == IF run \in {Failed, Capped} THEN run ELSE Window(w.tag, run.trades, run.net)
        found == IF ~Before(job[j].first, w.to) THEN {NoData} ELSE {Note(run) : run \in WindowRuns}
    IN  /\ Working(j, "cross") /\ Len(job[j].results) < Len(Catalog)
        /\ \E r \in found : Advance(j, [job[j] EXCEPT !.results = Append(@, r)])
        /\ UNCHANGED rows

InsertCrossWindow(j) ==
    LET results == job[j].results IN
    /\ Working(j, "cross") /\ Len(results) = Len(Catalog)
    /\ certificates' = Append(certificates,
            [kind |-> "cross", results |-> results, verdict |-> CrossWindowVerdict(results)])
    /\ End(j)
    /\ UNCHANGED <<audits, iterations, journal, digests>>
-----------------------------------------------------------------------------
(* A null screen: each draw that ran is a trial, recorded best effort.     *)
RequestNullScreen(j) ==
    \E s \in Surfaces :
        Begin(j, [kind |-> "null", surface |-> s, results |-> <<>>, owes |-> FALSE])

RunDraw(j) ==
    LET me == job[j] IN
    /\ Working(j, "null") /\ ~me.owes
    /\ Len(me.results) < Draws /\ ~Bails(me.results)
    /\ \E run \in DrawRuns :
        Advance(j, [me EXCEPT !.results = Append(@, IF run = Failed THEN NoPf ELSE run.pf),
                              !.owes = run # Failed])
    /\ UNCHANGED rows

AuditDraw(j) ==
    /\ Working(j, "null") /\ job[j].owes
    /\ \/ audits' = Append(audits, Trial(job[j].surface, TRUE))
       \/ UNCHANGED audits
    /\ Advance(j, [job[j] EXCEPT !.owes = FALSE])
    /\ UNCHANGED <<iterations, certificates, journal, digests>>

ConcludeNullScreen(j) ==
    LET me == job[j]
        verdict == IF Bails(me.results) THEN "INSUFFICIENT_DATA"
                   ELSE NullScreenVerdict(me.results, Draws)
    IN  /\ Working(j, "null") /\ ~me.owes
        /\ Len(me.results) = Draws \/ Bails(me.results)
        /\ journal' = Append(journal, [kind |-> "null", verdict |-> verdict,
                                       type |-> JournalTypeOfNullScreen(verdict)])
        /\ End(j)
        /\ UNCHANGED <<audits, iterations, certificates, digests>>
-----------------------------------------------------------------------------
(* A signal screen says how many of its family came before it.             *)
Screened(family) ==
    {i \in DOMAIN journal : journal[i].kind = "signal" /\ journal[i].family = family}

RequestSignalScreen(j) ==
    \E f \in Families :
        Begin(j, [kind |-> "signal", family |-> f, prior |-> None,
                  seen |-> Cardinality(Screened(f))])

CountScreens(j) ==
    /\ Working(j, "signal") /\ job[j].prior = None
    /\ Advance(j, [job[j] EXCEPT !.prior = Cardinality(Screened(job[j].family))])
    /\ UNCHANGED rows

(* One row for an instrument and a horizon, and one pooled.                *)
RowVerdicts ==
    {RowVerdict(enough, t, excludes) :
        enough, excludes \in BOOLEAN, t \in {"none", "weak", "middling", "strong"}}

InsertScreen(j) ==
    LET me == job[j] IN
    /\ Working(j, "signal") /\ me.prior # None
    /\ \E verdict \in {OverallVerdict(<<r, s>>) : r, s \in RowVerdicts} :
        journal' = Append(journal,
            [kind |-> "signal", family |-> me.family, prior |-> me.prior, seen |-> me.seen,
             verdict |-> verdict, type |-> JournalTypeOfScreen(verdict)])
    /\ End(j)
    /\ UNCHANGED <<audits, iterations, certificates, digests>>
-----------------------------------------------------------------------------
(* The same backtest at each capital.  A result that cannot be stored is   *)
(* answered all the same.                                                  *)
RequestCapacitySweep(j) == Begin(j, [kind |-> "capacity", results |-> <<>>])

RunScale(j) ==
    LET usd == Scales[Len(job[j].results) + 1]
        Note(run) == IF run \in {Failed, Capped} THEN run ELSE Scale(usd, run.pf, run.edge)
    IN  /\ Working(j, "capacity") /\ Len(job[j].results) < Len(Scales)
        /\ \E run \in ScaleRuns :
            Advance(j, [job[j] EXCEPT !.results = Append(@, Note(run))])
        /\ UNCHANGED rows

PersistSweep(j) ==
    LET results == job[j].results
        viable == MaxViable(results)
    IN  /\ Working(j, "capacity") /\ Len(results) = Len(Scales)
        /\ \/ certificates' = Append(certificates,
                [kind |-> "capacity", results |-> results, viable |-> viable,
                 verdict |-> JudgeVerdict(EdgeDecay(results), viable, Floor),
                 atFloor |-> EdgeAtFloor(results, Floor),
                 atMax |-> IF viable = None THEN None ELSE EdgeAt(results, viable)])
           \/ UNCHANGED certificates
        /\ End(j)
        /\ UNCHANGED <<audits, iterations, journal, digests>>
-----------------------------------------------------------------------------
(* The drain runs ticks until one of them, the clock or the count ends it. *)
RequestDrain(j) ==
    Begin(j, [kind |-> "drain", ticks |-> <<>>, tally |-> NewTally])

Answer(j, ticks, tally, terminal) ==
    /\ digests' = Append(digests, Digest(ticks, tally, terminal))
    /\ End(j)
    /\ UNCHANGED <<audits, iterations, certificates, journal>>

RunTick(j) ==
    LET me == job[j] IN
    /\ Working(j, "drain") /\ Len(me.ticks) < MaxIters
    /\ \E t \in TickAnswers :
        LET ticks == Append(me.ticks, t)
            tally == Account(me.tally, t)
        IN  IF NextAction(t) = "CONTINUE"
            THEN Advance(j, [me EXCEPT !.ticks = ticks, !.tally = tally]) /\ UNCHANGED rows
            ELSE Answer(j, ticks, tally, NextAction(t))

StopDrain(j) ==
    LET me == job[j] IN
    /\ Working(j, "drain") /\ me.ticks # <<>>
    /\ Answer(j, me.ticks, me.tally,
              IF Len(me.ticks) < MaxIters THEN "MAX_WALL_CLOCK_REACHED" ELSE "MAX_ITERS_REACHED")
-----------------------------------------------------------------------------
(* Outside src's handlers: the review of an iteration, of use only while   *)
(* the bound lets another request come, and the process.                   *)
GrantReview ==
    /\ \E k \in Kinds : spent + Cost[k] <= MaxCost
    /\ \E i \in (DOMAIN TickTrades \union DOMAIN iterations) \ reviewed :
        reviewed' = reviewed \union {i}
    /\ UNCHANGED <<job, rows, spent, crashes>>

(* What no handler catches, a lost connection for one, ends the request it *)
(* befalls, and the transaction it is in.                                  *)
Raise(j) == job[j] # None /\ End(j) /\ UNCHANGED rows

Crash ==
    /\ crashes < MaxCrashes /\ \E j \in Jobs : job[j] # None
    /\ job' = [j \in Jobs |-> None]
    /\ crashes' = crashes + 1
    /\ UNCHANGED <<rows, reviewed, spent>>

Request(j) ==
    \/ RequestWalkForward(j) \/ RequestAnalyze(j) \/ RequestBookWalk(j)
    \/ RequestCrossWindow(j) \/ RequestNullScreen(j) \/ RequestSignalScreen(j)
    \/ RequestCapacitySweep(j) \/ RequestDrain(j)

Work(j) ==
    \/ RunFold(j) \/ InsertWalkForward(j)
    \/ AuditSleeve(j) \/ RunSleeve(j) \/ CountTrials(j) \/ CommitAnalysis(j)
    \/ RunSleeveOfFold(j) \/ CloseFold(j) \/ InsertBookWalk(j)
    \/ RunWindow(j) \/ InsertCrossWindow(j)
    \/ RunDraw(j) \/ AuditDraw(j) \/ ConcludeNullScreen(j)
    \/ CountScreens(j) \/ InsertScreen(j)
    \/ RunScale(j) \/ PersistSweep(j)
    \/ RunTick(j) \/ StopDrain(j)
    \/ Raise(j)

Next == (\E j \in Jobs : Request(j) \/ Work(j)) \/ GrantReview \/ Crash

Spec == Init /\ [][Next]_vars
-----------------------------------------------------------------------------
(* Everything a handler holds and every row has its shape.                 *)
Verdicts == {"INSUFFICIENT_EVIDENCE", "NO_EDGE", "OVERFIT", "INCONSISTENT", "ROBUST"}

TypeOK ==
    /\ \A j \in Jobs : job[j] # None => job[j].kind \in Kinds
    /\ \A a \in DOMAIN audits :
        /\ audits[a].surface \in Surfaces /\ audits[a].draw \in BOOLEAN
        /\ audits[a].iteration \in DOMAIN iterations \union {None}
    /\ \A i \in DOMAIN iterations :
        /\ iterations[i].verdict \in {"PASS", "ITERATE", "DISCARD"}
        /\ Range(iterations[i].evidence) \subseteq DOMAIN audits
    /\ \A c \in Range(certificates) :
        /\ c.kind \in {"walk", "bookwalk", "cross", "capacity"}
        /\ c.kind \in {"walk", "bookwalk"} => c.verdict \in Verdicts
        /\ c.kind \in {"walk", "bookwalk"} => Len(c.folds) = Len(c.results)
    /\ reviewed \subseteq DOMAIN TickTrades \union DOMAIN iterations
    /\ spent \in 0..MaxCost /\ crashes \in 0..MaxCrashes

(* Trials are what later verdicts are deflated by.  The iteration of a     *)
(* book owns one audit row per sleeve, in order and on its surface, with   *)
(* the iteration's verdict; a row of a request that failed, crashed or     *)
(* still runs belongs to none, whatever other requests commit meanwhile.   *)
BookEvidence ==
    /\ \A i \in DOMAIN iterations :
        LET it == iterations[i] IN
        /\ Len(it.evidence) = Len(it.book.sleeves)
        /\ \A k \in DOMAIN it.evidence :
            audits[it.evidence[k]] = [surface |-> it.book.sleeves[k].surface, draw |-> FALSE,
                                      iteration |-> i, verdict |-> it.verdict]
    /\ \A a \in DOMAIN audits : audits[a].iteration # None =>
        \E k \in DOMAIN iterations[audits[a].iteration].evidence :
            iterations[audits[a].iteration].evidence[k] = a

(* A verdict is deflated by no fewer trials than were on record when its   *)
(* last backtest ended, and by none twice: a sleeve that shares a surface  *)
(* with another adds nothing, nor do the audits of its own request.  A     *)
(* signal screen counts every screen of its family that was on record when *)
(* it was asked for.                                                       *)
MultiplicityIsCurrent ==
    /\ \A i \in DOMAIN iterations :
        LET it == iterations[i]
            others == TrialsOn(SurfacesOf(it.book)) \ Range(it.evidence)
        IN  it.trials - it.book.external - 1 \in it.seen..Cardinality(others)
    /\ \A i \in DOMAIN journal : journal[i].kind = "signal" =>
        /\ journal[i].prior >= journal[i].seen
        /\ journal[i].prior <= Cardinality({k \in Screened(journal[i].family) : k < i})

(* What a pooled walk-forward counts is the book: in every fold that has   *)
(* metrics each sleeve ran from the later of the fold's and its own start, *)
(* or its data starts after the fold; a robust verdict rests on a hundred  *)
(* trades of such folds; and the iteration it certifies was reviewed.      *)
WholeBookFolds ==
    \A c \in {c \in Range(certificates) : c.kind = "bookwalk"} :
        LET book == iterations[c.iteration].book
            whole == {f \in DOMAIN c.results : c.results[f].status = "completed"}
            trades(f) == SumFunction([k \in DOMAIN book.sleeves |->
                            IF c.parts[f][k].status = "ran" THEN c.parts[f][k].run.n ELSE 0])
        IN  /\ c.iteration \in reviewed
            /\ \A f \in whole, k \in DOMAIN book.sleeves :
                LET row == c.parts[f][k]
                    from == book.sleeves[k].from
                IN  \/ row = Skipped /\ ~Before(from, c.folds[f].to)
                    \/ /\ row.status = "ran"
                       /\ row.start = IF Before(c.folds[f].from, from) THEN from
                                      ELSE c.folds[f].from
            /\ c.verdict = "ROBUST" => SumFunction([f \in whole |-> trades(f)]) >= 100

(* The digest of a drain accounts for each of its ticks: only the last may *)
(* be one that ends a drain, the counts are those of the iterations, and   *)
(* the iteration it names is the last one logged, also when a tick without *)
(* one came after it.                                                      *)
DrainAccounts ==
    \A d \in Range(digests) :
        LET n == Len(d.ticks)
            logged == {i \in 1..n : d.ticks[i].outcome = "iterated"}
        IN  /\ \A i \in 1..(n - 1) : NextAction(d.ticks[i]) = "CONTINUE"
            /\ NextAction(d.ticks[n]) \in {d.terminal, "CONTINUE"}
            /\ d.terminal = "MAX_ITERS_REACHED" => n = MaxIters
            /\ d.tally.iters = Cardinality(logged)
            /\ d.tally.iters = SumFunction(d.tally.stats)
            /\ d.tally.discards = Cardinality({i \in logged : d.ticks[i].verdict = "DISCARD"})
            /\ d.tally.last = IF logged = {} THEN None ELSE d.ticks[Max(logged)].iteration
            /\ d.tally.retryable # None <=> d.terminal \in {"INFRA_FAIL", "CONFIG_FAIL"}

(* services/walk_forward.py:444-447: overlapping test windows double-count *)
(* the same bars in the evidence, so such a configuration is refused.      *)
TestedOnce ==
    \A j \in Jobs : Working(j, "walk") =>
        \A f, g \in DOMAIN job[j].folds : f < g => ~Before(job[j].folds[g].from, job[j].folds[f].to)
=============================================================================
