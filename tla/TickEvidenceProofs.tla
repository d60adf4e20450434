------------------------- MODULE TickEvidenceProofs -------------------------
(***************************************************************************)
(* What Tick leaves on file, for every number of rows, ticks, cells and    *)
(* faults, where a tick ends within its poll cap and is not cancelled      *)
(* after its last write: a run can be resumed and its evidence is what was *)
(* submitted, the counter of a row keeps to the evidence and the budget, a *)
(* final verdict rests on an iteration of its own sweep, and the queue of  *)
(* grid rows implements SweepLedger.  The trial count of an iteration is   *)
(* honest, whatever other sweeps log on the same data universe meanwhile.  *)
(***************************************************************************)
EXTENDS TickProofs

(* The row points to a run that the next claim would pick up again.         *)
PointsAtLive(q) == queue[q].active # Null /\ runs[queue[q].active].state # "FAILED"

(* A tick in these steps has recorded a trial that no iteration backs yet.  *)
HasTrial(k) ==
    \/ k.pc \in {"submit", "store", "log"}
    \/ k.pc \in {"poll", "find"} /\ k.run \notin LoggedRuns

(* The trial in hand is the one a successor would find, with the combo of   *)
(* the run; the iteration in hand is that of the run.                      *)
TrialInHand(k) ==
    /\ HasTrial(k) => /\ k.audit # Null
                      /\ k.audit = LatestUnattached(k.row)
                      /\ audits[k.audit].cell = k.cell
    /\ HasTrial(k) /\ k.pc # "submit" => runs[k.run].cell = k.cell
    /\ k.pc \in {"attach", "decide"} => k.iter \in 1..Len(iters) /\ iters[k.iter].run = k.run

(* The row of a tick points to no other run that is still alive.            *)
KeepsPointer(k) ==
    /\ k.pc \in {"derive", "submit", "store"} => ~PointsAtLive(k.row)
    /\ k.pc \in {"poll", "find", "log", "attach", "decide"} =>
          (PointsAtLive(k.row) => queue[k.row].active = k.run)

Resumes(q) ==
    PointsAtLive(q) =>
        \/ queue[q].active \in LoggedRuns
        \/ /\ LatestUnattached(q) # Null
           /\ audits[LatestUnattached(q)].cell = runs[queue[q].active].cell

Recorded ==
    /\ EvidenceMatchesRun
    /\ \A a \in 1..Len(audits) : audits[a].iter # Null => audits[a].iter \in 1..Len(iters)
    /\ \A q \in Rows : Resumes(q)
    /\ \A t \in Ticks : TrialInHand(tick[t]) /\ KeepsPointer(tick[t])

(* RunsAreRecoverable speaks of rows; what a tick in flight holds of its    *)
(* row's trial, run and iteration makes it inductive.                      *)
RecordInv == LoggingInv /\ Recorded

(* The cell c of the sweep q is on file.                                    *)
Filed(q, c) == \E i \in 1..Len(iters) : iters[i].row = q /\ iters[i].cell = c

(* What the columns of a row owe to the tables.                             *)
RowSettled(q) ==
    LET row == queue[q] IN
    /\ Sampler[q] = "grid" => \A c \in 0..(CellsBehind(q) - 1) : Filed(q, c)
    /\ row.status \in {"RUNNING", "FAILED"} => row.iter <= IterBudget[q]
    /\ row.status = "PENDING" => row.iter < IterBudget[q]
    /\ row.status = "ABSENT" => row.iter = 0
    /\ row.status \in {"ABSENT", "FAILED"} => row.active = Null
    /\ row.status \in {"PENDING", "RUNNING"} /\ Sampler[q] = "grid" /\ row.active # Null
         => runs[row.active].cell = CellsBehind(q)
    /\ row.status = "COMPLETED" =>
         /\ row.last \in 1..Len(iters)
         /\ iters[row.last].row = q
         /\ (row.verdict = "DISCARD") <=> (iters[row.last].out.stat = "NO_EDGE")

(* The cell that the counter of a row is at is the one its tick works on,   *)
(* and a deciding tick has attached the iteration it decides on.           *)
WorksOn(k) ==
    k.pc \in ClaimedSteps =>
        /\ queue[k.row].status = "RUNNING" =>
              /\ queue[k.row].iter = k.prior + 1
              /\ Sampler[k.row] = "grid" =>
                    /\ k.pc = "submit" => k.cell = k.prior
                    /\ k.pc \in RunSteps => runs[k.run].cell = k.prior
        /\ k.pc = "decide" => queue[k.row].active = Null /\ queue[k.row].last = k.iter

Settled == (\A q \in Rows : RowSettled(q)) /\ (\A t \in Ticks : WorksOn(tick[t]))

(* CounterIsTrue and ConclusionJustified speak of rows at rest; in between, *)
(* the counter is one ahead of the cell that the tick in flight works on.  *)
SettledInv == RecordInv /\ Settled

---------------------------------------------------------------------------
(* Lemmas on the tables *)

(* Latest is the one position of a set that no other exceeds.               *)
LEMMA LatestIs ==
    ASSUME NEW n \in Nat, NEW S \in SUBSET (1..n), NEW m \in S, \A j \in S : j <= m
    PROVE  Latest(S) = m
<1>1. Latest(S) \in S /\ m <= Latest(S)
  BY LatestIsMax
<1>2. Latest(S) <= m
  BY <1>1
<1>3. m \in Nat /\ Latest(S) \in Nat
  <2>1. S \subseteq Nat
    OBVIOUS
  <2> QED
    BY <1>1, <2>1
<1> QED
  BY <1>1, <1>2, <1>3

(* A trial that is recorded is the one its row would be resumed with, and   *)
(* no other row takes notice.                                              *)
LEMMA NewTrial ==
    ASSUME audits \in Seq(Audit), NEW q, NEW a \in Audit,
           a.row = q, a.iter = Null, audits' = Append(audits, a)
    PROVE  /\ LatestUnattached(q)' = Len(audits) + 1
           /\ \A p : p # q => LatestUnattached(p)' = LatestUnattached(p)
<1> DEFINE n == Len(audits)
           Open(p) == {b \in 1..n : audits[b].row = p /\ audits[b].iter = Null}
           Open1(p) == {b \in 1..Len(audits') : audits'[b].row = p /\ audits'[b].iter = Null}
<1>1. /\ n \in Nat /\ n + 1 \in Nat /\ Len(audits') = n + 1
      /\ audits'[n + 1] = a
      /\ \A b \in 1..n : audits'[b] = audits[b]
  OBVIOUS
<1>2. \A p : LatestUnattached(p) = Latest(Open(p)) /\ LatestUnattached(p)' = Latest(Open1(p))
  BY DEF LatestUnattached
<1>3. \A p : p # q => Open1(p) = Open(p)
  BY <1>1
<1>4. /\ Open1(q) \in SUBSET (1..(n + 1)) /\ n + 1 \in Open1(q)
      /\ \A j \in Open1(q) : j <= n + 1
  BY <1>1
<1> HIDE DEF n, Open, Open1
<1>5. Latest(Open1(q)) = n + 1
  BY <1>1, <1>4, LatestIs
<1> QED
  BY <1>2, <1>3, <1>5 DEF n

(* A trial that gets its iteration concerns its own row only.               *)
LEMMA TrialAttached ==
    ASSUME audits \in Seq(Audit), NEW a \in 1..Len(audits), NEW i \in Ids,
           audits' = [audits EXCEPT ![a].iter = i]
    PROVE  /\ Len(audits') = Len(audits)
           /\ \A b \in 1..Len(audits) : b # a => audits'[b] = audits[b]
           /\ audits'[a].row = audits[a].row /\ audits'[a].cell = audits[a].cell
           /\ audits'[a].iter = i
           /\ \A p : p # audits[a].row => LatestUnattached(p)' = LatestUnattached(p)
<1>1. audits[a] \in [row : Rows, cell : Nat, iter : Ids \cup {Null}] /\ Len(audits) \in Nat
  <2>1. audits[a] \in Audit /\ Len(audits) \in Nat
    BY ElementOfSeq
  <2> QED
    BY <2>1 DEF Audit
<1>2. /\ Len(audits') = Len(audits)
      /\ \A b \in 1..Len(audits) : b # a => audits'[b] = audits[b]
      /\ audits'[a] = [audits[a] EXCEPT !.iter = i]
  BY <1>1
<1>3. /\ audits'[a].row = audits[a].row /\ audits'[a].cell = audits[a].cell
      /\ audits'[a].iter = i
  BY <1>1, <1>2
<1>4. ASSUME NEW p, p # audits[a].row
      PROVE  LatestUnattached(p)' = LatestUnattached(p)
  <2>1. {b \in 1..Len(audits') : audits'[b].row = p /\ audits'[b].iter = Null}
          = {b \in 1..Len(audits) : audits[b].row = p /\ audits[b].iter = Null}
    BY <1>2, <1>3, <1>4
  <2> QED
    BY <2>1 DEF LatestUnattached
<1> QED
  BY <1>2, <1>3, <1>4

(* A run that joins the log leaves every other row's runs where they are.   *)
LEMMA LogGrows ==
    ASSUME iters \in Seq(Iteration), NEW e, iters' = Append(iters, e)
    PROVE  /\ Len(iters') = Len(iters) + 1 /\ iters'[Len(iters) + 1] = e
           /\ \A i \in 1..Len(iters) : iters'[i] = iters[i]
           /\ LoggedRuns' = LoggedRuns \cup {e.run}
<1>1. /\ Len(iters) \in Nat
      /\ Len(iters') = Len(iters) + 1 /\ iters'[Len(iters) + 1] = e
      /\ \A i \in 1..Len(iters) : iters'[i] = iters[i]
  OBVIOUS
<1>2. 1..Len(iters') = (1..Len(iters)) \cup {Len(iters) + 1}
  BY <1>1
<1> QED
  BY <1>1, <1>2 DEF LoggedRuns

---------------------------------------------------------------------------
(* Runs are recoverable *)

(* Runs are only added, keep what was submitted, and never come back alive. *)
RunsKeepTrials ==
    /\ Len(runs) <= Len(runs')
    /\ \A r \in 1..Len(runs) :
        /\ runs'[r].row = runs[r].row
        /\ runs'[r].cell = runs[r].cell
        /\ runs[r].state = "FAILED" => runs'[r].state = "FAILED"

Obliged == ClaimedSteps \ {"resume"}

(* A step that neither records a trial nor logs: what is left to show is    *)
(* about the ticks and rows it moves on.                                   *)
LEMMA RecordKept ==
    ASSUME RecordInv, TypeInv', RunsKeepTrials, UNCHANGED <<audits, iters>>,
           \A q \in Rows : queue'[q].active \in {queue[q].active, Null} \/ Resumes(q)',
           \A t \in Ticks :
              \/ tick'[t].pc \notin Obliged
              \/ /\ tick'[t] = tick[t]
                 /\ queue'[tick[t].row].active \in {queue[tick[t].row].active, Null}
              \/ TrialInHand(tick[t])' /\ KeepsPointer(tick[t])'
    PROVE  Recorded'
<1>1. /\ LoggedRuns' = LoggedRuns
      /\ \A q : LatestUnattached(q)' = LatestUnattached(q)
      /\ \A q \in Rows : queue[q].active # Null => queue[q].active \in 1..Len(runs)
      /\ \A t \in Ticks : tick[t].pc \in RunSteps => tick[t].run \in 1..Len(runs)
      /\ \A t \in Ticks : tick[t].pc \in Obliged => tick[t].row \in Rows
      /\ \A i \in 1..Len(iters) : iters[i].run \in 1..Len(runs)
  BY DEF LoggedRuns, LatestUnattached, RecordInv, LoggingInv, ExclusionInv, TypeInv, Known,
     Owned, Obliged, ClaimedSteps
<1>2. EvidenceMatchesRun'
  BY <1>1 DEF RecordInv, Recorded, EvidenceMatchesRun, RunsKeepTrials
<1>3. \A a \in 1..Len(audits') : audits'[a].iter # Null => audits'[a].iter \in 1..Len(iters')
  BY DEF RecordInv, Recorded
<1>4. ASSUME NEW q \in Rows, queue'[q].active \in {queue[q].active, Null}, PointsAtLive(q)'
      PROVE  PointsAtLive(q) /\ queue'[q].active = queue[q].active
  BY <1>1, <1>4 DEF PointsAtLive, RunsKeepTrials
<1>5. ASSUME NEW q \in Rows
      PROVE  Resumes(q)'
  <2>1. CASE queue'[q].active \in {queue[q].active, Null}
    <3>1. Resumes(q)
      BY DEF RecordInv, Recorded
    <3> QED
      BY <1>1, <1>4, <2>1, <3>1 DEF Resumes, PointsAtLive, RunsKeepTrials
  <2> QED
    BY <2>1
<1>6. ASSUME NEW t \in Ticks
      PROVE  TrialInHand(tick[t])' /\ KeepsPointer(tick[t])'
  <2>1. CASE tick'[t].pc \notin Obliged
    BY <2>1 DEF TrialInHand, KeepsPointer, HasTrial, Obliged, ClaimedSteps
  <2>2. CASE /\ tick'[t].pc \in Obliged /\ tick'[t] = tick[t]
             /\ queue'[tick[t].row].active \in {queue[tick[t].row].active, Null}
    <3>1. TrialInHand(tick[t]) /\ KeepsPointer(tick[t]) /\ tick[t].row \in Rows
      BY <1>1, <2>2 DEF RecordInv, Recorded
    <3>2. TrialInHand(tick[t])'
      <4>1. HasTrial(tick[t])' => HasTrial(tick[t])
        BY <1>1, <2>2 DEF HasTrial
      <4>2. HasTrial(tick[t]) /\ tick[t].pc # "submit" => tick[t].run \in 1..Len(runs)
        BY <1>1 DEF HasTrial, RunSteps
      <4> QED
        BY <1>1, <2>2, <3>1, <4>1, <4>2 DEF TrialInHand, RunsKeepTrials
    <3>3. KeepsPointer(tick[t])'
      BY <1>4, <2>2, <3>1 DEF KeepsPointer
    <3> QED
      BY <3>2, <3>3
  <2> QED
    BY <2>1, <2>2
<1> QED
  BY <1>2, <1>3, <1>5, <1>6 DEF Recorded

(* A step of tick t that neither records a trial nor logs, and either lets  *)
(* go of its row or has shown what it holds.                               *)
LEMMA RecordTickKept ==
    ASSUME RecordInv, TypeInv', RunsKeepTrials, UNCHANGED <<audits, iters>>, NEW t \in Ticks,
           tick' = [tick EXCEPT ![t] = tick'[t]],
           \A q \in Rows : queue'[q].active \in {queue[q].active, Null},
           tick'[t].pc \notin Obliged \/ (TrialInHand(tick[t])' /\ KeepsPointer(tick[t])')
    PROVE  Recorded'
<1>1. \A u \in Ticks : u # t => tick'[u] = tick[u]
  BY DEF RecordInv, LoggingInv, ExclusionInv, TypeInv, TypeOK
<1>2. \A u \in Ticks : tick[u].pc \in Obliged => tick[u].row \in Rows
  BY DEF RecordInv, LoggingInv, ExclusionInv, TypeInv, Known, Obliged, ClaimedSteps
<1>3. \A u \in Ticks :
        \/ tick'[u].pc \notin Obliged
        \/ /\ tick'[u] = tick[u]
           /\ queue'[tick[u].row].active \in {queue[tick[u].row].active, Null}
        \/ TrialInHand(tick[u])' /\ KeepsPointer(tick[u])'
  BY <1>1, <1>2
<1> QED
  BY <1>3, RecordKept

(* The facts of the invariant that every step of a claimed tick needs.      *)
LEMMA RecordFacts ==
    ASSUME RecordInv
    PROVE  /\ TypeInv /\ LoggingInv /\ Recorded
           /\ tick \in [Ticks -> TickLocals] /\ queue \in [Rows -> QueueRow]
           /\ runs \in Seq(Run) /\ iters \in Seq(Iteration) /\ audits \in Seq(Audit)
           /\ Len(runs) \in Nat /\ Len(iters) \in Nat /\ Len(audits) \in Nat
           /\ \A t \in Ticks : tick[t].pc \notin {"idle", "claim"} => tick[t].row \in Rows
           /\ \A t \in Ticks : tick[t].pc \in RunSteps => /\ tick[t].run \in 1..Len(runs)
                                                          /\ runs[tick[t].run].row = tick[t].row
           /\ \A q \in Rows : queue[q].active # Null => queue[q].active \in 1..Len(runs)
           /\ \A t, u \in Ticks : /\ tick[t].pc \in ClaimedSteps /\ tick[u].pc \in ClaimedSteps
                                  /\ tick[t].row = tick[u].row
                                  => t = u
<1>1. TypeInv /\ LoggingInv /\ Recorded
  BY DEF RecordInv, LoggingInv, ExclusionInv
<1>2. /\ tick \in [Ticks -> TickLocals] /\ queue \in [Rows -> QueueRow]
      /\ runs \in Seq(Run) /\ iters \in Seq(Iteration) /\ audits \in Seq(Audit)
  BY <1>1 DEF TypeInv, TypeOK
<1>3. /\ \A t \in Ticks : tick[t].pc \notin {"idle", "claim"} => tick[t].row \in Rows
      /\ \A t \in Ticks : tick[t].pc \in RunSteps => tick[t].run \in 1..Len(runs)
      /\ \A q \in Rows : queue[q].active # Null => queue[q].active \in 1..Len(runs)
  BY <1>1 DEF TypeInv, Known
<1>4. \A t \in Ticks : tick[t].pc \in RunSteps => runs[tick[t].run].row = tick[t].row
  BY <1>1 DEF LoggingInv, Owned
<1>5. \A t, u \in Ticks : /\ tick[t].pc \in ClaimedSteps /\ tick[u].pc \in ClaimedSteps
                          /\ tick[t].row = tick[u].row
                          => t = u
  BY <1>1 DEF LoggingInv, ExclusionInv, Exclusive, OneTickPerRow, InFlight
<1> QED
  BY <1>1, <1>2, <1>3, <1>4, <1>5

(* resume_tick: what it takes over from a dead attempt is the run's own     *)
(* trial, and it derives a new combo only when no live run is left behind. *)
LEMMA RecordResume ==
    ASSUME RecordInv, TypeInv', NEW t \in Ticks, Resume(t)
    PROVE  Recorded'
<1> DEFINE k == tick[t]
           q == k.row
           r == k.run
           a == LatestUnattached(q)
           pc == IF runs[r].state = "COMPLETED" THEN "find" ELSE "poll"
           cell == IF a = Null THEN Null ELSE audits[a].cell
           m == CountTrials(k.row)
           l == [k EXCEPT !.pc = pc, !.audit = a, !.trials = m, !.cell = cell]
<1>1. /\ UNCHANGED <<queue, runs, audits, iters>> /\ k \in TickLocals /\ q \in Rows
      /\ r = queue[q].active
      /\ r # Null => r \in 1..Len(runs)
      /\ Resumes(q)
  <2>1. r = queue[q].active
    BY RecordFacts DEF Resume, LoggingInv, Owned
  <2> QED
    BY <2>1, RecordFacts DEF Resume, Recorded
<1>2. RunsKeepTrials /\ LoggedRuns' = LoggedRuns
  BY <1>1, RecordFacts DEF RunsKeepTrials, LoggedRuns
<1>3. r # Null => (PointsAtLive(q) <=> runs[r].state \in {"RUNNING", "COMPLETED"})
  <2>1. r # Null => runs[r] \in Run
    BY <1>1, RecordFacts, ElementOfSeq
  <2> QED
    BY <1>1, <2>1 DEF PointsAtLive, Run
<1>4. r \in LoggedRuns => FindIterationForRun(r) # Null
  BY RecordFacts, FoundIteration
<1>5. CASE ~Resumable(q, r)
  <2>1. ~PointsAtLive(q)
    BY <1>1, <1>3, <1>4, <1>5 DEF Resumable, Resumes, PointsAtLive
  <2>2. Goto(t, "derive")
    BY <1>5 DEF Resume
  <2>3. /\ tick' = [tick EXCEPT ![t] = tick'[t]]
        /\ tick'[t].pc = "derive" /\ tick'[t].row = q
    BY <2>2, RecordFacts, GotoMoves DEF ClaimedSteps
  <2>4. TrialInHand(tick[t])' /\ KeepsPointer(tick[t])'
    BY <1>1, <2>1, <2>3 DEF TrialInHand, HasTrial, KeepsPointer, PointsAtLive
  <2> QED
    BY <1>1, <1>2, <2>3, <2>4, RecordTickKept
<1>6. CASE Resumable(q, r)
  <2>1. tick' = [tick EXCEPT ![t] = l]
    BY <1>6, RecordFacts DEF Resume
  <2>2. l.pc = pc /\ l.row = q /\ l.run = r /\ l.audit = a /\ l.cell = cell
    <3> HIDE DEF k, pc, a, m, cell
    <3> QED
      BY <1>1 DEF TickLocals
  <2> HIDE DEF l
  <2>3. tick' = [tick EXCEPT ![t] = tick'[t]] /\ tick'[t] = l
    BY <2>1, RecordFacts
  <2>4. r # Null /\ PointsAtLive(q) /\ r \in 1..Len(runs)
    BY <1>1, <1>3, <1>6 DEF Resumable
  <2>5. r \notin LoggedRuns => a # Null /\ audits[a].cell = runs[r].cell
    BY <1>1, <2>4 DEF Resumes
  <2>6. \A p : LatestUnattached(p)' = LatestUnattached(p)
    BY <1>1 DEF LatestUnattached
  <2>7. TrialInHand(tick[t])'
    BY <1>1, <1>2, <2>2, <2>3, <2>5, <2>6 DEF TrialInHand, HasTrial
  <2>8. KeepsPointer(tick[t])'
    BY <1>1, <2>2, <2>3 DEF KeepsPointer
  <2> QED
    BY <1>1, <1>2, <2>3, <2>7, <2>8, RecordTickKept
<1> QED
  BY <1>5, <1>6

(* submit_backtest and set_active_run: the run carries the combo in hand,   *)
(* and the row points to it only with its trial on file.                   *)
LEMMA RecordSubmit ==
    ASSUME RecordInv, TypeInv', NEW t \in Ticks, SubmitAccepted(t) \/ StoreActiveRun(t)
    PROVE  Recorded'
<1> DEFINE k == tick[t]
<1>1. /\ k \in TickLocals /\ UNCHANGED <<audits, iters>> /\ k.pc \in {"submit", "store"}
      /\ LoggedRuns' = LoggedRuns
      /\ \A p : LatestUnattached(p)' = LatestUnattached(p)
      /\ k.row \in Rows /\ k.pc \in Obliged
  <2>1. UNCHANGED <<audits, iters>> /\ k.pc \in {"submit", "store"}
    BY DEF SubmitAccepted, StoreActiveRun
  <2> QED
    BY <2>1, RecordFacts DEF LoggedRuns, LatestUnattached, Obliged, ClaimedSteps
<1>2. TrialInHand(k) /\ HasTrial(k) /\ ~PointsAtLive(k.row)
  BY <1>1, RecordFacts DEF Recorded, HasTrial, KeepsPointer
<1>3. CASE SubmitAccepted(t)
  <2> DEFINE r == Len(runs) + 1
             l == [k EXCEPT !.pc = "store", !.run = r]
  <2>1. /\ UNCHANGED queue /\ runs' = Append(runs, NewRun(t))
        /\ tick' = [tick EXCEPT ![t] = l]
    BY <1>3, RecordFacts DEF SubmitAccepted
  <2>2. /\ RunsKeepTrials /\ runs'[r].cell = k.cell
        /\ \A s \in 1..Len(runs) : runs'[s] = runs[s]
    BY <2>1, RecordFacts DEF RunsKeepTrials, NewRun
  <2>3. /\ l.pc = "store" /\ l.row = k.row /\ l.run = r
        /\ l.audit = k.audit /\ l.cell = k.cell
    <3> HIDE DEF k, r
    <3> QED
      BY <1>1 DEF TickLocals
  <2> HIDE DEF l, r
  <2>4. tick' = [tick EXCEPT ![t] = tick'[t]] /\ tick'[t] = l
    BY <2>1, RecordFacts
  <2>5. TrialInHand(tick[t])'
    BY <1>1, <1>2, <2>2, <2>3, <2>4 DEF TrialInHand, HasTrial
  <2>6. ~PointsAtLive(k.row) => KeepsPointer(tick[t])'
    BY <1>1, <2>1, <2>2, <2>3, <2>4, RecordFacts DEF PointsAtLive, KeepsPointer
  <2> QED
    BY <1>1, <1>2, <2>1, <2>2, <2>4, <2>5, <2>6, RecordTickKept
<1>4. CASE StoreActiveRun(t)
  <2>1. /\ UNCHANGED runs /\ k.pc = "store" /\ SetActiveRun(k.row, k.run) /\ Goto(t, "poll")
        /\ RunsKeepTrials
    BY <1>4, RecordFacts DEF StoreActiveRun, RunsKeepTrials
  <2>2. /\ \A u \in Ticks : u # t => tick'[u] = tick[u]
        /\ tick'[t].pc = "poll" /\ tick'[t].run = k.run /\ tick'[t].row = k.row
        /\ tick'[t].audit = k.audit /\ tick'[t].cell = k.cell
    BY <2>1, RecordFacts, GotoMoves DEF ClaimedSteps
  <2>3. /\ \A q \in Rows : q # k.row => queue'[q] = queue[q]
        /\ queue'[k.row].active = k.run \/ queue' = queue
    <3>1. BecomesIfRunning(k.row, queue[k.row].status, queue[k.row].started,
                           queue[k.row].overdue, k.run)
      BY <1>1, <2>1, RecordFacts, StatementEffects
    <3> QED
      BY <3>1 DEF BecomesIfRunning, Becomes, Shows
  <2>4. k.run # Null /\ k.run \in 1..Len(runs)
    <3>1. k.run \in 1..Len(runs)
      BY <2>1, RecordFacts DEF RunSteps
    <3>2. 1..Len(runs) \subseteq Nat
      BY RecordFacts
    <3> QED
      BY <3>1, <3>2, QueueAssumption
  <2>5. TrialInHand(tick[t])'
    BY <1>1, <1>2, <2>1, <2>2 DEF TrialInHand, HasTrial
  <2>6. KeepsPointer(tick[t])'
    BY <1>2, <2>1, <2>2, <2>3 DEF KeepsPointer, PointsAtLive
  <2>7. ASSUME NEW q \in Rows
        PROVE  queue'[q].active \in {queue[q].active, Null} \/ Resumes(q)'
    <3>1. CASE q # k.row \/ queue' = queue
      BY <2>3, <3>1
    <3>2. CASE q = k.row /\ queue'[k.row].active = k.run
      BY <1>1, <1>2, <2>1, <3>2 DEF Resumes, TrialInHand
    <3> QED
      BY <2>3, <3>1, <3>2
  <2>8. ASSUME NEW u \in Ticks
        PROVE  \/ tick'[u].pc \notin Obliged
               \/ /\ tick'[u] = tick[u]
                  /\ queue'[tick[u].row].active \in {queue[tick[u].row].active, Null}
               \/ TrialInHand(tick[u])' /\ KeepsPointer(tick[u])'
    <3>1. CASE u = t
      BY <2>5, <2>6, <3>1
    <3>2. CASE u # t /\ tick[u].pc \in Obliged
      <4>1. tick[u].row # k.row /\ tick[u].row \in Rows
        BY <1>1, <3>2, RecordFacts DEF Obliged, ClaimedSteps
      <4> QED
        BY <2>2, <2>3, <3>2, <4>1
    <3> QED
      BY <2>2, <3>1, <3>2
  <2> QED
    BY <1>1, <2>1, <2>7, <2>8, RecordKept
<1> QED
  BY <1>3, <1>4

(* find_iteration_for_run and attach_iteration: the iteration that a tick   *)
(* goes on with is that of its run.                                        *)
LEMMA RecordFind ==
    ASSUME RecordInv, TypeInv', NEW t \in Ticks,
           PollCompleted(t) \/ FindIteration(t) \/ Attach(t)
    PROVE  Recorded'
<1> DEFINE k == tick[t]
<1>1. /\ k \in TickLocals /\ UNCHANGED <<runs, audits, iters>>
      /\ k.pc \in {"poll", "find", "attach"}
      /\ LoggedRuns' = LoggedRuns /\ RunsKeepTrials
      /\ \A p : LatestUnattached(p)' = LatestUnattached(p)
      /\ k.row \in Rows /\ k.pc \in Obliged
  <2>1. UNCHANGED <<runs, audits, iters>> /\ k.pc \in {"poll", "find", "attach"}
    BY DEF PollCompleted, FindIteration, Attach
  <2> QED
    BY <2>1, RecordFacts DEF LoggedRuns, LatestUnattached, Obliged, ClaimedSteps, RunsKeepTrials
<1>2. TrialInHand(k) /\ (PointsAtLive(k.row) => queue[k.row].active = k.run)
  BY <1>1, RecordFacts DEF Recorded, KeepsPointer
<1>3. \A q \in Rows : queue'[q].active \in {queue[q].active, Null}
  <2>1. CASE PollCompleted(t) \/ FindIteration(t)
    BY <2>1 DEF PollCompleted, FindIteration
  <2>2. CASE Attach(t)
    BY <1>1, <2>2, RecordFacts, StatementsKeepActive DEF Attach
  <2> QED
    BY <2>1, <2>2
<1>4. ASSUME tick'[t].row = k.row, tick'[t].run = k.run
      PROVE  KeepsPointer(tick[t])' \/ tick'[t].pc \in {"derive", "submit", "store"}
  BY <1>1, <1>2, <1>3, <1>4 DEF KeepsPointer, PointsAtLive
<1>5. CASE PollCompleted(t)
  <2>1. /\ tick' = [tick EXCEPT ![t] = tick'[t]]
        /\ tick'[t].pc = "find" /\ tick'[t].run = k.run /\ tick'[t].row = k.row
        /\ tick'[t].audit = k.audit /\ tick'[t].cell = k.cell /\ k.pc = "poll"
    BY <1>5, RecordFacts, GotoMoves DEF PollCompleted, ClaimedSteps
  <2>2. TrialInHand(tick[t])'
    BY <1>1, <1>2, <2>1 DEF TrialInHand, HasTrial
  <2> QED
    BY <1>1, <1>3, <1>4, <2>1, <2>2, RecordTickKept
<1>6. CASE FindIteration(t)
  <2> DEFINE i == FindIterationForRun(k.run)
             pc == IF i = Null THEN "log" ELSE "attach"
             l == [k EXCEPT !.pc = pc, !.iter = i]
  <2>1. tick' = [tick EXCEPT ![t] = l] /\ k.pc = "find"
    BY <1>6, RecordFacts DEF FindIteration
  <2>2. /\ l.pc = pc /\ l.row = k.row /\ l.run = k.run
        /\ l.audit = k.audit /\ l.cell = k.cell /\ l.iter = i
    <3> HIDE DEF k, pc, i
    <3> QED
      BY <1>1 DEF TickLocals
  <2>3. /\ pc = "log" => k.run \notin LoggedRuns
        /\ pc = "attach" => i \in 1..Len(iters) /\ iters[i].run = k.run
    BY RecordFacts, FoundIteration
  <2>4. pc \in {"log", "attach"}
    OBVIOUS
  <2> HIDE DEF l, pc, i
  <2>5. tick' = [tick EXCEPT ![t] = tick'[t]] /\ tick'[t] = l
    BY <2>1, RecordFacts
  <2>6. TrialInHand(tick[t])'
    BY <1>1, <1>2, <2>1, <2>2, <2>3, <2>4, <2>5 DEF TrialInHand, HasTrial
  <2> QED
    BY <1>1, <1>3, <1>4, <2>2, <2>4, <2>5, <2>6, RecordTickKept
<1>7. CASE Attach(t)
  <2>1. CASE FenceHolds(k.row, k.fence)
    <3>1. /\ tick' = [tick EXCEPT ![t] = tick'[t]]
          /\ tick'[t].pc = "decide" /\ tick'[t].run = k.run /\ tick'[t].row = k.row
          /\ tick'[t].iter = k.iter /\ k.pc = "attach"
      BY <1>7, <2>1, RecordFacts, GotoMoves DEF Attach, ClaimedSteps
    <3>2. TrialInHand(tick[t])'
      BY <1>1, <1>2, <3>1 DEF TrialInHand, HasTrial
    <3> QED
      BY <1>1, <1>3, <1>4, <3>1, <3>2, RecordTickKept
  <2>2. CASE ~FenceHolds(k.row, k.fence)
    <3>1. tick' = [tick EXCEPT ![t] = tick'[t]] /\ tick'[t].pc = "reply"
      BY <1>7, <2>2, RecordFacts, LeftMoves DEF Attach
    <3> QED
      BY <1>1, <1>3, <3>1, RecordTickKept DEF Obliged, ClaimedSteps
  <2> QED
    BY <2>1, <2>2
<1> QED
  BY <1>5, <1>6, <1>7

(* The insertion of the audit row: the new trial is the one to resume with, *)
(* which is harmless because no live run waits for an older one.           *)
LEMMA RecordRecord ==
    ASSUME RecordInv, TypeInv', NEW t \in Ticks, RecordTrial(t)
    PROVE  Recorded'
<1> DEFINE k == tick[t]
           n == Len(audits) + 1
<1>1. /\ k \in TickLocals /\ UNCHANGED <<queue, runs, iters>> /\ k.pc = "derive"
      /\ k.row \in Rows /\ LoggedRuns' = LoggedRuns /\ ~PointsAtLive(k.row)
  <2>1. UNCHANGED <<queue, runs, iters>> /\ k.pc = "derive"
    BY DEF RecordTrial
  <2> QED
    BY <2>1, RecordFacts DEF LoggedRuns, Recorded, KeepsPointer
<1>2. PICK c \in Nat :
        /\ audits' = Append(audits, [row |-> k.row, cell |-> c, iter |-> Null])
        /\ tick' = [tick EXCEPT ![t] = [k EXCEPT !.pc = "submit", !.cell = c,
                                                 !.trials = CountTrials(k.row),
                                                 !.audit = n]]
  <2>1. PICK c \in Combos(k.row, k.prior) :
          /\ audits' = Append(audits, [row |-> k.row, cell |-> c, iter |-> Null])
          /\ tick' = [tick EXCEPT ![t] = [k EXCEPT !.pc = "submit", !.cell = c,
                                                   !.trials = CountTrials(k.row),
                                                   !.audit = n]]
    BY RecordFacts DEF RecordTrial
  <2>2. k.prior \in Nat /\ Cells[k.row] \in Nat
    BY <1>1, TickAssumption DEF TickLocals
  <2>3. c \in Nat
    BY <2>1, <2>2 DEF Combos
  <2> QED
    BY <2>1, <2>3
<1> DEFINE a == [row |-> k.row, cell |-> c, iter |-> Null]
           m == CountTrials(k.row)
           l == [k EXCEPT !.pc = "submit", !.cell = c, !.trials = m, !.audit = n]
<1>3. a \in Audit /\ a.row = k.row /\ a.iter = Null /\ a.cell = c
  BY <1>1 DEF Audit
<1>4. l.pc = "submit" /\ l.row = k.row /\ l.audit = n /\ l.cell = c
  <2> HIDE DEF k, n, m
  <2> QED
    BY <1>1 DEF TickLocals
<1>5. tick' = [tick EXCEPT ![t] = l] /\ audits' = Append(audits, a)
  BY <1>2
<1> HIDE DEF a, l
<1>6. tick'[t] = l /\ \A u \in Ticks : u # t => tick'[u] = tick[u]
  BY <1>5, RecordFacts
<1>7. \A p : LatestUnattached(p)' = IF p = k.row THEN n ELSE LatestUnattached(p)
  <2> SUFFICES ASSUME NEW q, q = k.row
               PROVE  \A p : LatestUnattached(p)' = IF p = q THEN n ELSE LatestUnattached(p)
    OBVIOUS
  <2> HIDE DEF k
  <2> QED
    BY <1>3, <1>5, RecordFacts, NewTrial
<1>8. /\ Len(audits') = n /\ audits'[n] = a /\ n \in Nat /\ n # Null
      /\ \A b \in 1..Len(audits) : audits'[b] = audits[b]
  BY <1>5, RecordFacts, QueueAssumption
<1>9. EvidenceMatchesRun'
  <2>1. \A i \in 1..Len(iters) :
          {b \in 1..Len(audits') : audits'[b].iter = i}
            = {b \in 1..Len(audits) : audits[b].iter = i}
    BY <1>3, <1>8, RecordFacts, QueueAssumption
  <2>2. ASSUME NEW i \in 1..Len(iters)
        PROVE  \E b \in 1..Len(audits') :
                  /\ {d \in 1..Len(audits') : audits'[d].iter = i} = {b}
                  /\ audits'[b].row = iters[i].row
                  /\ audits'[b].cell = iters[i].cell
    <3>1. PICK b \in 1..Len(audits) :
            /\ {d \in 1..Len(audits) : audits[d].iter = i} = {b}
            /\ audits[b].row = iters[i].row
            /\ audits[b].cell = iters[i].cell
      BY RecordFacts DEF Recorded, EvidenceMatchesRun
    <3>2. audits'[b] = audits[b] /\ b \in 1..Len(audits')
      BY <1>8, RecordFacts
    <3> QED
      BY <2>1, <3>1, <3>2
  <2>3. EvidenceMatchesRun
    BY RecordFacts DEF Recorded
  <2> QED
    BY <1>1, <2>2, <2>3 DEF EvidenceMatchesRun
<1>10. \A b \in 1..Len(audits') : audits'[b].iter # Null => audits'[b].iter \in 1..Len(iters')
  <2>1. \A b \in 1..Len(audits) : audits[b].iter # Null => audits[b].iter \in 1..Len(iters)
    BY RecordFacts DEF Recorded
  <2>2. \A b \in 1..Len(audits') : b \in 1..Len(audits) \/ b = n
    BY <1>8, RecordFacts
  <2>3. Len(iters') = Len(iters)
    BY <1>1
  <2> HIDE DEF n
  <2> QED
    BY <1>3, <1>8, <2>1, <2>2, <2>3
<1>11. \A p : LatestUnattached(p) # Null => LatestUnattached(p) \in 1..Len(audits)
  BY RecordFacts, FoundTrial
<1>12. ASSUME NEW p \in Rows
       PROVE  Resumes(p)'
  <2>1. PointsAtLive(p)' <=> PointsAtLive(p)
    BY <1>1 DEF PointsAtLive
  <2>2. CASE p = k.row
    BY <1>1, <2>1, <2>2 DEF Resumes
  <2>3. CASE p # k.row
    BY <1>1, <1>7, <1>8, <1>11, <2>1, <2>3, RecordFacts DEF Recorded, Resumes
  <2> QED
    BY <2>2, <2>3
<1>13. \A p : ~PointsAtLive(p) => ~PointsAtLive(p)'
  BY <1>1 DEF PointsAtLive
<1>14. ASSUME NEW u \in Ticks
       PROVE  TrialInHand(tick[u])' /\ KeepsPointer(tick[u])'
  <2>1. CASE u = t
    <3>1. TrialInHand(tick[u])'
      BY <1>3, <1>4, <1>6, <1>7, <1>8, <2>1 DEF TrialInHand, HasTrial
    <3>2. KeepsPointer(tick[u])'
      BY <1>1, <1>4, <1>6, <1>13, <2>1 DEF KeepsPointer
    <3> QED
      BY <3>1, <3>2
  <2>2. CASE u # t
    <3>1. /\ TrialInHand(tick[u]) /\ KeepsPointer(tick[u]) /\ tick'[u] = tick[u]
          /\ HasTrial(tick[u])' <=> HasTrial(tick[u])
      BY <1>1, <1>6, <2>2, RecordFacts DEF Recorded, HasTrial
    <3>2. HasTrial(tick[u]) => tick[u].row # k.row
      BY <1>1, <2>2, RecordFacts DEF HasTrial, ClaimedSteps
    <3>3. TrialInHand(tick[u])'
      BY <1>1, <1>7, <1>8, <1>11, <3>1, <3>2 DEF TrialInHand
    <3>4. KeepsPointer(tick[u])'
      BY <1>1, <3>1 DEF KeepsPointer, PointsAtLive
    <3> QED
      BY <3>3, <3>4
  <2> QED
    BY <2>1, <2>2
<1> QED
  BY <1>9, <1>10, <1>12, <1>14 DEF Recorded

(* The iteration and the backfill of its audit row are one transaction: the *)
(* run is logged with its own row and cell, and its trial counts once.     *)
LEMMA RecordLog ==
    ASSUME RecordInv, TypeInv', NEW t \in Ticks, LogEvidence(t)
    PROVE  Recorded'
<1> DEFINE k == tick[t]
           a == k.audit
           n == Len(iters) + 1
           l == [k EXCEPT !.pc = "attach", !.iter = n]
<1>1. /\ k \in TickLocals /\ UNCHANGED <<queue, runs>> /\ k.pc = "log" /\ k.row \in Rows
      /\ k.run \in 1..Len(runs) /\ runs[k.run].row = k.row /\ runs[k.run].cell = k.cell
      /\ a # Null /\ a = LatestUnattached(k.row) /\ audits[a].cell = k.cell
      /\ k.run \notin LoggedRuns
      /\ PointsAtLive(k.row) => queue[k.row].active = k.run
  <2>1. UNCHANGED <<queue, runs>> /\ k.pc = "log"
    BY DEF LogEvidence
  <2>2. k.run \notin LoggedRuns
    BY <2>1, RecordFacts DEF LoggingInv, Owned
  <2> QED
    BY <2>1, <2>2, RecordFacts DEF RunSteps, Recorded, TrialInHand, HasTrial, KeepsPointer
<1>2. /\ a \in 1..Len(audits) /\ audits[a].row = k.row /\ audits[a].iter = Null
      /\ n \in Ids /\ n \in Nat
  BY <1>1, RecordFacts, FoundTrial DEF Ids
<1>3. /\ audits' = [audits EXCEPT ![a].iter = n]
      /\ tick' = [tick EXCEPT ![t] = l]
  BY <1>1, RecordFacts DEF LogEvidence
<1>4. PICK e : /\ iters' = Append(iters, e)
               /\ e.row = k.row /\ e.run = k.run /\ e.cell = k.cell
  BY DEF LogEvidence
<1>5. l.pc = "attach" /\ l.row = k.row /\ l.run = k.run /\ l.iter = n
  <2> HIDE DEF k, n
  <2> QED
    BY <1>1 DEF TickLocals
<1> HIDE DEF l
<1>6. tick'[t] = l /\ \A u \in Ticks : u # t => tick'[u] = tick[u]
  BY <1>3, RecordFacts
<1>7. /\ Len(audits') = Len(audits)
      /\ \A b \in 1..Len(audits) : b # a => audits'[b] = audits[b]
      /\ audits'[a].row = audits[a].row /\ audits'[a].cell = audits[a].cell
      /\ audits'[a].iter = n
      /\ \A p : p # k.row => LatestUnattached(p)' = LatestUnattached(p)
  <2> HIDE DEF a, n
  <2> QED
    BY <1>2, <1>3, RecordFacts, TrialAttached
<1>8. /\ Len(iters') = n /\ iters'[n] = e
      /\ \A i \in 1..Len(iters) : iters'[i] = iters[i]
      /\ LoggedRuns' = LoggedRuns \cup {k.run}
      /\ \A i \in 1..Len(iters') : i \in 1..Len(iters) \/ i = n
  BY <1>4, RecordFacts, LogGrows
<1>9. \A b \in 1..Len(audits) : audits[b].iter # Null => audits[b].iter \in 1..Len(iters)
  BY RecordFacts DEF Recorded
<1>10. EvidenceMatchesRun'
  <2>1. ASSUME NEW i \in 1..Len(iters)
        PROVE  /\ {b \in 1..Len(audits') : audits'[b].iter = i}
                    = {b \in 1..Len(audits) : audits[b].iter = i}
               /\ audits[a].iter # i
    <3>1. i # n /\ i # Null
      BY <1>2, RecordFacts, QueueAssumption
    <3> QED
      BY <1>2, <1>7, <3>1
  <2>2. {b \in 1..Len(audits') : audits'[b].iter = n} = {a}
    <3>1. n \notin 1..Len(iters) /\ n # Null
      BY <1>2, RecordFacts, QueueAssumption
    <3>2. \A b \in 1..Len(audits) : audits[b].iter # n
      BY <1>9, <3>1
    <3> QED
      BY <1>2, <1>7, <3>2
  <2>3. ASSUME NEW i \in 1..Len(iters)
        PROVE  /\ iters'[i].row = runs'[iters'[i].run].row
               /\ iters'[i].cell = runs'[iters'[i].run].cell
               /\ \E b \in 1..Len(audits') :
                    /\ {d \in 1..Len(audits') : audits'[d].iter = i} = {b}
                    /\ audits'[b].row = iters'[i].row
                    /\ audits'[b].cell = iters'[i].cell
    <3>1. PICK b \in 1..Len(audits) :
            /\ {d \in 1..Len(audits) : audits[d].iter = i} = {b}
            /\ audits[b].row = iters[i].row
            /\ audits[b].cell = iters[i].cell
      BY RecordFacts DEF Recorded, EvidenceMatchesRun
    <3>2. b # a
      BY <2>1, <3>1
    <3>3. iters[i].row = runs[iters[i].run].row /\ iters[i].cell = runs[iters[i].run].cell
      BY RecordFacts DEF Recorded, EvidenceMatchesRun
    <3>4. audits'[b] = audits[b] /\ b \in 1..Len(audits') /\ iters'[i] = iters[i]
      BY <1>7, <1>8, <3>2
    <3> QED
      BY <1>1, <2>1, <3>1, <3>3, <3>4
  <2>4. /\ iters'[n].row = runs'[iters'[n].run].row
        /\ iters'[n].cell = runs'[iters'[n].run].cell
        /\ a \in 1..Len(audits')
        /\ audits'[a].row = iters'[n].row /\ audits'[a].cell = iters'[n].cell
    BY <1>1, <1>2, <1>4, <1>7, <1>8
  <2> HIDE DEF n, a, k
  <2>5. ASSUME NEW i \in 1..Len(iters')
        PROVE  /\ iters'[i].row = runs'[iters'[i].run].row
               /\ iters'[i].cell = runs'[iters'[i].run].cell
               /\ \E b \in 1..Len(audits') :
                    /\ {d \in 1..Len(audits') : audits'[d].iter = i} = {b}
                    /\ audits'[b].row = iters'[i].row
                    /\ audits'[b].cell = iters'[i].cell
    <3>1. CASE i \in 1..Len(iters)
      BY <2>3, <3>1
    <3>2. CASE i = n
      BY <2>2, <2>4, <3>2
    <3> QED
      BY <1>8, <3>1, <3>2
  <2> QED
    BY <2>5 DEF EvidenceMatchesRun
<1>11. \A b \in 1..Len(audits') : audits'[b].iter # Null => audits'[b].iter \in 1..Len(iters')
  BY <1>2, <1>7, <1>8, <1>9, RecordFacts
<1>12. \A p : LatestUnattached(p) # Null => LatestUnattached(p) \in 1..Len(audits)
  BY RecordFacts, FoundTrial
<1>13. \A b \in 1..Len(audits) : audits'[b].cell = audits[b].cell
  BY <1>7
<1>14. ASSUME NEW p \in Rows
       PROVE  Resumes(p)'
  <2>1. PointsAtLive(p)' <=> PointsAtLive(p)
    BY <1>1 DEF PointsAtLive
  <2>2. CASE p = k.row
    BY <1>1, <1>8, <2>1, <2>2 DEF Resumes
  <2>3. CASE p # k.row
    BY <1>1, <1>7, <1>8, <1>12, <1>13, <2>1, <2>3, RecordFacts DEF Recorded, Resumes
  <2> QED
    BY <2>2, <2>3
<1>15. ASSUME NEW u \in Ticks
       PROVE  TrialInHand(tick[u])' /\ KeepsPointer(tick[u])'
  <2>1. CASE u = t
    <3>1. TrialInHand(tick[u])'
      BY <1>2, <1>4, <1>5, <1>6, <1>8, <2>1 DEF TrialInHand, HasTrial
    <3>2. KeepsPointer(tick[u])'
      BY <1>1, <1>5, <1>6, <2>1 DEF KeepsPointer, PointsAtLive
    <3> QED
      BY <3>1, <3>2
  <2>2. CASE u # t
    <3>1. /\ TrialInHand(tick[u]) /\ KeepsPointer(tick[u]) /\ tick'[u] = tick[u]
          /\ HasTrial(tick[u])' => HasTrial(tick[u])
      BY <1>6, <1>8, <2>2, RecordFacts DEF Recorded, HasTrial
    <3>2. HasTrial(tick[u]) => tick[u].row # k.row
      BY <1>1, <2>2, RecordFacts DEF HasTrial, ClaimedSteps
    <3>3. TrialInHand(tick[u])'
      <4>1. HasTrial(tick[u])' => /\ tick[u].audit # Null
                                  /\ tick[u].audit = LatestUnattached(tick[u].row)'
                                  /\ audits'[tick[u].audit].cell = tick[u].cell
        BY <1>7, <1>12, <1>13, <3>1, <3>2 DEF TrialInHand
      <4>2. tick[u].pc \in {"attach", "decide"} =>
              tick[u].iter \in 1..Len(iters') /\ iters'[tick[u].iter].run = tick[u].run
        BY <1>8, <3>1, RecordFacts DEF TrialInHand
      <4> QED
        BY <1>1, <3>1, <4>1, <4>2 DEF TrialInHand
    <3>4. KeepsPointer(tick[u])'
      BY <1>1, <3>1 DEF KeepsPointer, PointsAtLive
    <3> QED
      BY <3>3, <3>4
  <2> QED
    BY <2>1, <2>2
<1> QED
  BY <1>10, <1>11, <1>14, <1>15 DEF Recorded

(* Every step of a tick keeps the record, one lemma per kind of step.       *)
LEMMA RecordTickStep ==
    ASSUME RecordInv, TypeInv', NEW t \in Ticks, TickStep(t) \/ Mishap(t)
    PROVE  Recorded'
<1> DEFINE k == tick[t]
<1>1. /\ queue \in [Rows -> QueueRow]
      /\ k.pc \notin {"idle", "claim"} => k.row \in Rows
      /\ UNCHANGED runs => RunsKeepTrials
      /\ runs' = Append(runs, NewRun(t)) => RunsKeepTrials
      /\ TypeInv
  <2>1. ASSUME runs' = Append(runs, NewRun(t))
        PROVE  RunsKeepTrials
    <3>1. /\ Len(runs') = Len(runs) + 1
          /\ \A r \in 1..Len(runs) : runs'[r] = runs[r]
      BY <2>1, RecordFacts
    <3> QED
      BY <3>1, RecordFacts DEF RunsKeepTrials
  <2> QED
    BY <2>1, RecordFacts DEF RunsKeepTrials
<1>2. ASSUME UNCHANGED <<audits, iters>>, RunsKeepTrials,
             tick' = [tick EXCEPT ![t] = tick'[t]], tick'[t].pc \notin Obliged,
             \A q \in Rows : queue'[q].active \in {queue[q].active, Null}
      PROVE  Recorded'
  BY <1>2, RecordTickKept
<1>3. \A pc \in {"idle", "claim", "rollback", "reply", "resume"} : pc \notin Obliged
  BY DEF Obliged, ClaimedSteps
<1>4. CASE Recover(t)
  <2>1. UNCHANGED <<runs, audits, iters>> /\ Goto(t, "claim") /\ RecoverStuck
    BY <1>4 DEF Recover
  <2>2. tick' = [tick EXCEPT ![t] = tick'[t]] /\ tick'[t].pc = "claim"
    BY <1>1, <2>1, GotoMoves
  <2> QED
    BY <1>1, <1>2, <1>3, <2>1, <2>2, StatementsKeepActive
<1>5. CASE Claim(t)
  <2>1. PICK q \in Rows, now \in Fences :
          /\ ClaimRow(q, now)
          /\ tick' = [tick EXCEPT ![t] =
                [IdleTick EXCEPT !.pc = "resume", !.row = q, !.fence = now,
                                 !.prior = queue[q].iter, !.run = queue[q].active]]
    BY <1>5 DEF Claim, FirstPending
  <2>2. tick' = [tick EXCEPT ![t] = tick'[t]] /\ tick'[t].pc = "resume"
    BY <2>1, RecordFacts DEF IdleTick
  <2>3. UNCHANGED <<runs, audits, iters>>
    BY <1>5 DEF Claim
  <2> QED
    BY <1>1, <1>2, <1>3, <2>1, <2>2, <2>3, StatementsKeepActive
<1>6. CASE EmptyQueue(t)
  <2>1. UNCHANGED <<queue, runs, audits, iters>> /\ Goto(t, "idle")
    BY <1>6 DEF EmptyQueue
  <2>2. tick' = [tick EXCEPT ![t] = tick'[t]] /\ tick'[t].pc = "idle"
    BY <1>1, <2>1, GotoMoves
  <2> QED
    BY <1>1, <1>2, <1>3, <2>1, <2>2
<1>7. CASE Exhausted(t) \/ PollDead(t) \/ PollCapExpires(t) \/ DecideNextState(t)
           \/ Rollback(t) \/ ConfigError(t)
  <2>1. /\ k.row \in Rows /\ UNCHANGED <<runs, audits, iters>>
        /\ \/ RollbackIter(k.row) \/ ResetToPending(k.row)
           \/ ParkExhausted(k.row) \/ FailQueue(k.row)
           \/ \E final : CompleteQueue(k.row, final)
    BY <1>1, <1>7 DEF Exhausted, PollDead, PollCapExpires, DecideNextState, Rollback,
       ConfigError
  <2>2. \A q \in Rows : queue'[q].active \in {queue[q].active, Null}
    BY <1>1, <2>1, StatementsKeepActive
  <2>3. LetsGo(t)
    BY <1>1, <1>7, GoesOnOrLetsGo
  <2> QED
    BY <1>1, <1>2, <1>3, <2>1, <2>2, <2>3 DEF LetsGo
<1>8. CASE Reply(t) \/ RollbackFails(t)
  <2>1. UNCHANGED <<queue, runs, audits, iters>> /\ LetsGo(t)
    BY <1>1, <1>8, GoesOnOrLetsGo DEF Reply, RollbackFails
  <2> QED
    BY <1>1, <1>2, <1>3, <2>1 DEF LetsGo
<1>9. CASE SubmitUnanswered(t) \/ TickFails(t)
  <2>1. /\ UNCHANGED <<queue, audits, iters>>
        /\ runs' = Append(runs, NewRun(t)) \/ UNCHANGED runs
        /\ tick' = [tick EXCEPT ![t] = Left(t, "rollback")]
    BY <1>9 DEF SubmitUnanswered, TickFails
  <2>2. tick' = [tick EXCEPT ![t] = tick'[t]] /\ tick'[t].pc = "rollback"
    BY <1>1, <2>1, LeftMoves
  <2> QED
    BY <1>1, <1>2, <1>3, <2>1, <2>2
<1> QED
  BY <1>4, <1>5, <1>6, <1>7, <1>8, <1>9, RecordResume, RecordSubmit, RecordFind, RecordRecord,
     RecordLog
  DEF TickStep, Mishap

(* A run that ends keeps its row and its combo.                             *)
LEMMA RunsEnd ==
    ASSUME RecordInv, NEW r \in 1..Len(runs), RunCompletes(r) \/ RunFails(r)
    PROVE  RunsKeepTrials
<1>1. runs \in Seq(Run) /\ Len(runs) \in Nat
  BY RecordFacts
<1>2. PICK state : /\ runs' = [runs EXCEPT ![r] = [runs[r] EXCEPT !.state = state]]
                   /\ runs[r].state = "RUNNING"
  BY <1>1 DEF RunCompletes, RunFails
<1>3. /\ [runs[r] EXCEPT !.state = state].row = runs[r].row
      /\ [runs[r] EXCEPT !.state = state].cell = runs[r].cell
  <2>1. runs[r] \in Run
    BY <1>1, ElementOfSeq
  <2> QED
    BY <2>1 DEF Run
<1>4. /\ Len(runs') = Len(runs)
      /\ \A j \in 1..Len(runs) : j # r => runs'[j] = runs[j]
      /\ runs'[r] = [runs[r] EXCEPT !.state = state]
  BY <1>1, <1>2
<1> QED
  BY <1>1, <1>2, <1>3, <1>4 DEF RunsKeepTrials

(* Every step keeps the record: the JVM, the operator and the clock too.    *)
LEMMA RecordStep ==
    ASSUME ~SlowTicks, ~LateCancel
    PROVE  RecordInv /\ [Next]_vars => RecordInv'
<1> SUFFICES ASSUME RecordInv, [Next]_vars
             PROVE  RecordInv'
  OBVIOUS
<1>1. LoggingInv' /\ TypeInv'
  BY LoggingStep DEF RecordInv, LoggingInv, ExclusionInv
<1> SUFFICES Recorded'
  BY <1>1 DEF RecordInv
<1>2. /\ queue \in [Rows -> QueueRow] /\ runs \in Seq(Run) /\ Len(runs) \in Nat
      /\ UNCHANGED runs => RunsKeepTrials
      /\ \A u \in Ticks : tick[u].pc \in Obliged => tick[u].row \in Rows
  BY RecordFacts DEF RunsKeepTrials, Obliged, ClaimedSteps
<1>3. ASSUME UNCHANGED <<tick, audits, iters>>, RunsKeepTrials,
             \A p \in Rows : queue'[p].active \in {queue[p].active, Null}
      PROVE  Recorded'
  BY <1>1, <1>2, <1>3, RecordKept
<1>4. CASE UNCHANGED vars
  BY <1>2, <1>3, <1>4 DEF vars
<1>5. ASSUME NEW q \in Rows, OperatorStep(q)
      PROVE  Recorded'
  <2>1. /\ UNCHANGED <<tick, runs, audits, iters>>
        /\ InsertQueue(q) \/ CancelQueue(q) \/ RequeueFailed(q)
    BY <1>5 DEF OperatorStep, Enqueue, Cancel, Requeue
  <2>2. \A p \in Rows : queue'[p].active \in {queue[p].active, Null}
    BY <1>2, <2>1, StatementsKeepActive
  <2> QED
    BY <1>2, <1>3, <2>1, <2>2
<1>6. ASSUME NEW q \in Rows, ClaimAges(q)
      PROVE  Recorded'
  <2>1. UNCHANGED <<tick, runs, audits, iters>>
    BY <1>6 DEF ClaimAges
  <2>2. \A p \in Rows : queue'[p].active = queue[p].active
    BY <1>2, <1>6 DEF ClaimAges, QueueRow
  <2> QED
    BY <1>2, <1>3, <2>1, <2>2
<1>7. ASSUME NEW r \in 1..Len(runs), RunCompletes(r) \/ RunFails(r)
      PROVE  Recorded'
  <2>1. UNCHANGED <<queue, tick, audits, iters>>
    BY <1>7 DEF RunCompletes, RunFails
  <2>2. RunsKeepTrials
    BY <1>7, RunsEnd
  <2> QED
    BY <1>3, <2>1, <2>2
<1>8. CASE ProcessDies
  <2>1. UNCHANGED <<queue, runs, audits, iters>> /\ tick' = [t \in Ticks |-> IdleTick]
    BY <1>8 DEF ProcessDies
  <2>2. \A t \in Ticks : tick'[t].pc \notin Obliged
    BY <2>1 DEF IdleTick, Obliged, ClaimedSteps
  <2> QED
    BY <1>1, <1>2, <2>1, <2>2, RecordKept
<1>9. CASE \E t \in Ticks : TickStep(t) \/ Mishap(t)
  BY <1>1, <1>9, RecordTickStep
<1> QED
  BY <1>4, <1>5, <1>6, <1>7, <1>8, <1>9 DEF Next

(* Nothing is on record at the start.                                       *)
LEMMA RecordStart == TickInit => RecordInv
<1> SUFFICES ASSUME TickInit
             PROVE  RecordInv
  OBVIOUS
<1>1. \A t \in Ticks : TrialInHand(tick[t]) /\ KeepsPointer(tick[t])
  BY DEF TickInit, IdleTick, TrialInHand, HasTrial, KeepsPointer
<1>2. \A q \in Rows : Resumes(q)
  BY DEF TickInit, QueueInit, NoRow, Resumes, PointsAtLive
<1>3. Len(iters) = 0 /\ Len(audits) = 0
  BY DEF TickInit
<1>4. EvidenceMatchesRun
  BY <1>3 DEF EvidenceMatchesRun
<1> QED
  BY <1>1, <1>2, <1>3, <1>4, LoggingStart DEF RecordInv, Recorded

(* A run is not lost between its ticks.  Whatever dies in between, what is  *)
(* logged of it carries the row and the combo it was submitted with and     *)
(* counts once as a trial, and the next claim of a row whose run lives      *)
(* finds its iteration or its own audit row: the branch                     *)
(* tick.active_run_unresumable is never reached.                            *)
THEOREM NoRunIsLost ==
    ASSUME ~SlowTicks, ~LateCancel
    PROVE  Spec => []RunsAreRecoverable
<1>1. RecordInv => RunsAreRecoverable
  <2> SUFFICES ASSUME RecordInv
               PROVE  RunsAreRecoverable
    OBVIOUS
  <2>1. EvidenceMatchesRun
    BY RecordFacts DEF Recorded
  <2>2. ActiveRunIsResumable
    <3> SUFFICES ASSUME NEW q \in Rows, queue[q].active # Null,
                        runs[queue[q].active].state # "FAILED"
                 PROVE  /\ runs[queue[q].active].row = q
                        /\ \/ FindIterationForRun(queue[q].active) # Null
                           \/ /\ LatestUnattached(q) # Null
                              /\ audits[LatestUnattached(q)].cell = runs[queue[q].active].cell
      BY DEF ActiveRunIsResumable
    <3>1. runs[queue[q].active].row = q
      BY RecordFacts DEF LoggingInv, Owned
    <3>2. Resumes(q) /\ PointsAtLive(q)
      BY RecordFacts DEF Recorded, PointsAtLive
    <3>3. queue[q].active \in LoggedRuns => FindIterationForRun(queue[q].active) # Null
      BY RecordFacts, FoundIteration
    <3> QED
      BY <3>1, <3>2, <3>3 DEF Resumes
  <2> QED
    BY <2>1, <2>2 DEF RunsAreRecoverable
<1> QED
  BY <1>1, RecordStart, RecordStep, PTL DEF Spec

---------------------------------------------------------------------------
(* Counters and conclusions *)

(* The columns that count and conclude, after a statement on q.             *)
Has(row, status, iter, active, last, verdict) ==
    /\ row.status = status
    /\ row.iter = iter
    /\ row.active = active
    /\ row.last = last
    /\ row.verdict = verdict

Sets(q, status, iter, active, last, verdict) ==
    /\ \A p \in Rows \ {q} : queue'[p] = queue[p]
    /\ Has(queue'[q], status, iter, active, last, verdict)

SetsIfRunning(q, status, iter, active, last, verdict) ==
    IF queue[q].status = "RUNNING"
    THEN Sets(q, status, iter, active, last, verdict)
    ELSE UNCHANGED queue

(* What each statement does to those columns.                               *)
LEMMA CounterEffects ==
    ASSUME queue \in [Rows -> QueueRow], NEW q \in Rows
    PROVE
        LET r == queue[q] IN
        /\ InsertQueue(q) => Sets(q, "PENDING", r.iter, r.active, r.last, r.verdict)
        /\ \A now : ClaimRow(q, now) =>
                Sets(q, "RUNNING", r.iter + 1, r.active, r.last, r.verdict)
        /\ RollbackIter(q) =>
                SetsIfRunning(q, "PENDING", Decrement(r.iter), r.active, r.last, r.verdict)
        /\ ResetToPending(q) =>
                SetsIfRunning(q, "PENDING", r.iter, r.active, r.last, r.verdict)
        /\ ParkExhausted(q) =>
                SetsIfRunning(q, "PARKED", r.iter, Null, r.last, r.verdict)
        /\ FailQueue(q) =>
                SetsIfRunning(q, "FAILED", r.iter, Null, r.last, r.verdict)
        /\ \A final : CompleteQueue(q, final) =>
                SetsIfRunning(q, "COMPLETED", r.iter, Null, r.last, final)
        /\ \A run : SetActiveRun(q, run) =>
                SetsIfRunning(q, r.status, r.iter, run, r.last, r.verdict)
        /\ CancelQueue(q) => Sets(q, "PARKED", r.iter, r.active, r.last, r.verdict)
        /\ RequeueFailed(q) =>
                Sets(q, "PENDING", Decrement(r.iter), r.active, r.last, r.verdict)
        /\ \A i, fence : AttachIteration(q, i, fence) =>
                IF FenceHolds(q, fence)
                THEN Sets(q, r.status, r.iter, Null, i, r.verdict)
                ELSE UNCHANGED queue
<1> DEFINE r == queue[q]
<1>1. r \in QueueRow
  OBVIOUS
<1>2. \A s, status, iter, active, last, verdict :
          Update(q, s) /\ Has(s, status, iter, active, last, verdict)
            => Sets(q, status, iter, active, last, verdict)
  BY DEF Update, Sets
<1>3. \A s, status, iter, active, last, verdict :
          WhileRunning(q, s) /\ Has(s, status, iter, active, last, verdict)
            => SetsIfRunning(q, status, iter, active, last, verdict)
  BY <1>2 DEF WhileRunning, SetsIfRunning
<1>4. ASSUME NEW s \in QueueRow
      PROVE  /\ \A n : Has([s EXCEPT !.status = "PENDING", !.order = n],
                           "PENDING", s.iter, s.active, s.last, s.verdict)
             /\ \A now : Has([s EXCEPT !.status = "RUNNING", !.iter = @ + 1, !.started = now,
                                       !.overdue = FALSE],
                             "RUNNING", s.iter + 1, s.active, s.last, s.verdict)
             /\ Has([s EXCEPT !.status = "PENDING", !.overdue = FALSE, !.iter = Decrement(@)],
                    "PENDING", Decrement(s.iter), s.active, s.last, s.verdict)
             /\ Has([s EXCEPT !.status = "PENDING", !.overdue = FALSE],
                    "PENDING", s.iter, s.active, s.last, s.verdict)
             /\ Has([s EXCEPT !.status = "PARKED", !.overdue = FALSE, !.active = Null],
                    "PARKED", s.iter, Null, s.last, s.verdict)
             /\ Has([s EXCEPT !.status = "FAILED", !.overdue = FALSE, !.active = Null],
                    "FAILED", s.iter, Null, s.last, s.verdict)
  BY <1>4 DEF QueueRow, Has
<1>5. ASSUME NEW s \in QueueRow
      PROVE  /\ \A final : Has([s EXCEPT !.status = "COMPLETED", !.overdue = FALSE,
                                         !.active = Null, !.verdict = final],
                               "COMPLETED", s.iter, Null, s.last, final)
             /\ \A run : Has([s EXCEPT !.active = run],
                             s.status, s.iter, run, s.last, s.verdict)
             /\ Has([s EXCEPT !.status = "PARKED", !.overdue = FALSE],
                    "PARKED", s.iter, s.active, s.last, s.verdict)
             /\ Has([s EXCEPT !.status = "PENDING", !.iter = Decrement(@)],
                    "PENDING", Decrement(s.iter), s.active, s.last, s.verdict)
             /\ \A i : Has([s EXCEPT !.last = i, !.active = Null],
                           s.status, s.iter, Null, i, s.verdict)
  BY <1>5 DEF QueueRow, Has
<1> HIDE DEF r
<1>6. /\ InsertQueue(q) => Sets(q, "PENDING", r.iter, r.active, r.last, r.verdict)
      /\ \A now : ClaimRow(q, now) =>
              Sets(q, "RUNNING", r.iter + 1, r.active, r.last, r.verdict)
  BY <1>1, <1>2, <1>4 DEF InsertQueue, ClaimRow, r
<1>7. RollbackIter(q) =>
        SetsIfRunning(q, "PENDING", Decrement(r.iter), r.active, r.last, r.verdict)
  BY <1>1, <1>3, <1>4 DEF RollbackIter, r
<1>8. ResetToPending(q) => SetsIfRunning(q, "PENDING", r.iter, r.active, r.last, r.verdict)
  BY <1>1, <1>3, <1>4 DEF ResetToPending, r
<1>9. /\ ParkExhausted(q) => SetsIfRunning(q, "PARKED", r.iter, Null, r.last, r.verdict)
      /\ FailQueue(q) => SetsIfRunning(q, "FAILED", r.iter, Null, r.last, r.verdict)
  BY <1>1, <1>3, <1>4 DEF ParkExhausted, FailQueue, r
<1>10. \A final : CompleteQueue(q, final) =>
         SetsIfRunning(q, "COMPLETED", r.iter, Null, r.last, final)
  BY <1>1, <1>3, <1>5 DEF CompleteQueue, r
<1>11. \A run : SetActiveRun(q, run) =>
         SetsIfRunning(q, r.status, r.iter, run, r.last, r.verdict)
  BY <1>1, <1>3, <1>5 DEF SetActiveRun, r
<1>12. CancelQueue(q) => Sets(q, "PARKED", r.iter, r.active, r.last, r.verdict)
  BY <1>1, <1>2, <1>5 DEF CancelQueue, r
<1>13. RequeueFailed(q) =>
         Sets(q, "PENDING", Decrement(r.iter), r.active, r.last, r.verdict)
  BY <1>1, <1>2, <1>5 DEF RequeueFailed, r
<1>14. \A i, fence : AttachIteration(q, i, fence) =>
         IF FenceHolds(q, fence)
         THEN Sets(q, r.status, r.iter, Null, i, r.verdict)
         ELSE UNCHANGED queue
  BY <1>1, <1>2, <1>5 DEF AttachIteration, r
<1> QED
  BY <1>6, <1>7, <1>8, <1>9, <1>10, <1>11, <1>12, <1>13, <1>14 DEF r

(* Runs and iterations are only added.                                      *)
TablesKeep ==
    /\ RunsKeepTrials
    /\ Len(iters) <= Len(iters')
    /\ \A i \in 1..Len(iters) : iters'[i] = iters[i]

(* The moves of a row that are not the outcome of its sweep's decision and  *)
(* bring no new run: the cells behind it stay the same, or it is parked.   *)
RowMoves(r, s) ==
    /\ s.active \in {r.active, Null}
    /\ \/ s = r
       \/ s.status = r.status /\ s.iter = r.iter /\ r.status # "COMPLETED"
       \/ r.status = "PENDING" /\ s.status = "RUNNING" /\ s.iter = r.iter + 1
       \/ r.status \in {"RUNNING", "FAILED"} /\ s.status = "PENDING" /\ s.iter = Decrement(r.iter)
       \/ r.status = "RUNNING" /\ s.status = "FAILED" /\ s.iter = r.iter /\ s.active = Null
       \/ s.status = "PARKED"
       \/ r.status = "ABSENT" /\ s.status = "PENDING" /\ s.iter = r.iter

(* The facts of the invariant that the steps below need of a row.           *)
LEMMA SettledFacts ==
    ASSUME SettledInv
    PROVE  /\ RecordInv
           /\ \A q \in Rows : RowSettled(q)
           /\ \A t \in Ticks : WorksOn(tick[t])
           /\ \A q \in Rows : /\ queue[q] \in QueueRow
                              /\ queue[q].iter \in Nat
                              /\ IterBudget[q] \in Nat \ {0} /\ Cells[q] \in Nat \ {0}
BY RecordFacts, TickAssumption DEF SettledInv, Settled, QueueRow

(* What is on file stays on file.                                           *)
LEMMA FiledKept ==
    ASSUME TablesKeep, iters \in Seq(Iteration), iters' \in Seq(Iteration), NEW q, NEW c, Filed(q, c)
    PROVE  Filed(q, c)'
<1>1. Len(iters) \in Nat /\ Len(iters') \in Nat
  OBVIOUS
<1> QED
  BY <1>1 DEF Filed, TablesKeep

(* None of these moves changes the cells behind a row, unless it parks it.  *)
LEMMA CellsBehindKept ==
    ASSUME SettledInv, TypeInv', NEW q \in Rows, RowMoves(queue[q], queue'[q])
    PROVE  CellsBehind(q)' = CellsBehind(q) \/ queue'[q].status = "PARKED"
<1> DEFINE r == queue[q]
           s == queue'[q]
           old == CellsBehind(q)
           new == CellsBehind(q)'
<1>1. /\ RowSettled(q) /\ r \in QueueRow /\ s \in QueueRow
      /\ r.iter \in Nat /\ s.iter \in Nat
      /\ r.status \in Statuses /\ s.status \in Statuses
  <2>1. s \in QueueRow
    BY DEF TypeInv, TypeOK
  <2> QED
    BY <2>1, SettledFacts DEF QueueRow
<1>2. /\ r.status \in {"PENDING", "COMPLETED"} => old = r.iter
      /\ r.status \in {"RUNNING", "FAILED"} => old = Decrement(r.iter)
      /\ r.status \in {"ABSENT", "PARKED"} => old = 0
      /\ s.status \in {"PENDING", "COMPLETED"} => new = s.iter
      /\ s.status \in {"RUNNING", "FAILED"} => new = Decrement(s.iter)
      /\ s.status \in {"ABSENT", "PARKED"} => new = 0
  BY DEF CellsBehind
<1> HIDE DEF old, new
<1>3. r.status = "ABSENT" => r.iter = 0
  BY <1>1 DEF RowSettled
<1>4. CASE s.status = r.status /\ s.iter = r.iter
  BY <1>1, <1>2, <1>4 DEF Statuses, old, new
<1>5. CASE r.status = "PENDING" /\ s.status = "RUNNING" /\ s.iter = r.iter + 1
  BY <1>1, <1>2, <1>5 DEF Decrement, old, new
<1>6. CASE s.status # r.status /\ ~(r.status = "PENDING" /\ s.status = "RUNNING")
  BY <1>1, <1>2, <1>3, <1>6 DEF RowMoves, old, new
<1>7. s.status = r.status => s.iter = r.iter \/ s.status = "PARKED"
  BY DEF RowMoves
<1>8. r.status = "PENDING" /\ s.status = "RUNNING" => s.iter = r.iter + 1
  BY DEF RowMoves
<1> QED
  BY <1>4, <1>5, <1>6, <1>7, <1>8

(* With them a row keeps what it owes to the tables.                        *)
LEMMA RowKept ==
    ASSUME SettledInv, TypeInv', TablesKeep, NEW q \in Rows, RowMoves(queue[q], queue'[q])
    PROVE  RowSettled(q)'
<1> DEFINE r == queue[q]
           s == queue'[q]
           old == CellsBehind(q)
           new == CellsBehind(q)'
<1>1. /\ RowSettled(q) /\ r \in QueueRow /\ s \in QueueRow
      /\ r.iter \in Nat /\ s.iter \in Nat /\ IterBudget[q] \in Nat \ {0}
      /\ r.status \in Statuses /\ s.status \in Statuses
      /\ r.active # Null => r.active \in 1..Len(runs)
      /\ iters \in Seq(Iteration) /\ iters' \in Seq(Iteration)
      /\ Len(iters) \in Nat /\ Len(iters') \in Nat
  <2>1. s \in QueueRow /\ iters' \in Seq(Iteration)
    BY DEF TypeInv, TypeOK
  <2> QED
    BY <2>1, SettledFacts, RecordFacts DEF QueueRow
<1>2. /\ new = old \/ s.status = "PARKED"
      /\ s.status = "PARKED" => new = 0
  BY CellsBehindKept DEF CellsBehind
<1> HIDE DEF old, new
<1>3. new = old \/ s.status = "PARKED"
  BY <1>2
<1>4. new = old \/ new = 0
  BY <1>2, <1>3
<1>5. Sampler[q] = "grid" => \A c \in 0..(new - 1) : Filed(q, c)'
  <2>1. Sampler[q] = "grid" => \A c \in 0..(old - 1) : Filed(q, c)
    BY <1>1 DEF RowSettled, old
  <2> QED
    BY <1>1, <1>4, <2>1, FiledKept
<1>6. /\ s.status \in {"RUNNING", "FAILED"} => s.iter <= IterBudget[q]
      /\ s.status = "PENDING" => s.iter < IterBudget[q]
      /\ s.status = "ABSENT" => s.iter = 0
  <2>1. /\ r.status \in {"RUNNING", "FAILED"} => r.iter <= IterBudget[q]
        /\ r.status = "PENDING" => r.iter < IterBudget[q]
        /\ r.status = "ABSENT" => r.iter = 0
    BY <1>1 DEF RowSettled
  <2> QED
    BY <1>1, <2>1 DEF RowMoves, Decrement
<1>7. s.status \in {"ABSENT", "FAILED"} => s.active = Null
  BY <1>1 DEF RowSettled, RowMoves
<1>8. s.status \in {"PENDING", "RUNNING"} /\ Sampler[q] = "grid" /\ s.active # Null
        => runs'[s.active].cell = new
  <2> SUFFICES ASSUME s.status \in {"PENDING", "RUNNING"}, Sampler[q] = "grid", s.active # Null
               PROVE  runs'[s.active].cell = new
    OBVIOUS
  <2>1. s.active = r.active /\ r.active # Null /\ new = old
    BY <1>3 DEF RowMoves
  <2>2. r.status \in {"PENDING", "RUNNING"}
    BY <1>1, <2>1 DEF RowMoves, RowSettled
  <2>3. runs[r.active].cell = old
    BY <1>1, <2>1, <2>2 DEF RowSettled, old
  <2> QED
    BY <1>1, <2>1, <2>3 DEF TablesKeep, RunsKeepTrials
<1>9. s.status = "COMPLETED" =>
        /\ s.last \in 1..Len(iters')
        /\ iters'[s.last].row = q
        /\ (s.verdict = "DISCARD") <=> (iters'[s.last].out.stat = "NO_EDGE")
  <2> SUFFICES ASSUME s.status = "COMPLETED"
               PROVE  /\ s.last \in 1..Len(iters')
                      /\ iters'[s.last].row = q
                      /\ (s.verdict = "DISCARD") <=> (iters'[s.last].out.stat = "NO_EDGE")
    OBVIOUS
  <2>1. s = r
    BY DEF RowMoves
  <2>2. /\ r.last \in 1..Len(iters) /\ iters[r.last].row = q
        /\ (r.verdict = "DISCARD") <=> (iters[r.last].out.stat = "NO_EDGE")
    BY <1>1, <2>1 DEF RowSettled
  <2>3. iters'[r.last] = iters[r.last] /\ r.last \in 1..Len(iters')
    BY <1>1, <2>2 DEF TablesKeep
  <2> QED
    BY <2>1, <2>2, <2>3
<1> QED
  BY <1>5, <1>6, <1>7, <1>8, <1>9 DEF RowSettled, new

(* A tick that does not move keeps to its row while the row is left alone,  *)
(* or cancelled.                                                           *)
LEMMA WorksKept ==
    ASSUME SettledInv, TablesKeep, NEW u \in Ticks, tick'[u] = tick[u],
           tick[u].pc \in ClaimedSteps =>
              \/ queue'[tick[u].row] = queue[tick[u].row]
              \/ /\ queue'[tick[u].row].status = "PARKED"
                 /\ queue'[tick[u].row].active = queue[tick[u].row].active
                 /\ queue'[tick[u].row].last = queue[tick[u].row].last
    PROVE  WorksOn(tick[u])'
<1>1. WorksOn(tick[u]) /\ (tick[u].pc \in RunSteps => tick[u].run \in 1..Len(runs))
  BY SettledFacts, RecordFacts
<1> QED
  BY <1>1 DEF WorksOn, TablesKeep, RunsKeepTrials

(* A step of tick t that writes no row but its own.                         *)
LEMMA SettledTickKept ==
    ASSUME SettledInv, TypeInv', TablesKeep, NEW t \in Ticks,
           tick' = [tick EXCEPT ![t] = tick'[t]],
           UNCHANGED queue \/ InFlight(t),
           \A p \in Rows : p # tick[t].row => queue'[p] = queue[p],
           \A p \in Rows : p = tick[t].row => RowSettled(p)',
           tick'[t].pc \in ClaimedSteps => WorksOn(tick[t])'
    PROVE  Settled'
<1>1. \A u \in Ticks : u # t => tick'[u] = tick[u]
  BY RecordFacts, SettledFacts
<1>2. ASSUME NEW p \in Rows
      PROVE  RowSettled(p)'
  <2>1. CASE p # tick[t].row
    <3>1. RowMoves(queue[p], queue'[p])
      BY <2>1 DEF RowMoves
    <3> QED
      BY <3>1, RowKept
  <2> QED
    BY <2>1
<1>3. ASSUME NEW u \in Ticks
      PROVE  WorksOn(tick[u])'
  <2>1. CASE u = t
    BY <2>1 DEF WorksOn
  <2>2. CASE u # t
    <3>1. tick[u].pc \in ClaimedSteps => /\ tick[u].row \in Rows
                                         /\ queue'[tick[u].row] = queue[tick[u].row]
      <4>1. tick[u].pc \in ClaimedSteps => tick[u].row \in Rows
        BY RecordFacts, SettledFacts DEF ClaimedSteps
      <4>2. tick[u].pc \in ClaimedSteps /\ InFlight(t) => tick[u].row # tick[t].row
        BY <2>2, RecordFacts, SettledFacts DEF LoggingInv, ExclusionInv, Exclusive,
           OneTickPerRow, InFlight
      <4> QED
        BY <4>1, <4>2
    <3> QED
      BY <1>1, <2>2, <3>1, WorksKept
  <2> QED
    BY <2>1, <2>2
<1> QED
  BY <1>2, <1>3 DEF Settled

(* The steps before the run: the reaper, the claim and the resumption, and  *)
(* the derivation of the next combo.                                       *)
LEMMA SettledClaim ==
    ASSUME SettledInv, TypeInv', NEW t \in Ticks, Recover(t) \/ Claim(t)
    PROVE  Settled'
<1>1. /\ UNCHANGED <<runs, audits, iters>> /\ TablesKeep
      /\ queue \in [Rows -> QueueRow] /\ tick \in [Ticks -> TickLocals]
  <2>1. UNCHANGED <<runs, audits, iters>>
    BY DEF Recover, Claim
  <2> QED
    BY <2>1, SettledFacts, RecordFacts DEF TablesKeep, RunsKeepTrials
<1>2. \A u \in Ticks : tick[u].pc \in ClaimedSteps => /\ tick[u].row \in Rows
                                                     /\ ~queue[tick[u].row].overdue
                                                     /\ queue[tick[u].row].status # "PENDING"
  <2>1. \A u \in Ticks : tick[u].pc \in ClaimedSteps => tick[u].row \in Rows /\ InFlight(u)
    BY SettledFacts, RecordFacts DEF ClaimedSteps, InFlight
  <2> QED
    BY <2>1, SettledFacts, RecordFacts DEF LoggingInv, ExclusionInv, Exclusive
<1>3. CASE Recover(t)
  <2>1. /\ \A u \in Ticks : u # t => tick'[u] = tick[u]
        /\ tick'[t].pc = "claim"
    BY <1>1, <1>3, SettledFacts, RecordFacts, GotoMoves DEF Recover
  <2>2. \A p \in Rows : queue'[p] = Recovered(queue[p])
    BY <1>3 DEF Recover, RecoverStuck
  <2>3. ASSUME NEW p \in Rows
        PROVE  RowSettled(p)'
    <3>1. CASE queue'[p] = queue[p]
      BY <1>1, <3>1, RowKept DEF RowMoves
    <3>2. CASE queue'[p] # queue[p]
      <4>1. queue[p].status = "RUNNING" /\ queue[p].overdue /\ queue[p] \in QueueRow
        BY <1>1, <2>2, <3>2 DEF Recovered
      <4>2. /\ queue'[p].status = "PENDING" /\ queue'[p].iter = Decrement(queue[p].iter)
            /\ queue'[p].active = queue[p].active
        BY <2>2, <4>1 DEF Recovered, QueueRow
      <4> QED
        BY <1>1, <4>1, <4>2, RowKept DEF RowMoves
    <3> QED
      BY <3>1, <3>2
  <2>4. ASSUME NEW u \in Ticks
        PROVE  WorksOn(tick[u])'
    <3>1. CASE u = t
      BY <2>1, <3>1 DEF WorksOn, ClaimedSteps
    <3>2. CASE u # t
      BY <1>1, <1>2, <2>1, <2>2, <3>2, WorksKept DEF Recovered
    <3> QED
      BY <3>1, <3>2
  <2> QED
    BY <2>3, <2>4 DEF Settled
<1>4. CASE Claim(t)
  <2>1. PICK q \in Rows, now \in Fences :
          /\ queue[q].status = "PENDING" /\ ClaimRow(q, now)
          /\ tick' = [tick EXCEPT ![t] =
                [IdleTick EXCEPT !.pc = "resume", !.row = q, !.fence = now,
                                 !.prior = queue[q].iter, !.run = queue[q].active]]
    BY <1>4 DEF Claim, FirstPending, InStatus
  <2>2. /\ tick'[t].pc = "resume" /\ tick'[t].row = q /\ tick'[t].prior = queue[q].iter
        /\ \A u \in Ticks : u # t => tick'[u] = tick[u]
    BY <1>1, <2>1 DEF IdleTick
  <2>3. Sets(q, "RUNNING", queue[q].iter + 1, queue[q].active, queue[q].last, queue[q].verdict)
    BY <1>1, <2>1, CounterEffects
  <2>4. ASSUME NEW p \in Rows
        PROVE  RowSettled(p)'
    <3>1. RowMoves(queue[p], queue'[p])
      BY <2>1, <2>3 DEF Sets, Has, RowMoves
    <3> QED
      BY <1>1, <3>1, RowKept
  <2>5. ASSUME NEW u \in Ticks
        PROVE  WorksOn(tick[u])'
    <3>1. CASE u = t
      BY <2>2, <2>3, <3>1 DEF WorksOn, Sets, Has, RunSteps
    <3>2. CASE u # t
      <4>1. tick[u].pc \in ClaimedSteps => queue'[tick[u].row] = queue[tick[u].row]
        BY <1>2, <2>1, <2>3 DEF Sets
      <4> QED
        BY <1>1, <2>2, <3>2, <4>1, WorksKept
    <3> QED
      BY <3>1, <3>2
  <2> QED
    BY <2>4, <2>5 DEF Settled
<1> QED
  BY <1>3, <1>4

(* The steps of a claimed tick that leave the queue alone: the combo of a   *)
(* grid row's run, whether derived, submitted or resumed, is the cell the  *)
(* counter is at.                                                          *)
LEMMA SettledWork ==
    ASSUME SettledInv, TypeInv', NEW t \in Ticks,
           Resume(t) \/ RecordTrial(t) \/ SubmitAccepted(t) \/ PollCompleted(t)
              \/ FindIteration(t) \/ LogEvidence(t)
    PROVE  Settled'
<1> DEFINE k == tick[t]
           q == k.row
<1>1. /\ UNCHANGED queue /\ k.pc \in ClaimedSteps
      /\ UNCHANGED runs \/ runs' = Append(runs, NewRun(t))
      /\ UNCHANGED iters \/ \E e : iters' = Append(iters, e)
  <2>1. CASE Resume(t) \/ PollCompleted(t) \/ FindIteration(t)
    BY <2>1 DEF Resume, PollCompleted, FindIteration, ClaimedSteps
  <2>2. CASE RecordTrial(t) \/ SubmitAccepted(t) \/ LogEvidence(t)
    BY <2>2 DEF RecordTrial, SubmitAccepted, LogEvidence, ClaimedSteps
  <2> QED
    BY <2>1, <2>2
<1>2. /\ k \in TickLocals /\ q \in Rows /\ tick \in [Ticks -> TickLocals] /\ InFlight(t)
      /\ k.pc \in RunSteps => k.run \in 1..Len(runs)
      /\ queue[q].active # Null => queue[q].active \in 1..Len(runs)
      /\ RowSettled(q) /\ WorksOn(k) /\ TypeInv /\ queue[q].iter \in Nat /\ k.prior \in Nat
      /\ TickLocals = [pc : {"idle", "claim", "rollback", "reply"} \cup ClaimedSteps,
                       row : Rows \cup {Null}, fence : Fences \cup {Null}, prior : Nat,
                       run : Ids \cup {Null}, audit : Ids \cup {Null},
                       cell : Nat \cup {Null}, trials : Nat, iter : Ids \cup {Null}]
  BY <1>1, SettledFacts, RecordFacts DEF ClaimedSteps, InFlight, TickLocals
<1>3. TablesKeep /\ (runs' = Append(runs, NewRun(t)) => runs'[Len(runs) + 1].cell = k.cell)
  <2>1. /\ Len(runs) \in Nat /\ Len(iters) \in Nat
        /\ runs \in Seq(Run) /\ iters \in Seq(Iteration)
    BY SettledFacts, RecordFacts
  <2>2. /\ Len(iters) <= Len(iters')
        /\ \A i \in 1..Len(iters) : iters'[i] = iters[i]
    BY <1>1, <2>1
  <2>3. CASE UNCHANGED runs
    <3>1. Len(runs) # Len(Append(runs, NewRun(t)))
      BY <2>1
    <3> QED
      BY <2>1, <2>2, <2>3, <3>1 DEF RunsKeepTrials, TablesKeep
  <2>4. CASE runs' = Append(runs, NewRun(t))
    <3>1. /\ Len(runs') = Len(runs) + 1 /\ runs'[Len(runs) + 1] = NewRun(t)
          /\ \A r \in 1..Len(runs) : runs'[r] = runs[r]
      BY <2>1, <2>4
    <3> QED
      BY <2>1, <2>2, <3>1 DEF RunsKeepTrials, TablesKeep, NewRun
  <2> QED
    BY <1>1, <2>3, <2>4
<1>4. RowSettled(q) /\ (\A p \in Rows : RowMoves(queue[p], queue'[p]))
  BY <1>1, <1>2 DEF RowMoves
<1>5. \A p \in Rows : p = q => RowSettled(p)'
  BY <1>3, <1>4, RowKept
<1>6. ASSUME NEW l, tick' = [tick EXCEPT ![t] = l],
             l.row = q, l.prior = k.prior, l.pc # "decide",
             queue[q].status = "RUNNING" /\ Sampler[q] = "grid" =>
                /\ l.pc = "submit" => l.cell = k.prior
                /\ l.pc \in RunSteps => runs'[l.run].cell = k.prior
      PROVE  Settled'
  <2>1. tick' = [tick EXCEPT ![t] = tick'[t]] /\ tick'[t] = l
    BY <1>2, <1>6
  <2>2. WorksOn(tick[t])'
    BY <1>1, <1>2, <1>6, <2>1 DEF WorksOn
  <2> QED
    BY <1>1, <1>2, <1>3, <1>5, <2>1, <2>2, SettledTickKept
<1>7. queue[q].status = "RUNNING" /\ Sampler[q] = "grid" =>
        /\ k.pc = "submit" => k.cell = k.prior
        /\ k.pc \in RunSteps => runs'[k.run].cell = k.prior
        /\ queue[q].active # Null => runs'[queue[q].active].cell = k.prior
  <2> SUFFICES ASSUME queue[q].status = "RUNNING", Sampler[q] = "grid"
               PROVE  /\ k.pc = "submit" => k.cell = k.prior
                      /\ k.pc \in RunSteps => runs'[k.run].cell = k.prior
                      /\ queue[q].active # Null => runs'[queue[q].active].cell = k.prior
    OBVIOUS
  <2>1. /\ k.pc = "submit" => k.cell = k.prior
        /\ k.pc \in RunSteps => runs[k.run].cell = k.prior
        /\ queue[q].iter = k.prior + 1
    BY <1>1, <1>2 DEF WorksOn
  <2>2. CellsBehind(q) = k.prior
    <3> PICK n : n = k.prior
      OBVIOUS
    <3>1. CellsBehind(q) = Decrement(n + 1)
      BY <2>1 DEF CellsBehind
    <3>2. n \in Nat => Decrement(n + 1) = n
      BY DEF Decrement
    <3> QED
      BY <1>1, <1>2, <3>1, <3>2
  <2>3. queue[q].active # Null => runs[queue[q].active].cell = k.prior
    BY <1>2, <2>2 DEF RowSettled
  <2> QED
    BY <1>2, <1>3, <2>1, <2>3 DEF TablesKeep, RunsKeepTrials
<1>8. CASE Resume(t)
  <2> DEFINE r == k.run
             a == LatestUnattached(q)
             pc == IF runs[r].state = "COMPLETED" THEN "find" ELSE "poll"
             cell == IF a = Null THEN Null ELSE audits[a].cell
             m == CountTrials(q)
             l == [k EXCEPT !.pc = pc, !.audit = a, !.trials = m, !.cell = cell]
  <2>1. CASE Resumable(q, r)
    <3>1. tick' = [tick EXCEPT ![t] = l] /\ r # Null
      BY <1>2, <1>8, <2>1 DEF Resume, Resumable
    <3>2. l.pc = pc /\ l.row = q /\ l.run = r /\ l.prior = k.prior
      <4> HIDE DEF k, pc, a, m, cell
      <4> QED
        BY <1>2 DEF q
    <3>3. pc \notin {"submit", "decide"}
      OBVIOUS
    <3>4. r = queue[q].active
      BY <1>8, RecordFacts DEF Resume, SettledInv, LoggingInv, Owned
    <3> HIDE DEF l, pc, r
    <3> QED
      BY <1>6, <1>7, <3>1, <3>2, <3>3, <3>4
  <2>2. CASE ~Resumable(q, r)
    <3> DEFINE n == [k EXCEPT !.pc = "derive"]
    <3>1. tick' = [tick EXCEPT ![t] = n]
      BY <1>8, <2>2 DEF Resume, Goto
    <3>2. n.pc = "derive" /\ n.row = q /\ n.prior = k.prior
      <4> HIDE DEF k
      <4> QED
        BY <1>2 DEF q
    <3> HIDE DEF n
    <3> QED
      BY <1>6, <3>1, <3>2 DEF RunSteps
  <2> QED
    BY <2>1, <2>2
<1>9. CASE RecordTrial(t)
  <2>1. PICK c \in Combos(q, k.prior) :
          tick' = [tick EXCEPT ![t] = [k EXCEPT !.pc = "submit", !.cell = c,
                                                !.trials = CountTrials(q),
                                                !.audit = Len(audits) + 1]]
    BY <1>2, <1>9 DEF RecordTrial
  <2> DEFINE m == CountTrials(q)
             a == Len(audits) + 1
             l == [k EXCEPT !.pc = "submit", !.cell = c, !.trials = m, !.audit = a]
  <2>2. l.pc = "submit" /\ l.row = q /\ l.cell = c /\ l.prior = k.prior
    <3> HIDE DEF k, m, a
    <3> QED
      BY <1>2 DEF q
  <2>3. Sampler[q] = "grid" => c = k.prior
    BY <2>1 DEF Combos
  <2>4. tick' = [tick EXCEPT ![t] = l]
    BY <2>1
  <2> HIDE DEF l
  <2> QED
    BY <1>6, <2>2, <2>3, <2>4 DEF RunSteps
<1>10. CASE SubmitAccepted(t)
  <2> DEFINE r == Len(runs) + 1
             l == [k EXCEPT !.pc = "store", !.run = r]
  <2>1. /\ tick' = [tick EXCEPT ![t] = l] /\ k.pc = "submit"
        /\ runs' = Append(runs, NewRun(t))
    BY <1>2, <1>10 DEF SubmitAccepted
  <2>2. l.pc = "store" /\ l.row = q /\ l.run = r /\ l.prior = k.prior
    <3> HIDE DEF k, r
    <3> QED
      BY <1>2 DEF q
  <2> HIDE DEF l
  <2> QED
    BY <1>3, <1>6, <1>7, <2>1, <2>2
<1>11. CASE PollCompleted(t)
  <2> DEFINE l == [k EXCEPT !.pc = "find"]
  <2>1. tick' = [tick EXCEPT ![t] = l] /\ k.pc = "poll"
    BY <1>11 DEF PollCompleted, Goto
  <2>2. l.pc = "find" /\ l.row = q /\ l.run = k.run /\ l.prior = k.prior
    <3> HIDE DEF k
    <3> QED
      BY <1>2 DEF q
  <2> HIDE DEF l
  <2> QED
    BY <1>6, <1>7, <2>1, <2>2 DEF RunSteps
<1>12. CASE FindIteration(t)
  <2> DEFINE i == FindIterationForRun(k.run)
             pc == IF i = Null THEN "log" ELSE "attach"
             l == [k EXCEPT !.pc = pc, !.iter = i]
  <2>1. tick' = [tick EXCEPT ![t] = l] /\ k.pc = "find"
    BY <1>2, <1>12 DEF FindIteration
  <2>2. l.pc = pc /\ l.row = q /\ l.run = k.run /\ l.prior = k.prior
    <3> HIDE DEF k, i, pc
    <3> QED
      BY <1>2 DEF q
  <2>3. pc \notin {"submit", "decide"}
    OBVIOUS
  <2> HIDE DEF l, pc
  <2> QED
    BY <1>6, <1>7, <2>1, <2>2, <2>3 DEF RunSteps
<1>13. CASE LogEvidence(t)
  <2> DEFINE i == Len(iters) + 1
             l == [k EXCEPT !.pc = "attach", !.iter = i]
  <2>1. tick' = [tick EXCEPT ![t] = l] /\ k.pc = "log"
    BY <1>2, <1>13 DEF LogEvidence
  <2>2. l.pc = "attach" /\ l.row = q /\ l.run = k.run /\ l.prior = k.prior
    <3> HIDE DEF k, i
    <3> QED
      BY <1>2 DEF q
  <2> HIDE DEF l
  <2> QED
    BY <1>6, <1>7, <2>1, <2>2 DEF RunSteps
<1> QED
  BY <1>8, <1>9, <1>10, <1>11, <1>12, <1>13

(* set_active_run and attach_iteration: the row gets the run of its cell,   *)
(* and then the iteration of that run instead of it.                       *)
LEMMA SettledPointers ==
    ASSUME SettledInv, TypeInv', NEW t \in Ticks, StoreActiveRun(t) \/ Attach(t)
    PROVE  Settled'
<1> DEFINE k == tick[t]
<1>1. /\ UNCHANGED <<runs, audits, iters>> /\ k.pc \in {"store", "attach"}
  BY DEF StoreActiveRun, Attach
<1>2. /\ k.row \in Rows /\ tick \in [Ticks -> TickLocals] /\ InFlight(t) /\ TypeInv
      /\ queue \in [Rows -> QueueRow]
      /\ k.run \in 1..Len(runs) /\ TablesKeep /\ k.pc \in ClaimedSteps /\ k.pc \in RunSteps
      /\ queue[k.row].status \in {"RUNNING", "PARKED"}
      /\ RowSettled(k.row) /\ WorksOn(k)
  <2>1. k.pc \in ClaimedSteps /\ k.pc \in RunSteps /\ InFlight(t)
    BY <1>1 DEF ClaimedSteps, RunSteps, InFlight
  <2>2. TablesKeep
    BY <1>1, SettledFacts, RecordFacts DEF TablesKeep, RunsKeepTrials
  <2>3. queue[k.row].status \in {"RUNNING", "PARKED"}
    BY <2>1, SettledFacts, RecordFacts DEF LoggingInv, ExclusionInv, Exclusive
  <2> QED
    BY <1>1, <2>1, <2>2, <2>3, SettledFacts, RecordFacts
<1>3. CASE StoreActiveRun(t)
  <2>1. SetActiveRun(k.row, k.run) /\ Goto(t, "poll") /\ k.pc = "store"
    BY <1>3 DEF StoreActiveRun
  <2>2. /\ tick' = [tick EXCEPT ![t] = tick'[t]] /\ tick'[t].pc = "poll"
        /\ tick'[t].row = k.row /\ tick'[t].run = k.run /\ tick'[t].prior = k.prior
    BY <1>2, <2>1, GotoMoves DEF ClaimedSteps
  <2>3. SetsIfRunning(k.row, queue[k.row].status, queue[k.row].iter, k.run, queue[k.row].last,
                      queue[k.row].verdict)
    BY <1>2, <2>1, CounterEffects
  <2>4. /\ \A p \in Rows : p # k.row => queue'[p] = queue[p]
        /\ queue'[k.row].status = queue[k.row].status /\ queue'[k.row].iter = queue[k.row].iter
        /\ \/ queue'[k.row] = queue[k.row]
           \/ queue[k.row].status = "RUNNING" /\ queue'[k.row].active = k.run
    BY <2>3 DEF SetsIfRunning, Sets, Has
  <2>5. ASSUME NEW p \in Rows, p = k.row
        PROVE  RowSettled(p)'
    <3>1. CASE queue'[p] = queue[p]
      BY <1>2, <2>5, <3>1, RowKept DEF RowMoves
    <3>2. CASE queue[p].status = "RUNNING" /\ queue'[p].active = k.run
      <4>1. /\ RowSettled(p) /\ queue'[p].status = "RUNNING" /\ queue'[p].iter = queue[p].iter
            /\ CellsBehind(p)' = CellsBehind(p)
        BY <1>2, <2>4, <2>5, <3>2 DEF CellsBehind
      <4>2. Sampler[p] = "grid" => runs'[k.run].cell = CellsBehind(p)
        <5>1. /\ queue[p].iter = k.prior + 1 /\ k.prior \in Nat
              /\ Sampler[p] = "grid" => runs[k.run].cell = k.prior
          BY <1>2, <2>5, <3>2 DEF WorksOn, TickLocals
        <5>2. CellsBehind(p) = k.prior
          BY <3>2, <5>1 DEF CellsBehind, Decrement
        <5> QED
          BY <1>1, <5>1, <5>2
      <4>3. Sampler[p] = "grid" => \A c \in 0..(CellsBehind(p) - 1) : Filed(p, c)'
        BY <1>1, <4>1 DEF RowSettled, Filed
      <4>4. queue'[p].iter <= IterBudget[p]
        BY <3>2, <4>1 DEF RowSettled
      <4> QED
        BY <3>2, <4>1, <4>2, <4>3, <4>4 DEF RowSettled
    <3> QED
      BY <2>4, <2>5, <3>1, <3>2
  <2>6. WorksOn(tick[t])'
    BY <1>1, <1>2, <2>2, <2>4 DEF WorksOn
  <2> QED
    BY <1>2, <2>2, <2>4, <2>5, <2>6, SettledTickKept
<1>4. CASE Attach(t)
  <2>1. AttachIteration(k.row, k.iter, k.fence) /\ k.pc = "attach"
    BY <1>4 DEF Attach
  <2>2. IF FenceHolds(k.row, k.fence)
        THEN Sets(k.row, queue[k.row].status, queue[k.row].iter, Null, k.iter,
                  queue[k.row].verdict)
        ELSE UNCHANGED queue
    BY <1>2, <2>1, CounterEffects
  <2>3. \A p \in Rows : p # k.row => queue'[p] = queue[p]
    BY <2>2 DEF Sets
  <2>4. RowMoves(queue[k.row], queue'[k.row])
    BY <1>2, <2>2 DEF Sets, Has, RowMoves
  <2>5. \A p \in Rows : p = k.row => RowSettled(p)'
    BY <1>2, <2>4, RowKept
  <2>6. CASE FenceHolds(k.row, k.fence)
    <3>1. /\ tick' = [tick EXCEPT ![t] = tick'[t]] /\ tick'[t].pc = "decide"
          /\ tick'[t].row = k.row /\ tick'[t].run = k.run /\ tick'[t].prior = k.prior
          /\ tick'[t].iter = k.iter
      BY <1>2, <1>4, <2>6, GotoMoves DEF Attach, ClaimedSteps
    <3>2. /\ queue'[k.row].status = queue[k.row].status /\ queue'[k.row].iter = queue[k.row].iter
          /\ queue'[k.row].active = Null /\ queue'[k.row].last = k.iter
      BY <2>2, <2>6 DEF Sets, Has
    <3>3. WorksOn(tick[t])'
      BY <1>1, <1>2, <3>1, <3>2 DEF WorksOn
    <3> QED
      BY <1>2, <2>3, <2>5, <3>1, <3>3, SettledTickKept
  <2>7. CASE ~FenceHolds(k.row, k.fence)
    <3>1. tick' = [tick EXCEPT ![t] = tick'[t]] /\ tick'[t].pc \notin ClaimedSteps
      BY <1>2, <1>4, <2>7, LeftMoves DEF Attach, ClaimedSteps
    <3> QED
      BY <1>2, <2>3, <2>5, <3>1, SettledTickKept
  <2> QED
    BY <2>6, <2>7
<1> QED
  BY <1>3, <1>4

(* CONTINUE below the budget only, DISCARD on NO_EDGE only.                 *)
LEMMA NextStateRule ==
    ASSUME NEW q \in Rows, NEW n \in Nat, NEW out \in VerdictPairs
    PROVE  /\ NextState(q, n, out) \in {"PARK", "CONTINUE", "DISCARD", "INSUFFICIENT_EVIDENCE"}
           /\ NextState(q, n, out) = "CONTINUE" => n < IterBudget[q]
           /\ NextState(q, n, out) \in {"DISCARD", "INSUFFICIENT_EVIDENCE"} =>
                (NextState(q, n, out) = "DISCARD" <=> out.stat = "NO_EDGE")
<1>1. IterBudget[q] \in Nat
  BY TickAssumption
<1>2. out.stat = "SIGNIFICANT_EDGE" \/ out.dec # "PASS"
  BY DEF VerdictPairs
<1> DEFINE spent == n >= IterBudget[q]
<1>3. ~spent => n < IterBudget[q]
  BY <1>1
<1> HIDE DEF spent
<1>4. NextState(q, n, out) =
        CASE out.stat = "SIGNIFICANT_EDGE" /\ out.dec = "PASS" -> "PARK"
          [] out.stat = "NO_EDGE" /\ (EarlyStop[q] \/ spent) -> "DISCARD"
          [] out.stat # "NO_EDGE" /\ out.dec # "PASS" /\ spent -> "INSUFFICIENT_EVIDENCE"
          [] OTHER -> "CONTINUE"
  BY DEF NextState, spent
<1> QED
  BY <1>2, <1>3, <1>4

(* The decision is about an iteration of the row on which the tick works,   *)
(* and moves on no row that has left RUNNING meanwhile.                    *)
LEMMA DecisionEffects ==
    ASSUME SettledInv, NEW t \in Ticks, DecideNextState(t)
    PROVE  LET k == tick[t]
               q == k.row
               i == k.iter IN
           /\ UNCHANGED <<runs, audits, iters>> /\ q \in Rows /\ InFlight(t) /\ LetsGo(t)
           /\ k.prior \in Nat
           /\ i \in 1..Len(iters) /\ iters[i].row = q
           /\ \A p \in Rows : p # q => queue'[p] = queue[p]
           /\ \/ UNCHANGED queue
              \/ /\ queue[q].status = "RUNNING" /\ queue[q].iter = k.prior + 1
                 /\ Sampler[q] = "grid" => iters[i].cell = k.prior
                 /\ CellsBehind(q) = k.prior
                 /\ queue'[q].active = Null
                 /\ \/ queue'[q].status = "PARKED"
                    \/ /\ queue'[q].status = "PENDING" /\ queue'[q].iter = k.prior + 1
                       /\ k.prior + 1 < IterBudget[q]
                    \/ /\ queue'[q].status = "COMPLETED" /\ queue'[q].iter = k.prior + 1
                       /\ queue'[q].last = i
                       /\ (queue'[q].verdict = "DISCARD") <=> (iters[i].out.stat = "NO_EDGE")
<1> DEFINE k == tick[t]
           i == k.iter
           next == NextState(k.row, k.prior + 1, iters[i].out)
<1>1. /\ UNCHANGED <<runs, audits, iters>> /\ k.pc = "decide" /\ TablesKeep
      /\ next = "PARK" => ParkExhausted(k.row)
      /\ next = "CONTINUE" => ResetToPending(k.row)
      /\ next \notin {"PARK", "CONTINUE"} => CompleteQueue(k.row, next)
  <2>1. UNCHANGED <<runs, audits, iters>> /\ k.pc = "decide"
    BY DEF DecideNextState
  <2>2. /\ next = "PARK" => ParkExhausted(k.row)
        /\ next = "CONTINUE" => ResetToPending(k.row)
        /\ next \notin {"PARK", "CONTINUE"} => CompleteQueue(k.row, next)
    BY DEF DecideNextState
  <2> QED
    BY <2>1, <2>2, SettledFacts, RecordFacts DEF TablesKeep, RunsKeepTrials
<1>2. /\ k.row \in Rows /\ tick \in [Ticks -> TickLocals] /\ InFlight(t) /\ TypeInv
      /\ queue \in [Rows -> QueueRow] /\ k.prior \in Nat /\ k.run \in 1..Len(runs)
      /\ RowSettled(k.row) /\ queue[k.row].active = Null /\ queue[k.row].last = i
      /\ runs[k.run].row = k.row
  <2>1. k.pc \in ClaimedSteps /\ k.pc \in RunSteps /\ InFlight(t)
    BY <1>1 DEF ClaimedSteps, RunSteps, InFlight
  <2>2. WorksOn(k) /\ k \in TickLocals
    BY SettledFacts, RecordFacts
  <2> QED
    BY <1>1, <2>1, <2>2, SettledFacts, RecordFacts DEF WorksOn, TickLocals
<1>3. /\ i \in 1..Len(iters) /\ iters[i].run = k.run
      /\ iters[i].row = k.row /\ iters[i].cell = runs[k.run].cell
      /\ iters[i].out \in VerdictPairs
  <2>1. i \in 1..Len(iters) /\ iters[i].run = k.run
    BY <1>1, SettledFacts, RecordFacts DEF Recorded, TrialInHand
  <2>2. iters[i] \in Iteration
    BY <2>1, SettledFacts, RecordFacts, ElementOfSeq
  <2>3. /\ iters[i].row = runs[iters[i].run].row
        /\ iters[i].cell = runs[iters[i].run].cell
    BY <2>1, SettledFacts, RecordFacts DEF Recorded, EvidenceMatchesRun
  <2> QED
    BY <1>2, <2>1, <2>2, <2>3 DEF Iteration
<1>4. queue[k.row].status = "RUNNING" =>
        /\ queue[k.row].iter = k.prior + 1
        /\ Sampler[k.row] = "grid" => iters[i].cell = k.prior
        /\ CellsBehind(k.row) = k.prior
  <2> SUFFICES ASSUME queue[k.row].status = "RUNNING"
               PROVE  /\ queue[k.row].iter = k.prior + 1
                      /\ Sampler[k.row] = "grid" => iters[i].cell = k.prior
                      /\ CellsBehind(k.row) = k.prior
    OBVIOUS
  <2>1. k.pc \in ClaimedSteps /\ k.pc \in RunSteps /\ WorksOn(k)
    BY <1>1, SettledFacts DEF ClaimedSteps, RunSteps
  <2>2. /\ queue[k.row].iter = k.prior + 1
        /\ Sampler[k.row] = "grid" => iters[i].cell = k.prior
    BY <1>3, <2>1 DEF WorksOn
  <2> QED
    BY <1>2, <2>2 DEF CellsBehind, Decrement
<1>5. /\ next \in {"PARK", "CONTINUE", "DISCARD", "INSUFFICIENT_EVIDENCE"}
      /\ next = "CONTINUE" => k.prior + 1 < IterBudget[k.row]
      /\ next \in {"DISCARD", "INSUFFICIENT_EVIDENCE"} =>
           (next = "DISCARD" <=> iters[i].out.stat = "NO_EDGE")
  <2>1. k.prior + 1 \in Nat
    BY <1>2
  <2> QED
    BY <1>2, <1>3, <2>1, NextStateRule
<1> HIDE DEF next
<1>6. LetsGo(t)
  BY <1>2, GoesOnOrLetsGo
<1>7. \/ UNCHANGED queue
      \/ /\ queue[k.row].status = "RUNNING"
         /\ \A p \in Rows : p # k.row => queue'[p] = queue[p]
         /\ \/ /\ next = "PARK" /\ queue'[k.row].status = "PARKED"
               /\ queue'[k.row].active = Null
            \/ /\ next = "CONTINUE" /\ queue'[k.row].status = "PENDING"
               /\ queue'[k.row].iter = queue[k.row].iter /\ queue'[k.row].active = Null
            \/ /\ next \in {"DISCARD", "INSUFFICIENT_EVIDENCE"}
               /\ queue'[k.row].status = "COMPLETED" /\ queue'[k.row].active = Null
               /\ queue'[k.row].iter = queue[k.row].iter
               /\ queue'[k.row].last = i /\ queue'[k.row].verdict = next
  <2>1. CASE next = "PARK"
    <3>1. ParkExhausted(k.row)
      BY <1>1, <2>1 DEF next
    <3> QED
      BY <1>2, <2>1, <3>1, CounterEffects DEF SetsIfRunning, Sets, Has
  <2>2. CASE next = "CONTINUE"
    <3>1. ResetToPending(k.row)
      BY <1>1, <2>2 DEF next
    <3> QED
      BY <1>2, <2>2, <3>1, CounterEffects DEF SetsIfRunning, Sets, Has
  <2>3. CASE next \in {"DISCARD", "INSUFFICIENT_EVIDENCE"}
    <3>1. CompleteQueue(k.row, next)
      BY <1>1, <2>3 DEF next
    <3> QED
      BY <1>2, <2>3, <3>1, CounterEffects DEF SetsIfRunning, Sets, Has
  <2> QED
    BY <1>5, <2>1, <2>2, <2>3
<1>8. \A p \in Rows : p # k.row => queue'[p] = queue[p]
  BY <1>7
<1> HIDE DEF k
<1> QED
  BY <1>1, <1>2, <1>3, <1>4, <1>5, <1>6, <1>7, <1>8 DEF i, k

(* The cell that leaves the counter behind is on file, and a final verdict  *)
(* is that of the iteration the row points to.                             *)
LEMMA SettledDecision ==
    ASSUME SettledInv, TypeInv', NEW t \in Ticks, DecideNextState(t)
    PROVE  Settled'
<1> DEFINE k == tick[t]
           i == k.iter
<1>1. /\ UNCHANGED <<runs, audits, iters>> /\ k.row \in Rows /\ InFlight(t) /\ LetsGo(t)
      /\ k.prior \in Nat
      /\ i \in 1..Len(iters) /\ iters[i].row = k.row
      /\ \A p \in Rows : p # k.row => queue'[p] = queue[p]
      /\ \/ UNCHANGED queue
         \/ /\ queue[k.row].status = "RUNNING" /\ queue[k.row].iter = k.prior + 1
            /\ Sampler[k.row] = "grid" => iters[i].cell = k.prior
            /\ CellsBehind(k.row) = k.prior
            /\ queue'[k.row].active = Null
            /\ \/ queue'[k.row].status = "PARKED"
               \/ /\ queue'[k.row].status = "PENDING" /\ queue'[k.row].iter = k.prior + 1
                  /\ k.prior + 1 < IterBudget[k.row]
               \/ /\ queue'[k.row].status = "COMPLETED" /\ queue'[k.row].iter = k.prior + 1
                  /\ queue'[k.row].last = i
                  /\ (queue'[k.row].verdict = "DISCARD") <=> (iters[i].out.stat = "NO_EDGE")
  BY DecisionEffects
<1>2. TablesKeep
  BY <1>1, SettledFacts, RecordFacts DEF TablesKeep, RunsKeepTrials
<1>3. ASSUME NEW p \in Rows, p = k.row
      PROVE  RowSettled(p)'
  <2>1. CASE UNCHANGED queue
    BY <1>2, <2>1, RowKept DEF RowMoves
  <2>2. CASE queue'[p].status = "PARKED" /\ queue'[p].active = Null
    BY <1>2, <2>2, RowKept DEF RowMoves
  <2>3. CASE /\ queue[p].status = "RUNNING"
             /\ Sampler[p] = "grid" => iters[i].cell = k.prior
             /\ CellsBehind(p) = k.prior
             /\ queue'[p].status \in {"PENDING", "COMPLETED"} /\ queue'[p].iter = k.prior + 1
    <3>1. CellsBehind(p)' = k.prior + 1
      BY <2>3 DEF CellsBehind
    <3>2. ASSUME Sampler[p] = "grid", NEW c \in 0..(CellsBehind(p)' - 1)
          PROVE  Filed(p, c)'
      <4>1. c \in 0..(CellsBehind(p) - 1) \/ c = k.prior
        <5> PICK n : n = k.prior
          OBVIOUS
        <5>1. n \in Nat /\ CellsBehind(p) = n /\ CellsBehind(p)' = n + 1
          BY <1>1, <2>3, <3>1
        <5>2. c \in 0..n
          BY <3>2, <5>1
        <5> HIDE DEF k
        <5> QED
          BY <5>1, <5>2
      <4>2. CASE c \in 0..(CellsBehind(p) - 1)
        <5>1. RowSettled(p)
          BY SettledFacts
        <5>2. Filed(p, c)
          BY <3>2, <4>2, <5>1 DEF RowSettled
        <5> QED
          BY <1>1, <5>2 DEF Filed
      <4>3. CASE c = k.prior
        <5>1. i \in 1..Len(iters) /\ iters[i].row = p /\ iters[i].cell = c
          BY <1>1, <1>3, <2>3, <3>2, <4>3
        <5> QED
          BY <1>1, <5>1 DEF Filed
      <4> QED
        BY <4>1, <4>2, <4>3
    <3>3. queue'[p].status = "COMPLETED" =>
            /\ i \in 1..Len(iters') /\ iters'[i].row = p /\ queue'[p].last = i
            /\ (queue'[p].verdict = "DISCARD") <=> (iters'[i].out.stat = "NO_EDGE")
      BY <1>1, <1>3, <2>3
    <3>4. queue'[p].status = "PENDING" => queue'[p].iter < IterBudget[p]
      BY <1>1, <1>3, <2>3
    <3>5. queue'[p].active = Null
      BY <1>1, <1>3, <2>3
    <3> QED
      BY <2>3, <3>2, <3>3, <3>4, <3>5 DEF RowSettled
  <2> QED
    BY <1>1, <1>3, <2>1, <2>2, <2>3
<1>4. TypeInv /\ tick' = [tick EXCEPT ![t] = tick'[t]] /\ tick'[t].pc \notin ClaimedSteps
  BY <1>1, SettledFacts, RecordFacts DEF LetsGo, ClaimedSteps
<1> QED
  BY <1>1, <1>2, <1>3, <1>4, SettledTickKept

(* The ends of a tick that decide nothing: the row is parked, failed or     *)
(* rolled back to the cell that the tick had worked on.                    *)
LEMMA LetsGoEffects ==
    ASSUME SettledInv, NEW t \in Ticks,
           Exhausted(t) \/ ConfigError(t) \/ PollDead(t) \/ PollCapExpires(t) \/ Rollback(t)
    PROVE  LET q == tick[t].row IN
           /\ UNCHANGED <<runs, audits, iters>> /\ InFlight(t) /\ q \in Rows
           /\ \A p \in Rows : p # q => queue'[p] = queue[p]
           /\ RowMoves(queue[q], queue'[q])
           /\ queue'[q].status = "PARKED" => queue[q].status \in {"RUNNING", "PARKED"}
<1> DEFINE q == tick[t].row
<1>1. /\ UNCHANGED <<runs, audits, iters>> /\ InFlight(t)
      /\ ParkExhausted(q) \/ FailQueue(q) \/ RollbackIter(q)
  BY DEF Exhausted, ConfigError, PollDead, PollCapExpires, Rollback, InFlight, ClaimedSteps
<1>2. q \in Rows /\ queue \in [Rows -> QueueRow]
  BY <1>1, SettledFacts, RecordFacts DEF InFlight, ClaimedSteps
<1>3. \/ UNCHANGED queue
      \/ /\ queue[q].status = "RUNNING"
         /\ \E status, iter, active :
              /\ Sets(q, status, iter, active, queue[q].last, queue[q].verdict)
              /\ active \in {queue[q].active, Null}
              /\ \/ status = "PARKED"
                 \/ status = "FAILED" /\ iter = queue[q].iter /\ active = Null
                 \/ status = "PENDING" /\ iter = Decrement(queue[q].iter)
  BY <1>1, <1>2, CounterEffects DEF SetsIfRunning
<1>4. \A p \in Rows : p # q => queue'[p] = queue[p]
  BY <1>3 DEF Sets
<1>5. RowMoves(queue[q], queue'[q])
  BY <1>3 DEF Sets, Has, RowMoves
<1>6. queue'[q].status = "PARKED" => queue[q].status \in {"RUNNING", "PARKED"}
  BY <1>3
<1> QED
  BY <1>1, <1>2, <1>4, <1>5, <1>6

(* A tick that gives up its row leaves its counter in order.                *)
LEMMA SettledLetsGo ==
    ASSUME SettledInv, TypeInv', NEW t \in Ticks,
           Exhausted(t) \/ ConfigError(t) \/ PollDead(t) \/ PollCapExpires(t) \/ Rollback(t)
    PROVE  Settled'
<1>1. /\ UNCHANGED <<runs, audits, iters>> /\ InFlight(t)
      /\ \A p \in Rows : p # tick[t].row => queue'[p] = queue[p]
      /\ \A p \in Rows : p = tick[t].row => RowMoves(queue[p], queue'[p])
  BY LetsGoEffects
<1>2. TypeInv /\ TablesKeep
  BY <1>1, SettledFacts, RecordFacts DEF TablesKeep, RunsKeepTrials
<1>3. tick' = [tick EXCEPT ![t] = tick'[t]] /\ tick'[t].pc \notin ClaimedSteps
  <2>1. LetsGo(t)
    BY <1>2, GoesOnOrLetsGo
  <2> QED
    BY <2>1 DEF LetsGo, ClaimedSteps
<1>4. \A p \in Rows : p = tick[t].row => RowSettled(p)'
  BY <1>1, <1>2, RowKept
<1> QED
  BY <1>1, <1>2, <1>3, <1>4, SettledTickKept

(* The steps that leave the queue alone and let go of the row, or are about *)
(* to roll it back.                                                        *)
LEMMA SettledLeaves ==
    ASSUME SettledInv, TypeInv', NEW t \in Ticks,
           EmptyQueue(t) \/ Reply(t) \/ RollbackFails(t) \/ SubmitUnanswered(t) \/ TickFails(t)
    PROVE  Settled'
<1>1. /\ UNCHANGED <<queue, audits, iters>>
      /\ UNCHANGED runs \/ runs' = Append(runs, NewRun(t))
  BY DEF EmptyQueue, Reply, RollbackFails, SubmitUnanswered, TickFails
<1>2. TablesKeep
  <2>1. Len(runs) \in Nat /\ runs \in Seq(Run) /\ Len(iters) \in Nat
    BY SettledFacts, RecordFacts
  <2>2. RunsKeepTrials
    <3>1. CASE UNCHANGED runs
      BY <2>1, <3>1 DEF RunsKeepTrials
    <3>2. CASE runs' = Append(runs, NewRun(t))
      <4>1. /\ Len(runs') = Len(runs) + 1
            /\ \A r \in 1..Len(runs) : runs'[r] = runs[r]
        BY <2>1, <3>2
      <4> QED
        BY <2>1, <4>1 DEF RunsKeepTrials
    <3> QED
      BY <1>1, <3>1, <3>2
  <2> QED
    BY <1>1, <2>1, <2>2 DEF TablesKeep
<1>3. tick' = [tick EXCEPT ![t] = tick'[t]] /\ tick'[t].pc \notin ClaimedSteps
  <2>1. TypeInv
    BY SettledFacts, RecordFacts
  <2>2. CASE EmptyQueue(t)
    BY <2>1, <2>2, GotoMoves DEF EmptyQueue, ClaimedSteps
  <2>3. CASE Reply(t) \/ RollbackFails(t)
    <3>1. LetsGo(t)
      BY <2>1, <2>3, GoesOnOrLetsGo
    <3> QED
      BY <3>1 DEF LetsGo, ClaimedSteps
  <2>4. CASE SubmitUnanswered(t) \/ TickFails(t)
    <3>1. tick' = [tick EXCEPT ![t] = Left(t, "rollback")]
      BY <2>4 DEF SubmitUnanswered, TickFails
    <3>2. tick' = [tick EXCEPT ![t] = tick'[t]] /\ tick'[t].pc = "rollback"
      BY <2>1, <3>1, LeftMoves
    <3> QED
      BY <3>2 DEF ClaimedSteps
  <2> QED
    BY <2>2, <2>3, <2>4
<1>4. \A p \in Rows : p = tick[t].row => RowSettled(p)'
  BY <1>1, <1>2, RowKept DEF RowMoves
<1> QED
  BY <1>1, <1>2, <1>3, <1>4, SettledTickKept

(* No step, of whatever actor, leaves a row at odds with what is on file.   *)
LEMMA SettledStep ==
    ASSUME ~SlowTicks, ~LateCancel
    PROVE  SettledInv /\ [Next]_vars => SettledInv'
<1> SUFFICES ASSUME SettledInv, [Next]_vars
             PROVE  SettledInv'
  OBVIOUS
<1>1. RecordInv' /\ TypeInv'
  BY SettledFacts, RecordStep DEF RecordInv, LoggingInv, ExclusionInv
<1> SUFFICES Settled'
  BY <1>1 DEF SettledInv
<1>2. /\ queue \in [Rows -> QueueRow] /\ runs \in Seq(Run)
      /\ Len(runs) \in Nat /\ Len(iters) \in Nat
      /\ UNCHANGED <<runs, iters>> => TablesKeep
      /\ \A u \in Ticks : tick[u].pc \in ClaimedSteps => tick[u].row \in Rows /\ InFlight(u)
      /\ \A u \in Ticks : InFlight(u) => queue[tick[u].row].status \in {"RUNNING", "PARKED"}
  BY SettledFacts, RecordFacts
  DEF TablesKeep, RunsKeepTrials, ClaimedSteps, InFlight, LoggingInv, ExclusionInv, Exclusive
<1>3. ASSUME UNCHANGED tick, TablesKeep,
             \A p \in Rows :
                /\ RowMoves(queue[p], queue'[p])
                /\ \/ queue'[p] = queue[p]
                   \/ \A u \in Ticks : InFlight(u) => tick[u].row # p
                   \/ /\ queue'[p].status = "PARKED"
                      /\ queue'[p].active = queue[p].active
                      /\ queue'[p].last = queue[p].last
      PROVE  Settled'
  <2>1. \A p \in Rows : RowSettled(p)'
    BY <1>1, <1>3, RowKept
  <2>2. ASSUME NEW u \in Ticks
        PROVE  WorksOn(tick[u])'
    BY <1>2, <1>3, WorksKept
  <2> QED
    BY <2>1, <2>2 DEF Settled
<1>4. \A p \in Rows : queue'[p] = queue[p] => RowMoves(queue[p], queue'[p])
  BY DEF RowMoves
<1>5. CASE UNCHANGED vars
  BY <1>2, <1>3, <1>4, <1>5 DEF vars
<1>6. ASSUME NEW q \in Rows, OperatorStep(q)
      PROVE  Settled'
  <2>1. /\ UNCHANGED <<tick, runs, audits, iters>>
        /\ \/ queue[q].status = "ABSENT" /\ InsertQueue(q)
           \/ CancelQueue(q)
           \/ queue[q].status = "FAILED" /\ RequeueFailed(q)
    BY <1>6 DEF OperatorStep, Enqueue, Cancel, Requeue
  <2>2. \A p \in Rows : p # q => queue'[p] = queue[p]
    BY <1>2, <2>1, CounterEffects DEF Sets
  <2>3. /\ RowMoves(queue[q], queue'[q])
        /\ \/ queue[q].status \notin {"RUNNING", "PARKED"}
           \/ /\ queue'[q].status = "PARKED"
              /\ queue'[q].active = queue[q].active
              /\ queue'[q].last = queue[q].last
    BY <1>2, <2>1, CounterEffects DEF Sets, Has, RowMoves
  <2> QED
    BY <1>2, <1>3, <1>4, <2>1, <2>2, <2>3
<1>7. ASSUME NEW q \in Rows, ClaimAges(q)
      PROVE  Settled'
  <2>1. /\ UNCHANGED <<tick, runs, audits, iters>> /\ queue[q].status = "RUNNING"
        /\ \A u \in Ticks : InFlight(u) => tick[u].row # q
        /\ queue' = [queue EXCEPT ![q].overdue = TRUE]
    BY <1>7 DEF ClaimAges
  <2>2. \A p \in Rows : p # q => queue'[p] = queue[p]
    BY <1>2, <2>1
  <2>3. RowMoves(queue[q], queue'[q])
    BY <1>2, <2>1 DEF RowMoves, QueueRow
  <2> QED
    BY <1>2, <1>3, <1>4, <2>1, <2>2, <2>3
<1>8. ASSUME NEW r \in 1..Len(runs), RunCompletes(r) \/ RunFails(r)
      PROVE  Settled'
  <2>1. UNCHANGED <<queue, tick, audits, iters>>
    BY <1>8 DEF RunCompletes, RunFails
  <2>2. RunsKeepTrials
    BY <1>8, SettledFacts, RunsEnd
  <2>3. TablesKeep
    BY <1>2, <2>1, <2>2 DEF TablesKeep
  <2> QED
    BY <1>3, <1>4, <2>1, <2>3
<1>9. CASE ProcessDies
  <2>1. UNCHANGED <<queue, runs, audits, iters>> /\ tick' = [t \in Ticks |-> IdleTick]
    BY <1>9 DEF ProcessDies
  <2>2. \A t \in Ticks : WorksOn(tick[t])'
    BY <2>1 DEF IdleTick, WorksOn, ClaimedSteps
  <2>3. \A p \in Rows : RowSettled(p)'
    BY <1>1, <1>2, <1>4, <2>1, RowKept
  <2> QED
    BY <2>2, <2>3 DEF Settled
<1>10. ASSUME NEW t \in Ticks, TickStep(t) \/ Mishap(t)
       PROVE  Settled'
  BY <1>1, <1>10, SettledClaim, SettledWork, SettledPointers, SettledDecision, SettledLetsGo,
     SettledLeaves
  DEF TickStep, Mishap
<1> QED
  BY <1>5, <1>6, <1>7, <1>8, <1>9, <1>10 DEF Next

(* Every row is settled before it is enqueued.                              *)
LEMMA SettledStart == TickInit => SettledInv
<1> SUFFICES ASSUME TickInit
             PROVE  SettledInv
  OBVIOUS
<1>1. ASSUME NEW q \in Rows
      PROVE  RowSettled(q)
  <2>1. /\ queue[q].status = "ABSENT" /\ queue[q].iter = 0 /\ queue[q].active = Null
    BY DEF TickInit, QueueInit, NoRow
  <2>2. CellsBehind(q) = 0
    BY <2>1 DEF CellsBehind
  <2> QED
    BY <2>1, <2>2 DEF RowSettled
<1>2. \A t \in Ticks : WorksOn(tick[t])
  BY DEF TickInit, IdleTick, WorksOn, ClaimedSteps
<1> QED
  BY <1>1, <1>2, RecordStart DEF SettledInv, Settled

(* The counter that claims raise and rollbacks, the reaper and requeues     *)
(* lower stays within the budget and skips no cell: each cell that a grid  *)
(* row has behind it is on file, however its ticks ended.                  *)
THEOREM CounterKeepsToEvidence ==
    ASSUME ~SlowTicks, ~LateCancel
    PROVE  Spec => []CounterIsTrue
<1>1. SettledInv => CounterIsTrue
  <2> SUFFICES ASSUME SettledInv
               PROVE  CounterIsTrue
    OBVIOUS
  <2>1. \A q \in Rows : RowSettled(q)
    BY SettledFacts
  <2>2. NoCellSkipped
    BY <2>1 DEF NoCellSkipped, RowSettled, Filed
  <2>3. WithinBudget
    BY <2>1 DEF WithinBudget, RowSettled
  <2> QED
    BY <2>2, <2>3 DEF CounterIsTrue
<1> QED
  BY <1>1, SettledStart, SettledStep, PTL DEF Spec

(* A sweep that is COMPLETED points to an iteration of its own that bears   *)
(* its final verdict out: DISCARD exactly when it found no edge.           *)
THEOREM VerdictsAreJustified ==
    ASSUME ~SlowTicks, ~LateCancel
    PROVE  Spec => []ConclusionJustified
<1>1. SettledInv => ConclusionJustified
  <2> SUFFICES ASSUME SettledInv
               PROVE  ConclusionJustified
    OBVIOUS
  <2>1. /\ \A q \in Rows : RowSettled(q)
        /\ Len(iters) \in Nat /\ Null \notin Nat
    BY SettledFacts, RecordFacts, QueueAssumption
  <2>2. Null \notin 1..Len(iters)
    BY <2>1
  <2> QED
    BY <2>1, <2>2 DEF ConclusionJustified, RowSettled
<1> QED
  BY <1>1, SettledStart, SettledStep, PTL DEF Spec

---------------------------------------------------------------------------
(* The ledger *)

Cursor(q) == IF queue[q].status \in Closed THEN 0 ELSE CellsBehind(q)

OnFile(q) == {iters[i].cell : i \in {j \in 1..Len(iters) : iters[j].row = q}}

SameEntry(q) == Phase(q)' = Phase(q) /\ Cursor(q)' = Cursor(q) /\ OnFile(q)' = OnFile(q)

PhaseMoves(q, from, to) ==
    /\ Phase(q) = from /\ Phase(q)' = to
    /\ Cursor(q)' = Cursor(q) /\ OnFile(q)' = OnFile(q)

(* The steps of the ledger, on the entry of one sweep.                      *)
EntryMoves(q) ==
    \/ PhaseMoves(q, "absent", "open")
    \/ PhaseMoves(q, "open", "failed")
    \/ PhaseMoves(q, "failed", "open")
    \/ /\ Phase(q) = "open" /\ Phase(q)' = "open"
       /\ Cursor(q) < Cells[q] /\ Cursor(q)' = Cursor(q)
       /\ OnFile(q)' = OnFile(q) \cup {Cursor(q)}
    \/ /\ Phase(q) = "open" /\ Phase(q)' = "open"
       /\ Cursor(q) \in OnFile(q) /\ Cursor(q) + 1 < IterBudget[q]
       /\ Cursor(q)' = Cursor(q) + 1 /\ OnFile(q)' = OnFile(q)
    \/ /\ Phase(q) = "open" /\ Cursor(q)' = 0 /\ OnFile(q)' = OnFile(q)
       /\ Phase(q)' = "parked" \/ (Phase(q)' = "done" /\ Cursor(q) \in OnFile(q))
    \/ /\ Phase(q) = "parked" /\ Phase(q)' = "parked" /\ Cursor(q)' = Cursor(q)
       /\ \E c \in 0..(Cells[q] - 1) : OnFile(q)' = OnFile(q) \cup {c}

(* Entries that stay the same are a stutter of the ledger, and the move of  *)
(* one entry is a step of it.                                              *)
LEMMA LedgerFrame ==
    /\ (\A q \in GridRows : SameEntry(q)) => UNCHANGED Ledger!ledger
    /\ \A s \in GridRows :
         /\ \A q \in GridRows \ {s} : SameEntry(q)
         /\ EntryMoves(s)
         => Ledger!LedgerStep(s)
<1> DEFINE ph == [q \in GridRows |-> Phase(q)]
           cu == [q \in GridRows |-> Cursor(q)]
           ev == [q \in GridRows |-> OnFile(q)]
<1>1. ASSUME \A q \in GridRows : SameEntry(q)
      PROVE  UNCHANGED Ledger!ledger
  <2>1. ph' = ph /\ cu' = cu /\ ev' = ev
    BY <1>1 DEF SameEntry
  <2> QED
    BY <2>1 DEF Ledger!ledger, Cursor, OnFile
<1>2. ASSUME NEW s \in GridRows, \A q \in GridRows \ {s} : SameEntry(q), EntryMoves(s)
      PROVE  Ledger!LedgerStep(s)
  <2>1. /\ ph' = [ph EXCEPT ![s] = Phase(s)']
        /\ cu' = [cu EXCEPT ![s] = Cursor(s)']
        /\ ev' = [ev EXCEPT ![s] = OnFile(s)']
        /\ ph[s] = Phase(s) /\ cu[s] = Cursor(s) /\ ev[s] = OnFile(s)
    BY <1>2 DEF SameEntry
  <2>2. \A from, to :
          Ledger!Move(s, from, to) <=> ph[s] = from /\ ph' = [ph EXCEPT ![s] = to]
    BY DEF Ledger!Move
  <2>3. /\ Ledger!Open(s) <=> Ledger!Move(s, "absent", "open") /\ cu' = cu /\ ev' = ev
        /\ Ledger!Fail(s) <=> Ledger!Move(s, "open", "failed") /\ cu' = cu /\ ev' = ev
        /\ Ledger!Requeue(s) <=> Ledger!Move(s, "failed", "open") /\ cu' = cu /\ ev' = ev
    BY DEF Ledger!Open, Ledger!Fail, Ledger!Requeue, Cursor, OnFile
  <2>4. /\ Ledger!Log(s) <=> /\ ph[s] = "open"
                            /\ cu[s] < [q \in GridRows |-> Cells[q]][s]
                            /\ ev' = [ev EXCEPT ![s] = @ \cup {cu[s]}]
                            /\ ph' = ph /\ cu' = cu
        /\ Ledger!Advance(s) <=> /\ ph[s] = "open"
                                /\ cu[s] \in ev[s]
                                /\ cu[s] + 1 < [q \in GridRows |-> IterBudget[q]][s]
                                /\ cu' = [cu EXCEPT ![s] = @ + 1]
                                /\ ph' = ph /\ ev' = ev
    BY DEF Ledger!Log, Ledger!Advance, Cursor, OnFile
  <2>5. /\ \A to : Ledger!Close(s, to) <=> /\ Ledger!Move(s, "open", to)
                                          /\ cu' = [cu EXCEPT ![s] = 0] /\ ev' = ev
        /\ Ledger!Conclude(s) <=>
              cu[s] \in ev[s] /\ (Ledger!Close(s, "done") \/ Ledger!Close(s, "parked"))
        /\ Ledger!Cancel(s) <=> Ledger!Close(s, "parked")
    BY DEF Ledger!Close, Ledger!Conclude, Ledger!Cancel, Cursor, OnFile
  <2>6. Ledger!LogLate(s) <=> /\ ph[s] = "parked"
                              /\ \E c \in 0..([q \in GridRows |-> Cells[q]][s] - 1) :
                                    ev' = [ev EXCEPT ![s] = @ \cup {c}]
                              /\ ph' = ph /\ cu' = cu
    BY DEF Ledger!LogLate, Cursor, OnFile
  <2>7. /\ ph = [ph EXCEPT ![s] = Phase(s)]
        /\ cu = [cu EXCEPT ![s] = Cursor(s)]
        /\ ev = [ev EXCEPT ![s] = OnFile(s)]
        /\ [q \in GridRows |-> Cells[q]][s] = Cells[s]
        /\ [q \in GridRows |-> IterBudget[q]][s] = IterBudget[s]
    BY <1>2
  <2> HIDE DEF ph, cu, ev
  <2>8. ASSUME NEW from, NEW to, PhaseMoves(s, from, to)
        PROVE  Ledger!Move(s, from, to) /\ cu' = cu /\ ev' = ev
    BY <2>1, <2>2, <2>7, <2>8 DEF PhaseMoves
  <2>9. CASE \/ PhaseMoves(s, "absent", "open")
             \/ PhaseMoves(s, "open", "failed")
             \/ PhaseMoves(s, "failed", "open")
    <3>1. Ledger!Open(s) \/ Ledger!Fail(s) \/ Ledger!Requeue(s)
      BY <2>3, <2>8, <2>9
    <3> QED
      BY <3>1 DEF Ledger!LedgerStep
  <2>10. CASE /\ Phase(s) = "open" /\ Phase(s)' = "open"
              /\ Cursor(s) < Cells[s] /\ Cursor(s)' = Cursor(s)
              /\ OnFile(s)' = OnFile(s) \cup {Cursor(s)}
    <3>1. Ledger!Log(s)
      BY <2>1, <2>4, <2>7, <2>10
    <3> QED
      BY <3>1 DEF Ledger!LedgerStep
  <2>11. CASE /\ Phase(s) = "open" /\ Phase(s)' = "open"
              /\ Cursor(s) \in OnFile(s) /\ Cursor(s) + 1 < IterBudget[s]
              /\ Cursor(s)' = Cursor(s) + 1 /\ OnFile(s)' = OnFile(s)
    <3>1. Ledger!Advance(s)
      BY <2>1, <2>4, <2>7, <2>11
    <3> QED
      BY <3>1 DEF Ledger!LedgerStep
  <2>12. CASE /\ Phase(s) = "open" /\ Cursor(s)' = 0 /\ OnFile(s)' = OnFile(s)
              /\ Phase(s)' = "parked" \/ (Phase(s)' = "done" /\ Cursor(s) \in OnFile(s))
    <3>1. Ledger!Cancel(s) \/ Ledger!Conclude(s)
      BY <2>1, <2>2, <2>5, <2>7, <2>12
    <3> QED
      BY <3>1 DEF Ledger!LedgerStep
  <2>13. CASE /\ Phase(s) = "parked" /\ Phase(s)' = "parked" /\ Cursor(s)' = Cursor(s)
              /\ \E c \in 0..(Cells[s] - 1) : OnFile(s)' = OnFile(s) \cup {c}
    <3>1. Ledger!LogLate(s)
      BY <2>1, <2>6, <2>7, <2>13
    <3> QED
      BY <3>1 DEF Ledger!LedgerStep
  <2> QED
    BY <1>2, <2>9, <2>10, <2>11, <2>12, <2>13 DEF EntryMoves
<1> QED
  BY <1>1, <1>2

LedgerNext == [\E s \in GridRows : Ledger!LedgerStep(s)]_(Ledger!ledger)

(* A row that is not written, when nothing is logged, stays as it is.       *)
LEMMA EntryStays ==
    ASSUME UNCHANGED iters, NEW q, queue'[q] = queue[q]
    PROVE  SameEntry(q)
<1>1. Phase(q)' = Phase(q)
  BY DEF Phase
<1>2. CellsBehind(q)' = CellsBehind(q)
  BY DEF CellsBehind
<1>3. Cursor(q)' = Cursor(q)
  BY <1>2 DEF Cursor
<1>4. OnFile(q)' = OnFile(q)
  BY DEF OnFile
<1> QED
  BY <1>1, <1>3, <1>4 DEF SameEntry

(* A step that logs nothing and writes one row.                             *)
LEMMA LedgerOneRow ==
    ASSUME UNCHANGED iters, NEW s \in Rows, \A p \in Rows : p # s => queue'[p] = queue[p],
           SameEntry(s) \/ EntryMoves(s)
    PROVE  LedgerNext
<1>1. ASSUME NEW p \in Rows, p # s
      PROVE  SameEntry(p)
  BY <1>1, EntryStays
<1>2. GridRows \subseteq Rows
  BY DEF GridRows
<1>3. CASE SameEntry(s) \/ s \notin GridRows
  BY <1>1, <1>2, <1>3, LedgerFrame DEF LedgerNext
<1>4. CASE EntryMoves(s) /\ s \in GridRows
  BY <1>1, <1>2, <1>4, LedgerFrame DEF LedgerNext
<1> QED
  BY <1>3, <1>4

(* A move of the row that logs nothing, as the ledger sees it.              *)
LEMMA EntryOfMove ==
    ASSUME SettledInv, TypeInv', UNCHANGED iters, NEW q \in Rows, RowMoves(queue[q], queue'[q]),
           queue'[q].status = "PARKED" => queue[q].status \in {"PENDING", "RUNNING", "PARKED"}
    PROVE  SameEntry(q) \/ EntryMoves(q)
<1> DEFINE r == queue[q]
           s == queue'[q]
<1>1. OnFile(q)' = OnFile(q)
  BY DEF OnFile
<1>2. /\ CellsBehind(q)' = CellsBehind(q) \/ s.status = "PARKED"
      /\ r.status \in Statuses /\ s.status \in Statuses
  <2>1. s \in QueueRow
    BY DEF TypeInv, TypeOK
  <2> QED
    BY <2>1, SettledFacts, CellsBehindKept DEF QueueRow
<1>3. /\ r.status = "ABSENT" => Phase(q) = "absent" /\ Cursor(q) = CellsBehind(q)
      /\ r.status \in {"PENDING", "RUNNING"} => Phase(q) = "open" /\ Cursor(q) = CellsBehind(q)
      /\ r.status = "FAILED" => Phase(q) = "failed" /\ Cursor(q) = CellsBehind(q)
      /\ r.status = "PARKED" => Phase(q) = "parked" /\ Cursor(q) = 0
      /\ r.status = "COMPLETED" => Phase(q) = "done" /\ Cursor(q) = 0
  BY DEF Phase, Cursor, Closed
<1>4. /\ s.status = "ABSENT" => Phase(q)' = "absent" /\ Cursor(q)' = CellsBehind(q)'
      /\ s.status \in {"PENDING", "RUNNING"} => Phase(q)' = "open" /\ Cursor(q)' = CellsBehind(q)'
      /\ s.status = "FAILED" => Phase(q)' = "failed" /\ Cursor(q)' = CellsBehind(q)'
      /\ s.status = "PARKED" => Phase(q)' = "parked" /\ Cursor(q)' = 0
      /\ s.status = "COMPLETED" => Phase(q)' = "done" /\ Cursor(q)' = 0
  BY DEF Phase, Cursor, Closed
<1>5. \/ s.status = r.status
      \/ s.status = "PARKED" /\ r.status \in {"PENDING", "RUNNING"}
      \/ r.status = "PENDING" /\ s.status = "RUNNING"
      \/ r.status = "RUNNING" /\ s.status \in {"PENDING", "FAILED"}
      \/ r.status \in {"FAILED", "ABSENT"} /\ s.status = "PENDING"
  BY DEF RowMoves
<1> HIDE DEF r, s
<1>6. CASE s.status = r.status
  BY <1>1, <1>2, <1>3, <1>4, <1>6 DEF SameEntry, Statuses
<1>7. CASE s.status = "PARKED" /\ r.status \in {"PENDING", "RUNNING"}
  BY <1>1, <1>3, <1>4, <1>7 DEF EntryMoves
<1>8. CASE \/ r.status = "PENDING" /\ s.status = "RUNNING"
           \/ r.status = "RUNNING" /\ s.status = "PENDING"
  BY <1>1, <1>2, <1>3, <1>4, <1>8 DEF SameEntry
<1>9. CASE \/ r.status = "RUNNING" /\ s.status = "FAILED"
           \/ r.status \in {"FAILED", "ABSENT"} /\ s.status = "PENDING"
  BY <1>1, <1>2, <1>3, <1>4, <1>9 DEF EntryMoves, PhaseMoves
<1> QED
  BY <1>5, <1>6, <1>7, <1>8, <1>9

(* The combos that were submitted are cells of their sweeps.                *)
CellsInRange ==
    /\ \A r \in 1..Len(runs) : runs[r].cell < Cells[runs[r].row]
    /\ \A t \in Ticks : tick[t].pc = "submit" => tick[t].cell < Cells[tick[t].row]

LedgerInv == SettledInv /\ CellsInRange

(* Only the step that records a trial brings a tick to the submission.      *)
LEMMA SubmitsRecorded ==
    ASSUME TypeInv, NEW t \in Ticks, TickStep(t) \/ Mishap(t), ~RecordTrial(t)
    PROVE  tick' = [tick EXCEPT ![t] = tick'[t]] /\ tick'[t].pc # "submit"
<1> DEFINE k == tick[t]
<1>1. tick \in [Ticks -> TickLocals] /\ k \in TickLocals
  BY DEF TypeInv, TypeOK
<1>2. ASSUME NEW pc, pc # "submit", Goto(t, pc)
      PROVE  tick' = [tick EXCEPT ![t] = tick'[t]] /\ tick'[t].pc # "submit"
  BY <1>1, <1>2 DEF Goto, TickLocals
<1>3. ASSUME NEW l, l.pc # "submit", tick' = [tick EXCEPT ![t] = l]
      PROVE  tick' = [tick EXCEPT ![t] = tick'[t]] /\ tick'[t].pc # "submit"
  BY <1>1, <1>3
<1>4. CASE Recover(t) \/ EmptyQueue(t) \/ StoreActiveRun(t) \/ PollCompleted(t)
  BY <1>2, <1>4 DEF Recover, EmptyQueue, StoreActiveRun, PollCompleted
<1>5. CASE Claim(t)
  BY <1>3, <1>5 DEF Claim, IdleTick
<1>6. CASE Resume(t)
  <2> DEFINE r == k.run
             a == LatestUnattached(k.row)
             pc == IF runs[r].state = "COMPLETED" THEN "find" ELSE "poll"
             cell == IF a = Null THEN Null ELSE audits[a].cell
             m == CountTrials(k.row)
             l == [k EXCEPT !.pc = pc, !.audit = a, !.trials = m, !.cell = cell]
  <2>1. Goto(t, "derive") \/ tick' = [tick EXCEPT ![t] = l]
    BY <1>1, <1>6 DEF Resume
  <2>2. l.pc # "submit"
    <3>1. pc # "submit"
      OBVIOUS
    <3> HIDE DEF k, pc, a, m, cell
    <3> QED
      BY <1>1, <3>1 DEF TickLocals, k
  <2> HIDE DEF l
  <2> QED
    BY <1>2, <1>3, <2>1, <2>2
<1>7. CASE SubmitAccepted(t) \/ FindIteration(t) \/ LogEvidence(t)
  <2>1. ASSUME NEW pc, NEW run, NEW i, pc # "submit"
        PROVE  /\ [k EXCEPT !.pc = pc, !.run = run].pc # "submit"
               /\ [k EXCEPT !.pc = pc, !.iter = i].pc # "submit"
    BY <1>1, <2>1 DEF TickLocals
  <2>2. CASE SubmitAccepted(t)
    <3>1. tick' = [tick EXCEPT ![t] = [k EXCEPT !.pc = "store", !.run = Len(runs) + 1]]
      BY <1>1, <2>2 DEF SubmitAccepted
    <3> QED
      BY <1>3, <2>1, <3>1
  <2>3. CASE FindIteration(t)
    <3> DEFINE i == FindIterationForRun(k.run)
               pc == IF i = Null THEN "log" ELSE "attach"
    <3>1. tick' = [tick EXCEPT ![t] = [k EXCEPT !.pc = pc, !.iter = i]] /\ pc # "submit"
      BY <1>1, <2>3 DEF FindIteration
    <3> HIDE DEF i, pc
    <3> QED
      BY <1>3, <2>1, <3>1
  <2>4. CASE LogEvidence(t)
    <3>1. tick' = [tick EXCEPT ![t] = [k EXCEPT !.pc = "attach", !.iter = Len(iters) + 1]]
      BY <1>1, <2>4 DEF LogEvidence
    <3> QED
      BY <1>3, <2>1, <3>1
  <2> QED
    BY <1>7, <2>2, <2>3, <2>4
<1>8. CASE SubmitUnanswered(t) \/ TickFails(t)
  BY <1>3, <1>8 DEF SubmitUnanswered, TickFails, Left, IdleTick
<1>9. CASE Attach(t)
  BY <1>2, <1>3, <1>9 DEF Attach, Left, IdleTick
<1>10. CASE LetsGo(t)
  BY <1>10 DEF LetsGo
<1> QED
  BY <1>4, <1>5, <1>6, <1>7, <1>8, <1>9, <1>10, GoesOnOrLetsGo DEF TickStep, Mishap

(* No run is new, and no tick has come to a new combo.                      *)
LEMMA RangeKept ==
    ASSUME RecordInv, CellsInRange, RunsKeepTrials, Len(runs') = Len(runs),
           \A t \in Ticks : tick'[t].pc = "submit" =>
              tick'[t] = tick[t] \/ tick'[t].cell < Cells[tick'[t].row]
    PROVE  CellsInRange'
<1>1. Len(runs) \in Nat
  BY RecordFacts
<1> QED
  BY <1>1 DEF CellsInRange, RunsKeepTrials

(* The combo a tick derives is one of the sweep's.                          *)
LEMMA RangeRecord ==
    ASSUME RecordInv, CellsInRange, NEW t \in Ticks, RecordTrial(t)
    PROVE  CellsInRange'
<1> DEFINE k == tick[t]
           m == CountTrials(k.row)
           n == Len(audits) + 1
<1>1. PICK c \in Combos(k.row, k.prior) :
        /\ audits' = Append(audits, [row |-> k.row, cell |-> c, iter |-> Null])
        /\ tick' = [tick EXCEPT ![t] = [k EXCEPT !.pc = "submit", !.cell = c,
                                                 !.trials = CountTrials(k.row),
                                                 !.audit = n]]
  BY RecordFacts DEF RecordTrial
<1>2. k.pc = "derive" /\ UNCHANGED runs
  BY DEF RecordTrial
<1>3. /\ k.row \in Rows /\ k.prior \in Nat /\ Cells[k.row] \in Nat \ {0}
      /\ tick \in [Ticks -> TickLocals] /\ k \in TickLocals /\ Len(runs) \in Nat
  BY <1>2, RecordFacts, TickAssumption DEF TickLocals
<1>4. c < Cells[k.row]
  BY <1>3 DEF Combos
<1> DEFINE l == [k EXCEPT !.pc = "submit", !.cell = c, !.trials = m, !.audit = n]
<1>5. l.cell = c /\ l.row = k.row
  <2> HIDE DEF k, m, n
  <2> QED
    BY <1>3 DEF TickLocals
<1>6. tick'[t] = l /\ \A u \in Ticks : u # t => tick'[u] = tick[u]
  BY <1>1, <1>3
<1>7. RunsKeepTrials /\ Len(runs') = Len(runs)
  BY <1>2, <1>3 DEF RunsKeepTrials
<1> HIDE DEF l
<1> QED
  BY <1>4, <1>5, <1>6, <1>7, RangeKept

(* Every step of a tick keeps the combos within the sweep.                  *)
LEMMA RangeTickStep ==
    ASSUME RecordInv, CellsInRange, NEW t \in Ticks, TickStep(t) \/ Mishap(t)
    PROVE  CellsInRange'
<1> DEFINE k == tick[t]
<1>1. /\ TypeInv /\ tick \in [Ticks -> TickLocals] /\ tick[t] \in TickLocals
      /\ runs \in Seq(Run) /\ Len(runs) \in Nat
      /\ \A u \in Ticks : tick[u].pc \notin {"idle", "claim"} => tick[u].row \in Rows
  BY RecordFacts
<1>2. ASSUME RunsKeepTrials, Len(runs') = Len(runs),
             \A u \in Ticks : tick'[u].pc = "submit" =>
                tick'[u] = tick[u] \/ tick'[u].cell < Cells[tick'[u].row]
      PROVE  CellsInRange'
  BY <1>2, RangeKept
<1>3. UNCHANGED runs => RunsKeepTrials /\ Len(runs') = Len(runs)
  BY <1>1 DEF RunsKeepTrials
<1>4. CASE RecordTrial(t)
  BY <1>4, RangeRecord
<1>5. CASE ~RecordTrial(t)
  <2>1. \A u \in Ticks : tick'[u].pc = "submit" => tick'[u] = tick[u]
    <3>1. tick' = [tick EXCEPT ![t] = tick'[t]] /\ tick'[t].pc # "submit"
      BY <1>1, <1>5, SubmitsRecorded
    <3>2. \A u \in Ticks : u # t => tick'[u] = tick[u]
      BY <1>1, <3>1
    <3> QED
      BY <3>1, <3>2
  <2>2. CASE UNCHANGED runs
    BY <1>2, <1>3, <2>1, <2>2
  <2>3. CASE tick[t].pc = "submit" /\ runs' = Append(runs, NewRun(t))
    <3>1. /\ Len(runs') = Len(runs) + 1 /\ runs'[Len(runs) + 1] = NewRun(t)
          /\ \A r \in 1..Len(runs) : runs'[r] = runs[r]
      BY <1>1, <2>3
    <3>2. NewRun(t).cell < Cells[NewRun(t).row]
      BY <2>3 DEF NewRun, CellsInRange
    <3>3. \A r \in 1..Len(runs') : runs'[r].cell < Cells[runs'[r].row]
      BY <1>1, <3>1, <3>2 DEF CellsInRange
    <3> QED
      BY <2>1, <3>3 DEF CellsInRange
  <2> QED
    <3>1. CASE SubmitAccepted(t) \/ SubmitUnanswered(t)
      BY <2>3, <3>1 DEF SubmitAccepted, SubmitUnanswered
    <3>2. CASE Recover(t) \/ Claim(t) \/ EmptyQueue(t) \/ Resume(t)
      <4>1. Recover(t) \/ EmptyQueue(t) => UNCHANGED runs
        BY DEF Recover, EmptyQueue
      <4>2. Claim(t) => UNCHANGED runs
        BY DEF Claim
      <4>3. Resume(t) => UNCHANGED runs
        BY <1>1 DEF Resume
      <4> QED
        BY <2>2, <3>2, <4>1, <4>2, <4>3
    <3>3. CASE Exhausted(t) \/ StoreActiveRun(t) \/ PollCompleted(t) \/ PollDead(t)
      BY <2>2, <3>3 DEF Exhausted, StoreActiveRun, PollCompleted, PollDead
    <3>4. CASE PollCapExpires(t) \/ FindIteration(t) \/ LogEvidence(t) \/ Attach(t)
      BY <2>2, <3>4 DEF PollCapExpires, FindIteration, LogEvidence, Attach
    <3>5. CASE DecideNextState(t) \/ Reply(t) \/ Rollback(t) \/ Mishap(t)
      BY <2>2, <3>1, <3>5
      DEF DecideNextState, Reply, Rollback, Mishap, ConfigError, TickFails, RollbackFails
    <3> QED
      BY <1>5, <3>1, <3>2, <3>3, <3>4, <3>5 DEF TickStep
<1> QED
  BY <1>4, <1>5

(* So does every other step.                                                *)
LEMMA RangeStep ==
    ASSUME RecordInv, CellsInRange, [Next]_vars
    PROVE  CellsInRange'
<1>1. /\ TypeInv /\ tick \in [Ticks -> TickLocals] /\ runs \in Seq(Run) /\ Len(runs) \in Nat
      /\ \A t \in Ticks : tick[t].pc \notin {"idle", "claim"} => tick[t].row \in Rows
  BY RecordFacts
<1>2. ASSUME UNCHANGED runs, \A t \in Ticks : tick'[t].pc = "submit" => tick'[t] = tick[t]
      PROVE  CellsInRange'
  <2>1. RunsKeepTrials /\ Len(runs') = Len(runs)
    BY <1>1, <1>2 DEF RunsKeepTrials
  <2> QED
    BY <1>2, <2>1, RangeKept
<1>3. ASSUME NEW r \in 1..Len(runs), RunCompletes(r) \/ RunFails(r)
      PROVE  CellsInRange'
  <2>1. UNCHANGED tick /\ Len(runs') = Len(runs)
    BY <1>1, <1>3 DEF RunCompletes, RunFails
  <2> QED
    BY <1>3, <2>1, RunsEnd, RangeKept
<1>4. CASE ProcessDies
  BY <1>2, <1>4 DEF ProcessDies, IdleTick
<1>5. CASE UNCHANGED vars \/ \E q \in Rows : OperatorStep(q) \/ ClaimAges(q)
  BY <1>2, <1>5 DEF vars, OperatorStep, Enqueue, Cancel, Requeue, ClaimAges
<1> QED
  BY <1>3, <1>4, <1>5, RangeTickStep DEF Next

(* What a tick does to the ledger.  Logging puts the cell the counter is at *)
(* on file, or any cell of a sweep cancelled meanwhile; the decision moves  *)
(* on from a cell on file; no other step of a tick is more than a move of  *)
(* its row.                                                                *)
LEMMA LedgerLog ==
    ASSUME LedgerInv, NEW t \in Ticks, LogEvidence(t)
    PROVE  LedgerNext
<1> DEFINE k == tick[t]
<1> PICK q : q = k.row
  OBVIOUS
<1>1. /\ SettledInv /\ UNCHANGED <<queue, runs>> /\ k.pc = "log"
      /\ q \in Rows /\ k.run \in 1..Len(runs) /\ runs[k.run].row = q
      /\ runs[k.run].cell = k.cell /\ k.cell \in Nat \cup {Null}
      /\ runs[k.run] \in Run
      /\ queue[q].status \in {"RUNNING", "PARKED"}
      /\ iters \in Seq(Iteration) /\ Len(iters) \in Nat /\ Cells[q] \in Nat \ {0}
  <2>1. SettledInv /\ UNCHANGED <<queue, runs>> /\ k.pc = "log"
    BY DEF LedgerInv, LogEvidence
  <2>2. k.pc \in RunSteps /\ InFlight(t) /\ HasTrial(k) /\ k.pc # "submit"
    BY <2>1 DEF RunSteps, InFlight, ClaimedSteps, HasTrial
  <2>3. q \in Rows /\ k.run \in 1..Len(runs) /\ runs[k.run].row = q /\ k \in TickLocals
    BY <2>1, <2>2, SettledFacts, RecordFacts
  <2>4. runs[k.run].cell = k.cell
    BY <2>1, <2>2, SettledFacts, RecordFacts DEF Recorded, TrialInHand
  <2>5. queue[q].status \in {"RUNNING", "PARKED"}
    BY <2>1, <2>2, SettledFacts, RecordFacts DEF LoggingInv, ExclusionInv, Exclusive
  <2>6. runs[k.run] \in Run
    BY <2>1, <2>3, SettledFacts, RecordFacts, ElementOfSeq
  <2> QED
    BY <2>1, <2>3, <2>4, <2>5, <2>6, SettledFacts, RecordFacts DEF TickLocals
<1>2. /\ k.cell \in Nat /\ k.cell < Cells[q]
      /\ queue[q].status = "RUNNING" /\ Sampler[q] = "grid" => k.cell = CellsBehind(q)
  <2>1. k.cell \in Nat /\ k.cell < Cells[q]
    BY <1>1 DEF LedgerInv, CellsInRange, Run
  <2>2. ASSUME queue[q].status = "RUNNING", Sampler[q] = "grid"
        PROVE  k.cell = CellsBehind(q)
    <3>1. WorksOn(k) /\ k.prior \in Nat /\ k.pc \in ClaimedSteps /\ k.pc \in RunSteps
      BY <1>1, SettledFacts, RecordFacts DEF ClaimedSteps, RunSteps, TickLocals
    <3>2. queue[q].iter = k.prior + 1 /\ runs[k.run].cell = k.prior
      BY <2>2, <3>1 DEF WorksOn
    <3> QED
      BY <1>1, <2>2, <3>1, <3>2 DEF CellsBehind, Decrement
  <2> QED
    BY <2>1, <2>2
<1>3. PICK e : iters' = Append(iters, e) /\ e.row = q /\ e.cell = k.cell
  BY DEF LogEvidence
<1>4. ASSUME NEW p
      PROVE  OnFile(p)' = IF p = q THEN OnFile(p) \cup {k.cell} ELSE OnFile(p)
  <2>1. /\ 1..Len(iters') = (1..Len(iters)) \cup {Len(iters) + 1}
        /\ iters'[Len(iters) + 1] = e
        /\ \A i \in 1..Len(iters) : iters'[i] = iters[i]
    BY <1>1, <1>3
  <2> QED
    BY <1>3, <2>1 DEF OnFile
<1>5. \A p : Phase(p)' = Phase(p) /\ Cursor(p)' = Cursor(p)
  BY <1>1 DEF Phase, Cursor, CellsBehind
<1> PICK c : c = k.cell
  OBVIOUS
<1>6. \A p \in GridRows : p # q => SameEntry(p)
  BY <1>4, <1>5 DEF SameEntry
<1>7. ASSUME q \in GridRows
      PROVE  EntryMoves(q)
  <2>1. OnFile(q)' = OnFile(q) \cup {c}
    BY <1>4
  <2>2. CASE queue[q].status = "RUNNING"
    <3>1. Phase(q) = "open" /\ Cursor(q) = CellsBehind(q) /\ CellsBehind(q) = c
      BY <1>2, <1>7, <2>2 DEF Phase, Cursor, Closed, GridRows
    <3> QED
      BY <1>2, <1>5, <2>1, <3>1 DEF EntryMoves
  <2>3. CASE queue[q].status = "PARKED"
    <3>1. Phase(q) = "parked" /\ c \in 0..(Cells[q] - 1)
      BY <1>1, <1>2, <2>3 DEF Phase
    <3> QED
      BY <1>5, <2>1, <3>1 DEF EntryMoves
  <2> QED
    BY <1>1, <2>2, <2>3
<1> QED
  BY <1>6, <1>7, LedgerFrame DEF LedgerNext

(* The decision moves a grid row on from a cell that is on file.            *)
LEMMA LedgerDecision ==
    ASSUME LedgerInv, NEW t \in Ticks, DecideNextState(t)
    PROVE  LedgerNext
<1> DEFINE k == tick[t]
<1> PICK q, c : q = k.row /\ c = k.prior
  OBVIOUS
<1>1. /\ SettledInv /\ UNCHANGED iters /\ q \in Rows /\ c \in Nat
      /\ k.iter \in 1..Len(iters) /\ iters[k.iter].row = q
      /\ \A p \in Rows : p # q => queue'[p] = queue[p]
      /\ \/ UNCHANGED queue
         \/ /\ queue[q].status = "RUNNING"
            /\ Sampler[q] = "grid" => iters[k.iter].cell = c
            /\ CellsBehind(q) = c
            /\ \/ queue'[q].status = "PARKED"
               \/ queue'[q].status = "PENDING" /\ queue'[q].iter = c + 1 /\ c + 1 < IterBudget[q]
               \/ queue'[q].status = "COMPLETED"
  <2>1. SettledInv
    BY DEF LedgerInv
  <2> QED
    BY <2>1, DecisionEffects
<1>2. OnFile(q)' = OnFile(q)
  BY <1>1 DEF OnFile
<1>3. Sampler[q] = "grid" /\ queue[q].status = "RUNNING" /\ ~UNCHANGED queue => c \in OnFile(q)
  BY <1>1 DEF OnFile
<1>4. CASE UNCHANGED queue
  BY <1>1, <1>4, EntryStays, LedgerOneRow
<1>5. CASE ~UNCHANGED queue /\ Sampler[q] = "grid"
  <2>1. Phase(q) = "open" /\ Cursor(q) = c /\ c \in OnFile(q)
    BY <1>1, <1>3, <1>5 DEF Phase, Cursor, Closed
  <2>2. CASE queue'[q].status \in {"PARKED", "COMPLETED"}
    <3>1. Phase(q)' \in {"parked", "done"} /\ Cursor(q)' = 0
      BY <2>2 DEF Phase, Cursor, Closed
    <3>2. EntryMoves(q)
      BY <1>2, <2>1, <3>1 DEF EntryMoves
    <3> QED
      BY <1>1, <3>2, LedgerOneRow
  <2>3. CASE queue'[q].status = "PENDING" /\ queue'[q].iter = c + 1 /\ c + 1 < IterBudget[q]
    <3>1. Phase(q)' = "open"
      BY <2>3 DEF Phase
    <3>2. CellsBehind(q)' = c + 1
      BY <2>3 DEF CellsBehind
    <3>3. Cursor(q)' = c + 1
      BY <2>3, <3>2 DEF Cursor, Closed
    <3>4. EntryMoves(q)
      BY <1>2, <2>1, <2>3, <3>1, <3>3 DEF EntryMoves
    <3> QED
      BY <1>1, <3>4, LedgerOneRow
  <2> QED
    BY <1>1, <1>5, <2>2, <2>3
<1>6. CASE ~UNCHANGED queue /\ Sampler[q] # "grid"
  <2>1. \A p \in GridRows : p # q /\ p \in Rows
    BY <1>6 DEF GridRows
  <2>2. \A p \in GridRows : SameEntry(p)
    BY <1>1, <2>1, EntryStays
  <2> QED
    BY <2>2, LedgerFrame DEF LedgerNext
<1> QED
  BY <1>4, <1>5, <1>6

(* The statement that moves one row and logs nothing.                       *)
LEMMA LedgerMove ==
    ASSUME SettledInv, TypeInv', UNCHANGED iters, NEW q \in Rows,
           \A p \in Rows : p # q => queue'[p] = queue[p], RowMoves(queue[q], queue'[q]),
           queue'[q].status = "PARKED" => queue[q].status \in {"PENDING", "RUNNING", "PARKED"}
    PROVE  LedgerNext
BY EntryOfMove, LedgerOneRow

(* Every step of a tick is a move of one entry of the ledger, or of none.   *)
LEMMA LedgerTickStep ==
    ASSUME LedgerInv, TypeInv', NEW t \in Ticks, TickStep(t) \/ Mishap(t)
    PROVE  LedgerNext
<1>1. /\ SettledInv /\ TypeInv /\ queue \in [Rows -> QueueRow]
      /\ GridRows \subseteq Rows
      /\ tick[t].pc \notin {"idle", "claim"} => tick[t].row \in Rows
  BY SettledFacts, RecordFacts DEF LedgerInv, GridRows
<1>2. ASSUME UNCHANGED iters, \A p \in Rows : queue'[p] = queue[p]
      PROVE  LedgerNext
  BY <1>1, <1>2, EntryStays, LedgerFrame DEF LedgerNext
<1>3. CASE EmptyQueue(t) \/ Resume(t) \/ RecordTrial(t) \/ SubmitAccepted(t) \/ SubmitUnanswered(t)
           \/ PollCompleted(t) \/ FindIteration(t) \/ Reply(t) \/ TickFails(t) \/ RollbackFails(t)
  <2>1. UNCHANGED <<queue, iters>>
    <3>1. CASE EmptyQueue(t) \/ SubmitAccepted(t) \/ SubmitUnanswered(t) \/ PollCompleted(t)
      BY <3>1 DEF EmptyQueue, SubmitAccepted, SubmitUnanswered, PollCompleted
    <3>2. CASE FindIteration(t) \/ Reply(t) \/ TickFails(t) \/ RollbackFails(t)
      BY <3>2 DEF FindIteration, Reply, TickFails, RollbackFails
    <3>3. CASE Resume(t)
      BY <1>1, <3>3 DEF Resume
    <3>4. CASE RecordTrial(t)
      BY <3>4 DEF RecordTrial
    <3> QED
      BY <1>3, <3>1, <3>2, <3>3, <3>4
  <2> QED
    BY <1>2, <2>1
<1>4. CASE Recover(t)
  <2>1. UNCHANGED iters /\ \A p \in Rows : queue'[p] = Recovered(queue[p])
    BY <1>4 DEF Recover, RecoverStuck
  <2>2. ASSUME NEW p \in Rows
        PROVE  SameEntry(p)
    <3>1. CASE queue'[p] = queue[p]
      BY <2>1, <3>1, EntryStays
    <3>2. CASE queue'[p] # queue[p]
      <4>1. queue[p].status = "RUNNING" /\ queue[p].overdue /\ queue[p] \in QueueRow
        BY <1>1, <2>1, <3>2 DEF Recovered
      <4>2. /\ queue'[p].status = "PENDING" /\ queue'[p].iter = Decrement(queue[p].iter)
        BY <2>1, <4>1 DEF Recovered, QueueRow
      <4>3. Phase(p) = "open" /\ Phase(p)' = "open"
        BY <4>1, <4>2 DEF Phase
      <4>4. CellsBehind(p)' = CellsBehind(p)
        BY <4>1, <4>2 DEF CellsBehind
      <4>5. Cursor(p)' = Cursor(p)
        BY <4>1, <4>2, <4>4 DEF Cursor, Closed
      <4>6. OnFile(p)' = OnFile(p)
        BY <2>1 DEF OnFile
      <4> QED
        BY <4>3, <4>5, <4>6 DEF SameEntry
    <3> QED
      BY <3>1, <3>2
  <2> QED
    BY <1>1, <2>2, LedgerFrame DEF LedgerNext
<1>5. CASE Claim(t)
  <2>1. PICK q \in Rows, now \in Fences : queue[q].status = "PENDING" /\ ClaimRow(q, now)
    BY <1>5 DEF Claim, FirstPending, InStatus
  <2>2. Sets(q, "RUNNING", queue[q].iter + 1, queue[q].active, queue[q].last, queue[q].verdict)
    BY <1>1, <2>1, CounterEffects
  <2>3. /\ UNCHANGED iters /\ \A p \in Rows : p # q => queue'[p] = queue[p]
        /\ RowMoves(queue[q], queue'[q]) /\ queue'[q].status = "RUNNING"
    BY <1>5, <2>1, <2>2 DEF Claim, Sets, Has, RowMoves
  <2> QED
    BY <1>1, <2>3, LedgerMove
<1>6. CASE Exhausted(t) \/ ConfigError(t) \/ PollDead(t) \/ PollCapExpires(t) \/ Rollback(t)
  BY <1>1, <1>6, LetsGoEffects, LedgerMove
<1>7. CASE StoreActiveRun(t) \/ Attach(t)
  <2>1. UNCHANGED iters /\ tick[t].row \in Rows
    BY <1>1, <1>7 DEF StoreActiveRun, Attach
  <2> PICK q : q = tick[t].row
    OBVIOUS
  <2>2. \/ UNCHANGED queue
        \/ \E active, last :
              Sets(q, queue[q].status, queue[q].iter, active, last, queue[q].verdict)
    <3>1. \/ SetActiveRun(q, tick[t].run)
          \/ AttachIteration(q, tick[t].iter, tick[t].fence)
      BY <1>7 DEF StoreActiveRun, Attach
    <3> QED
      BY <1>1, <2>1, <3>1, CounterEffects DEF SetsIfRunning
  <2>3. ASSUME NEW p \in Rows
        PROVE  SameEntry(p)
    <3>1. queue'[p] = queue[p] \/ (queue'[p].status = queue[p].status /\ queue'[p].iter = queue[p].iter)
      BY <2>2 DEF Sets, Has
    <3>2. Phase(p)' = Phase(p)
      BY <3>1 DEF Phase
    <3>3. CellsBehind(p)' = CellsBehind(p)
      BY <3>1 DEF CellsBehind
    <3>4. Cursor(p)' = Cursor(p)
      BY <3>1, <3>3 DEF Cursor
    <3> QED
      BY <2>1, <3>2, <3>4 DEF SameEntry, OnFile
  <2> QED
    BY <1>1, <2>3, LedgerFrame DEF LedgerNext
<1> QED
  BY <1>3, <1>4, <1>5, <1>6, <1>7, LedgerLog, LedgerDecision DEF TickStep, Mishap

(* Every step is a step of the ledger or a stutter.                         *)
LEMMA LedgerStep ==
    ASSUME ~SlowTicks, ~LateCancel
    PROVE  LedgerInv /\ [Next]_vars => LedgerInv' /\ LedgerNext
<1> SUFFICES ASSUME LedgerInv, [Next]_vars
             PROVE  LedgerInv' /\ LedgerNext
  OBVIOUS
<1>1. /\ SettledInv /\ RecordInv /\ CellsInRange
      /\ queue \in [Rows -> QueueRow] /\ GridRows \subseteq Rows
  BY SettledFacts, RecordFacts DEF LedgerInv, GridRows
<1>2. LedgerInv'
  BY <1>1, SettledStep, RangeStep DEF LedgerInv
<1>3. TypeInv'
  BY <1>2 DEF LedgerInv, SettledInv, RecordInv, LoggingInv, ExclusionInv
<1> SUFFICES LedgerNext
  BY <1>2
<1>4. ASSUME UNCHANGED iters, \A p \in Rows : queue'[p] = queue[p]
      PROVE  LedgerNext
  BY <1>1, <1>4, EntryStays, LedgerFrame DEF LedgerNext
<1>5. CASE UNCHANGED vars \/ ProcessDies
  BY <1>4, <1>5 DEF vars, ProcessDies
<1>6. ASSUME NEW r \in 1..Len(runs), RunCompletes(r) \/ RunFails(r)
      PROVE  LedgerNext
  BY <1>4, <1>6 DEF RunCompletes, RunFails
<1>7. ASSUME NEW q \in Rows, ClaimAges(q)
      PROVE  LedgerNext
  <2>1. /\ UNCHANGED iters /\ queue[q].status = "RUNNING"
        /\ queue' = [queue EXCEPT ![q].overdue = TRUE]
    BY <1>7 DEF ClaimAges
  <2>2. \A p \in Rows : p # q => queue'[p] = queue[p]
    BY <1>1, <2>1
  <2>3. RowMoves(queue[q], queue'[q]) /\ queue'[q].status = "RUNNING"
    BY <1>1, <2>1 DEF RowMoves, QueueRow
  <2> QED
    BY <1>1, <1>3, <2>1, <2>2, <2>3, LedgerMove
<1>8. ASSUME NEW q \in Rows, OperatorStep(q)
      PROVE  LedgerNext
  <2>1. /\ UNCHANGED iters
        /\ \/ queue[q].status = "ABSENT" /\ InsertQueue(q)
           \/ queue[q].status \in {"PENDING", "RUNNING"} /\ CancelQueue(q)
           \/ queue[q].status = "FAILED" /\ RequeueFailed(q)
    BY <1>8 DEF OperatorStep, Enqueue, Cancel, Requeue
  <2>2. \A p \in Rows : p # q => queue'[p] = queue[p]
    BY <1>1, <2>1, CounterEffects DEF Sets
  <2>3. /\ RowMoves(queue[q], queue'[q])
        /\ queue'[q].status = "PARKED" => queue[q].status \in {"PENDING", "RUNNING"}
    BY <1>1, <2>1, CounterEffects DEF Sets, Has, RowMoves
  <2> QED
    BY <1>1, <1>3, <2>1, <2>2, <2>3, LedgerMove
<1>9. CASE \E t \in Ticks : TickStep(t) \/ Mishap(t)
  BY <1>3, <1>9, LedgerTickStep
<1> QED
  BY <1>5, <1>6, <1>7, <1>8, <1>9 DEF Next

(* An empty queue is an empty ledger.                                       *)
LEMMA LedgerStart == TickInit => LedgerInv /\ Ledger!Init
<1> SUFFICES ASSUME TickInit
             PROVE  LedgerInv /\ Ledger!Init
  OBVIOUS
<1>1. CellsInRange
  BY DEF TickInit, IdleTick, CellsInRange
<1>2. \A q \in Rows : Phase(q) = "absent" /\ Cursor(q) = 0 /\ OnFile(q) = {}
  <2>1. \A q \in Rows : queue[q].status = "ABSENT"
    BY DEF TickInit, QueueInit, NoRow
  <2> QED
    BY <2>1 DEF TickInit, Phase, Cursor, CellsBehind, Closed, OnFile
<1>3. Ledger!Init
  BY <1>2 DEF Ledger!Init, GridRows, Cursor, OnFile
<1> QED
  BY <1>1, <1>3, SettledStart DEF LedgerInv

(* Whatever its ticks do, a grid row behaves as the ledger promises: its    *)
(* cells go on file in order, the counter passes a cell only once it is on  *)
(* file, and the row concludes on evidence or because its cells are spent. *)
THEOREM QueueKeepsTheLedger ==
    ASSUME ~SlowTicks, ~LateCancel
    PROVE  Spec => ImplementsLedger
<1>1. LedgerInv /\ [Next]_vars => LedgerInv' /\ LedgerNext
  BY LedgerStep
<1>2. TickInit => LedgerInv /\ Ledger!Init
  BY LedgerStart
<1> QED
  BY <1>1, <1>2, PTL DEF Spec, ImplementsLedger, Ledger!Spec, LedgerNext

(* What the ledger promises amounts to, in the entry of a row: no gap below *)
(* its cursor.                                                             *)
EntryWhole(q) ==
    /\ Cursor(q) \in Nat /\ (Phase(q) = "absent" => Cursor(q) = 0)
    /\ Phase(q) \in {"open", "failed"} =>
          0..(Cursor(q) - 1) \subseteq OnFile(q) /\ Cursor(q) < IterBudget[q]

LEMMA EntriesKeep ==
    ASSUME \A q \in GridRows : EntryWhole(q), LedgerNext
    PROVE  \A q \in GridRows : EntryWhole(q)'
<1> DEFINE ph == [q \in GridRows |-> Phase(q)]
           cu == [q \in GridRows |-> Cursor(q)]
           ev == [q \in GridRows |-> OnFile(q)]
           Whole(p, c, e, q) ==
              /\ c \in Nat /\ (p = "absent" => c = 0)
              /\ p \in {"open", "failed"} => 0..(c - 1) \subseteq e /\ c < IterBudget[q]
<1>1. /\ \A q \in GridRows : EntryWhole(q) <=> Whole(ph[q], cu[q], ev[q], q)
      /\ \A q \in GridRows : EntryWhole(q)' <=> Whole(ph'[q], cu'[q], ev'[q], q)
  BY DEF EntryWhole
<1>2. /\ ph = [q \in GridRows |-> ph[q]] /\ cu = [q \in GridRows |-> cu[q]]
      /\ ev = [q \in GridRows |-> ev[q]]
  OBVIOUS
<1>3. GridRows \subseteq Rows /\ IterBudget \in [Rows -> Nat \ {0}]
  BY TickAssumption DEF GridRows
<1>4. CASE UNCHANGED Ledger!ledger
  <2>1. ph' = ph /\ cu' = cu /\ ev' = ev
    BY <1>4 DEF Ledger!ledger, Cursor, OnFile
  <2> HIDE DEF ph, cu, ev, Whole
  <2> QED
    BY <1>1, <2>1
<1>5. ASSUME NEW s \in GridRows, Ledger!LedgerStep(s)
      PROVE  \A q \in GridRows : EntryWhole(q)'
  <2>1. \A from, to : Ledger!Move(s, from, to) <=> ph[s] = from /\ ph' = [ph EXCEPT ![s] = to]
    BY DEF Ledger!Move
  <2>2. /\ Ledger!Open(s) <=> Ledger!Move(s, "absent", "open") /\ cu' = cu /\ ev' = ev
        /\ Ledger!Fail(s) <=> Ledger!Move(s, "open", "failed") /\ cu' = cu /\ ev' = ev
        /\ Ledger!Requeue(s) <=> Ledger!Move(s, "failed", "open") /\ cu' = cu /\ ev' = ev
    BY DEF Ledger!Open, Ledger!Fail, Ledger!Requeue, Cursor, OnFile
  <2>3. /\ Ledger!Log(s) => ph[s] = "open" /\ ev' = [ev EXCEPT ![s] = @ \cup {cu[s]}] /\ ph' = ph /\ cu' = cu
        /\ Ledger!Advance(s) => /\ ph[s] = "open" /\ cu[s] \in ev[s]
                                /\ cu[s] + 1 < [q \in GridRows |-> IterBudget[q]][s]
                                /\ cu' = [cu EXCEPT ![s] = @ + 1]
                                /\ ph' = ph /\ ev' = ev
    BY DEF Ledger!Log, Ledger!Advance, Cursor, OnFile
  <2>4. \A to : Ledger!Close(s, to) =>
            ph[s] = "open" /\ ph' = [ph EXCEPT ![s] = to] /\ cu' = [cu EXCEPT ![s] = 0] /\ ev' = ev
    BY DEF Ledger!Close, Ledger!Move, Cursor, OnFile
  <2>5. Ledger!LogLate(s) => /\ ph[s] = "parked" /\ ph' = ph /\ cu' = cu
                             /\ \E c : ev' = [ev EXCEPT ![s] = @ \cup {c}]
    BY DEF Ledger!LogLate, Cursor, OnFile
  <2>6. [q \in GridRows |-> IterBudget[q]][s] = IterBudget[s]
    OBVIOUS
  <2> HIDE DEF ph, cu, ev
  <2>7. \A q \in GridRows : Whole(ph[q], cu[q], ev[q], q)
    BY <1>1
  <2>8. ASSUME NEW from \in {"absent", "open", "failed"}, NEW to \in {"open", "failed"},
               from = "absent" => to = "open",
               ph[s] = from, ph' = [ph EXCEPT ![s] = to], cu' = cu, ev' = ev
        PROVE  \A q \in GridRows : Whole(ph'[q], cu'[q], ev'[q], q)
    BY <1>2, <1>3, <2>7, <2>8
  <2>9. CASE Ledger!Open(s) \/ Ledger!Fail(s) \/ Ledger!Requeue(s)
    BY <1>1, <2>1, <2>2, <2>8, <2>9
  <2>10. CASE Ledger!Log(s)
    <3>1. \A q \in GridRows : ev'[q] = ev[q] \/ ev'[q] = ev[q] \cup {cu[q]}
      BY <1>2, <2>3, <2>10
    <3>2. ph' = ph /\ cu' = cu
      BY <2>3, <2>10
    <3> QED
      BY <1>1, <2>7, <3>1, <3>2
  <2>11. CASE Ledger!Advance(s)
    <3>1. ph[s] = "open" /\ cu[s] \in ev[s] /\ cu[s] + 1 < IterBudget[s]
      BY <2>3, <2>6, <2>11
    <3>2. \A q \in GridRows : cu'[q] = IF q = s THEN cu[s] + 1 ELSE cu[q]
      BY <1>2, <2>3, <2>11
    <3>3. ph' = ph /\ ev' = ev
      BY <2>3, <2>11
    <3>4. Whole(ph'[s], cu'[s], ev'[s], s)
      BY <1>3, <2>7, <3>1, <3>2, <3>3
    <3> QED
      BY <1>1, <2>7, <3>2, <3>3, <3>4
  <2>12. CASE Ledger!Conclude(s) \/ Ledger!Exhaust(s) \/ Ledger!Cancel(s)
    <3>1. PICK to \in {"done", "parked"} : Ledger!Close(s, to)
      BY <2>12 DEF Ledger!Conclude, Ledger!Exhaust, Ledger!Cancel
    <3>2. /\ ph' = [ph EXCEPT ![s] = to] /\ cu' = [cu EXCEPT ![s] = 0] /\ ev' = ev
      BY <2>4, <3>1
    <3> QED
      BY <1>1, <1>2, <2>7, <3>2
  <2>13. CASE Ledger!LogLate(s)
    <3>1. \A q \in GridRows : ev[q] \subseteq ev'[q]
      BY <1>2, <2>5, <2>13
    <3>2. ph' = ph /\ cu' = cu
      BY <2>5, <2>13
    <3> QED
      BY <1>1, <2>7, <3>1, <3>2
  <2> QED
    BY <1>5, <2>9, <2>10, <2>11, <2>12, <2>13 DEF Ledger!LedgerStep
<1> QED
  BY <1>4, <1>5 DEF LedgerNext

(* The evidence of a grid row still at work has no gap below its cursor,    *)
(* and the cursor stays within its budget: what a row owes its operator.    *)
THEOREM GridsHaveNoGap ==
    ASSUME ~SlowTicks, ~LateCancel
    PROVE  Spec => []Ledger!NoGap
<1> DEFINE Inv == \A q \in GridRows : EntryWhole(q)
<1>1. Ledger!Init => Inv
  <2>1. Ledger!Init => \A q \in GridRows : Phase(q) = "absent" /\ Cursor(q) = 0
    <3> SUFFICES ASSUME Ledger!Init, NEW q \in GridRows
                 PROVE  Phase(q) = "absent" /\ Cursor(q) = 0
      OBVIOUS
    <3>1. /\ [r \in GridRows |-> Phase(r)] = [r \in GridRows |-> "absent"]
          /\ [r \in GridRows |-> Cursor(r)] = [r \in GridRows |-> 0]
      BY DEF Ledger!Init, Cursor
    <3> QED
      BY <3>1
  <2> QED
    BY <2>1 DEF EntryWhole
<1>2. Inv /\ LedgerNext => Inv'
  BY EntriesKeep
<1>3. Inv => Ledger!NoGap
  BY DEF Ledger!NoGap, EntryWhole, Cursor, OnFile
<1> QED
  BY <1>1, <1>2, <1>3, QueueKeepsTheLedger, PTL DEF ImplementsLedger, Ledger!Spec, LedgerNext

---------------------------------------------------------------------------
(* The trial count *)

(* The steps between the reading of the trial count and its use.            *)
Counting == {"submit", "store", "poll", "find", "log"}

(* The evidence on file on the data universe of the row q, and of q itself. *)
UniverseLog(q) ==
    {j \in 1..Len(iters) : Universe[q] # Null /\ Universe[iters[j].row] = Universe[q]}

OwnLog(q) == {j \in UniverseLog(q) : iters[j].row = q}

CountHolds(k) ==
    k.pc \in Counting =>
        /\ k.trials > Cardinality(OwnLog(k.row))
        /\ k.trials <= 1 + Cardinality(UniverseLog(k.row))

(* MultiplicityIsHonest speaks of what is logged; the count a tick carries  *)
(* through a run must be honest about what is on file when it is used.      *)
CountInv ==
    /\ RecordInv
    /\ MultiplicityIsHonest
    /\ \A t \in Ticks : CountHolds(tick[t])

(* The log of a universe can be counted.                                    *)
LEMMA UniverseLogFinite ==
    ASSUME iters \in Seq(Iteration), NEW q
    PROVE  /\ IsFiniteSet(UniverseLog(q)) /\ Cardinality(UniverseLog(q)) \in Nat
           /\ Cardinality(OwnLog(q)) \in Nat
           /\ Cardinality(OwnLog(q)) <= Cardinality(UniverseLog(q))
<1>1. Len(iters) \in Nat
  OBVIOUS
<1>2. IsFiniteSet(1..Len(iters))
  BY <1>1, FS_Interval
<1>3. UniverseLog(q) \in SUBSET (1..Len(iters))
  BY DEF UniverseLog
<1>4. IsFiniteSet(UniverseLog(q))
  BY <1>2, <1>3, FS_Subset
<1>5. OwnLog(q) \in SUBSET UniverseLog(q)
  BY DEF OwnLog
<1>6. IsFiniteSet(OwnLog(q)) /\ Cardinality(OwnLog(q)) <= Cardinality(UniverseLog(q))
  BY <1>4, <1>5, FS_Subset
<1> QED
  BY <1>4, <1>6, FS_CardinalityType

(* Each iteration has an audit row of its own and each attached audit row   *)
(* an iteration, so the count read from the audit rows is the iterations on *)
(* file and the trial at hand.                                             *)
LEMMA CountMeetsLog ==
    ASSUME RecordInv, NEW q \in Rows
    PROVE  CountTrials(q) = 1 + Cardinality(UniverseLog(q))
<1> DEFINE U == UniverseLog(q)
           A == {a \in 1..Len(audits) :
                    /\ audits[a].iter # Null
                    /\ Universe[q] # Null
                    /\ Universe[audits[a].row] = Universe[q]}
           Attached(j) == {b \in 1..Len(audits) : audits[b].iter = j}
           f == [j \in U |-> CHOOSE a \in A : a \in Attached(j)]
           g == [a \in A |-> audits[a].iter]
<1>1. /\ audits \in Seq(Audit) /\ iters \in Seq(Iteration)
      /\ Len(audits) \in Nat /\ Len(iters) \in Nat /\ EvidenceMatchesRun
      /\ \A a \in 1..Len(audits) : audits[a].iter # Null => audits[a].iter \in 1..Len(iters)
  BY RecordFacts DEF Recorded
<1>2. IsFiniteSet(A) /\ Cardinality(A) \in Nat
  <2>1. IsFiniteSet(1..Len(audits))
    BY <1>1, FS_Interval
  <2>2. A \in SUBSET (1..Len(audits))
    OBVIOUS
  <2>3. IsFiniteSet(A)
    BY <2>1, <2>2, FS_Subset
  <2> HIDE DEF A
  <2> QED
    BY <2>3, FS_CardinalityType
<1>3. IsFiniteSet(U) /\ Cardinality(U) \in Nat
  BY <1>1, UniverseLogFinite
<1>4. ASSUME NEW j \in U
      PROVE  \E a \in A : a \in Attached(j)
  <2>1. /\ j \in 1..Len(iters) /\ Universe[iters[j].row] = Universe[q] /\ j # Null
        /\ Universe[q] # Null
    BY <1>1, QueueAssumption DEF UniverseLog
  <2>2. PICK a \in 1..Len(audits) : Attached(j) = {a} /\ audits[a].row = iters[j].row
    BY <1>1, <2>1 DEF EvidenceMatchesRun
  <2> QED
    BY <2>1, <2>2
<1>5. \A j \in U : f[j] \in A /\ f[j] \in Attached(j)
  BY <1>4
<1>6. f \in [U -> A] /\ \A i, j \in U : f[i] = f[j] => i = j
  BY <1>5
<1>7. ASSUME NEW a \in A
      PROVE  audits[a].iter \in U /\ Attached(audits[a].iter) = {a}
  <2>1. a \in 1..Len(audits) /\ audits[a].iter \in 1..Len(iters)
    BY <1>1
  <2>2. PICK b \in 1..Len(audits) :
          Attached(audits[a].iter) = {b} /\ audits[b].row = iters[audits[a].iter].row
    BY <1>1, <2>1 DEF EvidenceMatchesRun
  <2>3. a \in Attached(audits[a].iter)
    BY <2>1
  <2>4. a = b
    BY <2>2, <2>3
  <2> QED
    BY <2>1, <2>2, <2>4 DEF UniverseLog
<1>8. g \in [A -> U] /\ \A a, b \in A : g[a] = g[b] => a = b
  <2>1. \A a \in A : g[a] \in U /\ Attached(g[a]) = {a}
    BY <1>7
  <2>2. \A a, b \in A : g[a] = g[b] => a = b
    <3> HIDE DEF A, U, g, Attached
    <3> QED
      BY <2>1
  <2> QED
    BY <2>1, <2>2
<1>9. Cardinality(U) = Cardinality(A)
  <2> HIDE DEF U, A, f, g
  <2>1. ~(Cardinality(A) < Cardinality(U))
    BY <1>2, <1>3, <1>6, FS_PigeonHole
  <2>2. ~(Cardinality(U) < Cardinality(A))
    BY <1>2, <1>3, <1>8, FS_PigeonHole
  <2> QED
    BY <1>2, <1>3, <2>1, <2>2
<1>10. CountTrials(q) = 1 + Cardinality(A)
  BY DEF CountTrials
<1> HIDE DEF U, A
<1> QED
  BY <1>9, <1>10 DEF U

(* A step that brings a tick to one of these steps, or keeps it there.      *)
Counts(t) ==
    /\ tick[t].pc \in ClaimedSteps
    /\ tick'[t].row = tick[t].row
    /\ \/ tick[t].pc \in Counting /\ tick'[t].trials = tick[t].trials
       \/ tick'[t].trials = CountTrials(tick[t].row)

(* The count in hand is the one just read, or the one held before.          *)
LEMMA CountHeld ==
    ASSUME TypeInv, NEW t \in Ticks, TickStep(t) \/ Mishap(t)
    PROVE  /\ tick' = [tick EXCEPT ![t] = tick'[t]]
           /\ tick'[t].pc \in Counting => Counts(t)
           /\ ~LogEvidence(t) => UNCHANGED iters
<1> DEFINE k == tick[t]
           Held == /\ tick' = [tick EXCEPT ![t] = tick'[t]]
                   /\ tick'[t].pc \in Counting => Counts(t)
<1>1. tick \in [Ticks -> TickLocals] /\ k \in TickLocals
  BY DEF TypeInv, TypeOK
<1>2. ASSUME NEW pc \in {"idle", "claim", "rollback", "reply"} \cup ClaimedSteps,
             Goto(t, pc), pc \in Counting => k.pc \in Counting
      PROVE  Held
  BY <1>2, GotoMoves DEF Counts, Counting, ClaimedSteps
<1>3. ASSUME NEW l, tick' = [tick EXCEPT ![t] = l],
             l.pc \in Counting =>
                /\ k.pc \in ClaimedSteps /\ l.row = k.row
                /\ \/ k.pc \in Counting /\ l.trials = k.trials
                   \/ l.trials = CountTrials(k.row)
      PROVE  Held
  <2>1. tick' = [tick EXCEPT ![t] = tick'[t]] /\ tick'[t] = l
    BY <1>1, <1>3
  <2> QED
    BY <1>3, <2>1 DEF Counts
<1>4. CASE Recover(t) \/ EmptyQueue(t) \/ StoreActiveRun(t) \/ PollCompleted(t)
  <2>1. CASE Recover(t)
    BY <1>2, <2>1 DEF Recover, Counting
  <2>2. CASE EmptyQueue(t)
    BY <1>2, <2>2 DEF EmptyQueue, Counting
  <2>3. CASE StoreActiveRun(t)
    BY <1>2, <2>3 DEF StoreActiveRun, Counting, ClaimedSteps
  <2>4. CASE PollCompleted(t)
    BY <1>2, <2>4 DEF PollCompleted, Counting, ClaimedSteps
  <2> QED
    BY <1>4, <2>1, <2>2, <2>3, <2>4 DEF Recover, EmptyQueue, StoreActiveRun, PollCompleted
<1>5. CASE Claim(t)
  <2>1. PICK q, now :
           tick' = [tick EXCEPT ![t] = [IdleTick EXCEPT !.pc = "resume", !.row = q, !.fence = now,
                                                        !.prior = queue[q].iter, !.run = queue[q].active]]
    BY <1>5 DEF Claim
  <2>2. Held
    BY <1>3, <2>1 DEF Counting, IdleTick
  <2> QED
    BY <1>5, <2>2 DEF Claim
<1>6. CASE Resume(t)
  <2> DEFINE r == k.run
             a == LatestUnattached(k.row)
             pc == IF runs[r].state = "COMPLETED" THEN "find" ELSE "poll"
             cell == IF a = Null THEN Null ELSE audits[a].cell
             m == CountTrials(k.row)
             l == [k EXCEPT !.pc = pc, !.audit = a, !.trials = m, !.cell = cell]
  <2>1. /\ Goto(t, "derive") \/ tick' = [tick EXCEPT ![t] = l]
        /\ k.pc = "resume" /\ UNCHANGED iters
    BY <1>1, <1>6 DEF Resume
  <2>2. l.row = k.row /\ l.trials = m
    <3> HIDE DEF k, pc, a, m, cell
    <3> QED
      BY <1>1 DEF TickLocals, k
  <2> HIDE DEF l
  <2>3. CASE Goto(t, "derive")
    BY <1>2, <2>1, <2>3 DEF Counting, ClaimedSteps
  <2>4. CASE tick' = [tick EXCEPT ![t] = l]
    BY <1>3, <2>1, <2>2, <2>4 DEF ClaimedSteps
  <2> QED
    BY <2>1, <2>3, <2>4
<1>7. CASE RecordTrial(t)
  <2> DEFINE m == CountTrials(k.row)
             n == Len(audits) + 1
  <2>1. PICK c : tick' = [tick EXCEPT ![t] = [k EXCEPT !.pc = "submit", !.cell = c,
                                                       !.trials = m, !.audit = n]]
    BY <1>1, <1>7 DEF RecordTrial
  <2> DEFINE l == [k EXCEPT !.pc = "submit", !.cell = c, !.trials = m, !.audit = n]
  <2>2. l.row = k.row /\ l.trials = m
    <3> HIDE DEF k, m, n
    <3> QED
      BY <1>1 DEF TickLocals, k
  <2>3. k.pc = "derive" /\ UNCHANGED iters
    BY <1>7 DEF RecordTrial
  <2> HIDE DEF l
  <2> QED
    BY <1>3, <2>1, <2>2, <2>3 DEF ClaimedSteps, l
<1>8. CASE SubmitAccepted(t)
  <2> DEFINE l == [k EXCEPT !.pc = "store", !.run = Len(runs) + 1]
  <2>1. /\ tick' = [tick EXCEPT ![t] = l]
        /\ k.pc = "submit" /\ UNCHANGED iters
    BY <1>1, <1>8 DEF SubmitAccepted
  <2>2. l.row = k.row /\ l.trials = k.trials
    BY <1>1 DEF TickLocals
  <2> HIDE DEF l
  <2> QED
    BY <1>3, <2>1, <2>2 DEF Counting, ClaimedSteps
<1>9. CASE FindIteration(t)
  <2> DEFINE i == FindIterationForRun(k.run)
             pc == IF i = Null THEN "log" ELSE "attach"
             l == [k EXCEPT !.pc = pc, !.iter = i]
  <2>1. /\ tick' = [tick EXCEPT ![t] = l]
        /\ k.pc = "find" /\ UNCHANGED iters
    BY <1>1, <1>9 DEF FindIteration
  <2>2. l.row = k.row /\ l.trials = k.trials
    <3> HIDE DEF k, i, pc
    <3> QED
      BY <1>1 DEF TickLocals, k
  <2> HIDE DEF l
  <2> QED
    BY <1>3, <2>1, <2>2 DEF Counting, ClaimedSteps
<1>10. CASE LogEvidence(t)
  <2> DEFINE i == Len(iters) + 1
             l == [k EXCEPT !.pc = "attach", !.iter = i]
  <2>1. tick' = [tick EXCEPT ![t] = l]
    BY <1>1, <1>10 DEF LogEvidence
  <2>2. l.pc = "attach"
    <3> HIDE DEF k, i
    <3> QED
      BY <1>1 DEF TickLocals, k
  <2> HIDE DEF l
  <2> QED
    BY <1>3, <1>10, <2>1, <2>2 DEF Counting
<1>11. CASE SubmitUnanswered(t) \/ TickFails(t)
  <2>1. tick' = [tick EXCEPT ![t] = Left(t, "rollback")] /\ Left(t, "rollback").pc = "rollback"
    BY <1>11 DEF SubmitUnanswered, TickFails, Left, IdleTick
  <2>2. UNCHANGED iters
    BY <1>11 DEF SubmitUnanswered, TickFails
  <2> QED
    BY <1>3, <2>1, <2>2 DEF Counting
<1>12. CASE Attach(t)
  <2>1. /\ UNCHANGED iters
        /\ \/ Goto(t, "decide")
           \/ tick' = [tick EXCEPT ![t] = Left(t, "reply")]
    BY <1>12 DEF Attach
  <2>2. Left(t, "reply").pc = "reply"
    BY DEF Left, IdleTick
  <2>3. CASE Goto(t, "decide")
    BY <1>2, <2>1, <2>3 DEF Counting, ClaimedSteps
  <2>4. CASE tick' = [tick EXCEPT ![t] = Left(t, "reply")]
    BY <1>3, <2>1, <2>2, <2>4 DEF Counting
  <2> QED
    BY <2>1, <2>3, <2>4
<1>13. CASE \/ Exhausted(t) \/ PollDead(t) \/ PollCapExpires(t) \/ DecideNextState(t)
            \/ Reply(t) \/ Rollback(t) \/ ConfigError(t) \/ RollbackFails(t)
  <2>1. LetsGo(t)
    BY <1>13, GoesOnOrLetsGo
  <2>2. UNCHANGED iters
    BY <1>13 DEF Exhausted, PollDead, PollCapExpires, DecideNextState, Reply, Rollback,
                 ConfigError, RollbackFails
  <2> QED
    BY <2>1, <2>2 DEF LetsGo, Counting
<1> QED
  BY <1>4, <1>5, <1>6, <1>7, <1>8, <1>9, <1>10, <1>11, <1>12, <1>13 DEF TickStep, Mishap

(* A step that logs nothing.                                                *)
LEMMA CountKept ==
    ASSUME CountInv, UNCHANGED iters,
           \A u \in Ticks : tick'[u].pc \in Counting => tick'[u] = tick[u] \/ Counts(u)
    PROVE  MultiplicityIsHonest' /\ \A u \in Ticks : CountHolds(tick[u])'
<1> DEFINE NewLog(p) == {j \in 1..Len(iters') : /\ Universe[p] # Null
                                                /\ Universe[iters'[j].row] = Universe[p]}
           NewOwn(p) == {j \in NewLog(p) : iters'[j].row = p}
<1>1. \A q : NewLog(q) = UniverseLog(q) /\ NewOwn(q) = OwnLog(q)
  BY DEF UniverseLog, OwnLog
<1>2. MultiplicityIsHonest'
  BY DEF CountInv, MultiplicityIsHonest
<1>3. ASSUME NEW u \in Ticks, tick'[u].pc \in Counting
      PROVE  /\ tick'[u].trials > Cardinality(OwnLog(tick'[u].row))
             /\ tick'[u].trials <= 1 + Cardinality(UniverseLog(tick'[u].row))
  <2>1. CASE tick'[u] = tick[u]
    BY <1>3, <2>1 DEF CountInv, CountHolds
  <2>2. CASE Counts(u)
    <3>1. tick[u].row \in Rows /\ RecordInv /\ tick'[u].row = tick[u].row
      BY <2>2, RecordFacts DEF CountInv, Counts, ClaimedSteps
    <3>2. CASE tick[u].pc \in Counting /\ tick'[u].trials = tick[u].trials
      BY <1>3, <3>1, <3>2 DEF CountInv, CountHolds
    <3>3. CASE tick'[u].trials = CountTrials(tick[u].row)
      <4>1. iters \in Seq(Iteration)
        BY <3>1, RecordFacts
      <4> QED
        BY <1>3, <3>1, <3>3, <4>1, CountMeetsLog, UniverseLogFinite
    <3> QED
      BY <2>2, <3>2, <3>3 DEF Counts
  <2> QED
    BY <1>3, <2>1, <2>2
<1>4. \A u \in Ticks : CountHolds(tick[u])' <=>
        (tick'[u].pc \in Counting =>
            /\ tick'[u].trials > Cardinality(NewOwn(tick'[u].row))
            /\ tick'[u].trials <= 1 + Cardinality(NewLog(tick'[u].row)))
  BY DEF CountHolds, UniverseLog, OwnLog
<1> HIDE DEF NewLog, NewOwn
<1> QED
  BY <1>1, <1>2, <1>3, <1>4

(* Logging: the count held since before the run is still honest, and so is  *)
(* the count of every other tick in flight, which is on another row.        *)
LEMMA CountLog ==
    ASSUME CountInv, NEW t \in Ticks, LogEvidence(t)
    PROVE  MultiplicityIsHonest' /\ \A u \in Ticks : CountHolds(tick[u])'
<1> DEFINE k == tick[t]
           n == Len(iters)
           Before(i) == {j \in 1..(i - 1) :
                           /\ Universe[iters[i].row] # Null
                           /\ Universe[iters[j].row] = Universe[iters[i].row]}
           BeforeNow(i) == {j \in 1..(i - 1) :
                              /\ Universe[iters'[i].row] # Null
                              /\ Universe[iters'[j].row] = Universe[iters'[i].row]}
<1>1. /\ RecordInv /\ MultiplicityIsHonest /\ n \in Nat /\ iters \in Seq(Iteration)
      /\ tick \in [Ticks -> TickLocals] /\ k.pc = "log" /\ k.row \in Rows
      /\ \A u \in Ticks : tick[u].pc \in ClaimedSteps => tick[u].row \in Rows
      /\ \A u \in Ticks : tick[u].pc \in ClaimedSteps /\ tick[u].row = k.row => u = t
  <2>1. RecordInv /\ MultiplicityIsHonest /\ k.pc = "log"
    BY DEF CountInv, LogEvidence
  <2> QED
    BY <2>1, RecordFacts DEF ClaimedSteps
<1>2. PICK e : iters' = Append(iters, e) /\ e.row = k.row /\ e.trials = k.trials
  BY DEF LogEvidence
<1>3. /\ Len(iters') = n + 1 /\ iters'[n + 1] = e
      /\ \A i \in 1..n : iters'[i] = iters[i]
  BY <1>1, <1>2
<1>4. MultiplicityIsHonest'
  <2> SUFFICES ASSUME NEW i \in 1..(n + 1)
               PROVE  /\ iters'[i].trials >
                           Cardinality({j \in BeforeNow(i) : iters'[j].row = iters'[i].row})
                      /\ iters'[i].trials <= 1 + Cardinality(BeforeNow(i))
    BY <1>3 DEF MultiplicityIsHonest
  <2>1. CASE i \in 1..n
    <3>1. /\ BeforeNow(i) = Before(i)
          /\ {j \in BeforeNow(i) : iters'[j].row = iters'[i].row}
               = {j \in Before(i) : iters[j].row = iters[i].row}
      BY <1>1, <1>3, <2>1
    <3>2. /\ iters[i].trials > Cardinality({j \in Before(i) : iters[j].row = iters[i].row})
          /\ iters[i].trials <= 1 + Cardinality(Before(i))
      BY <1>1, <2>1 DEF MultiplicityIsHonest
    <3> HIDE DEF Before, BeforeNow
    <3> QED
      BY <1>3, <2>1, <3>1, <3>2
  <2>2. CASE i = n + 1
    <3>1. /\ BeforeNow(i) = UniverseLog(k.row)
          /\ {j \in BeforeNow(i) : iters'[j].row = iters'[i].row} = OwnLog(k.row)
      BY <1>1, <1>2, <1>3, <2>2 DEF UniverseLog, OwnLog
    <3>2. /\ k.trials > Cardinality(OwnLog(k.row))
          /\ k.trials <= 1 + Cardinality(UniverseLog(k.row))
      BY <1>1 DEF CountInv, CountHolds, Counting
    <3> HIDE DEF BeforeNow
    <3> QED
      BY <1>2, <1>3, <2>2, <3>1, <3>2
  <2> QED
    BY <1>1, <2>1, <2>2
<1> DEFINE NewLog(p) == {j \in 1..Len(iters') : /\ Universe[p] # Null
                                                /\ Universe[iters'[j].row] = Universe[p]}
           NewOwn(p) == {j \in NewLog(p) : iters'[j].row = p}
<1>5. ASSUME NEW u \in Ticks, tick'[u].pc \in Counting
      PROVE  /\ tick'[u].trials > Cardinality(NewOwn(tick'[u].row))
             /\ tick'[u].trials <= 1 + Cardinality(NewLog(tick'[u].row))
  <2>1. tick' = [tick EXCEPT ![t] = tick'[t]] /\ tick'[t].pc \notin Counting
    <3> DEFINE m == n + 1
               l == [k EXCEPT !.pc = "attach", !.iter = m]
    <3>1. tick' = [tick EXCEPT ![t] = l]
      BY <1>1 DEF LogEvidence
    <3>2. l.pc = "attach"
      <4> HIDE DEF m
      <4> QED
        BY <1>1 DEF TickLocals
    <3> HIDE DEF l
    <3> QED
      BY <1>1, <3>1, <3>2 DEF Counting
  <2>2. u # t /\ tick'[u] = tick[u] /\ tick[u] \in TickLocals
    BY <1>1, <1>5, <2>1
  <2> PICK q : q = tick[u].row
    OBVIOUS
  <2>3. q \in Rows /\ q # k.row
    BY <1>1, <1>5, <2>2 DEF Counting, ClaimedSteps
  <2>4. NewOwn(q) = OwnLog(q)
    BY <1>1, <1>2, <1>3, <2>3 DEF UniverseLog, OwnLog
  <2>5. Cardinality(UniverseLog(q)) <= Cardinality(NewLog(q)) /\ Cardinality(NewLog(q)) \in Nat
    <3>1. UniverseLog(q) \in SUBSET NewLog(q)
      BY <1>1, <1>3 DEF UniverseLog
    <3>2. IsFiniteSet(1..Len(iters'))
      BY <1>1, <1>3, FS_Interval
    <3>3. NewLog(q) \in SUBSET (1..Len(iters'))
      OBVIOUS
    <3> HIDE DEF NewLog
    <3>4. IsFiniteSet(NewLog(q))
      BY <3>2, <3>3, FS_Subset
    <3> QED
      BY <3>1, <3>4, FS_Subset, FS_CardinalityType
  <2>6. /\ tick[u].trials > Cardinality(OwnLog(q))
        /\ tick[u].trials <= 1 + Cardinality(UniverseLog(q))
    BY <1>5, <2>2 DEF CountInv, CountHolds
  <2>7. tick[u].trials \in Nat /\ Cardinality(UniverseLog(q)) \in Nat
    BY <1>1, <2>2, UniverseLogFinite DEF TickLocals
  <2> HIDE DEF NewLog, NewOwn
  <2> QED
    BY <2>2, <2>4, <2>5, <2>6, <2>7
<1>6. \A u \in Ticks : CountHolds(tick[u])' <=>
        (tick'[u].pc \in Counting =>
            /\ tick'[u].trials > Cardinality(NewOwn(tick'[u].row))
            /\ tick'[u].trials <= 1 + Cardinality(NewLog(tick'[u].row)))
  BY DEF CountHolds, UniverseLog, OwnLog
<1> QED
  BY <1>4, <1>5, <1>6

(* Every step keeps the counts in hand honest.                              *)
LEMMA CountStep ==
    ASSUME ~SlowTicks, ~LateCancel
    PROVE  CountInv /\ [Next]_vars => CountInv'
<1> SUFFICES ASSUME CountInv, [Next]_vars
             PROVE  MultiplicityIsHonest' /\ \A u \in Ticks : CountHolds(tick[u])'
  BY RecordStep DEF CountInv
<1>1. RecordInv /\ TypeInv /\ tick \in [Ticks -> TickLocals]
  BY RecordFacts DEF CountInv
<1>2. ASSUME NEW t \in Ticks, TickStep(t) \/ Mishap(t)
      PROVE  MultiplicityIsHonest' /\ \A u \in Ticks : CountHolds(tick[u])'
  <2>1. CASE LogEvidence(t)
    BY <2>1, CountLog
  <2>2. CASE ~LogEvidence(t)
    <3>1. /\ tick' = [tick EXCEPT ![t] = tick'[t]]
          /\ tick'[t].pc \in Counting => Counts(t)
          /\ UNCHANGED iters
      BY <1>1, <1>2, <2>2, CountHeld
    <3>2. \A u \in Ticks : u # t => tick'[u] = tick[u]
      BY <1>1, <3>1
    <3> QED
      BY <3>1, <3>2, CountKept
  <2> QED
    BY <2>1, <2>2
<1>3. CASE UNCHANGED vars \/ \E q \in Rows : OperatorStep(q) \/ ClaimAges(q)
  <2>1. UNCHANGED <<tick, iters>>
    BY <1>3 DEF vars, OperatorStep, Enqueue, Cancel, Requeue, ClaimAges
  <2> QED
    BY <2>1, CountKept
<1>4. CASE \E r \in 1..Len(runs) : RunCompletes(r) \/ RunFails(r)
  <2>1. UNCHANGED <<tick, iters>>
    BY <1>4 DEF RunCompletes, RunFails
  <2> QED
    BY <2>1, CountKept
<1>5. CASE ProcessDies
  <2>1. UNCHANGED iters /\ \A u \in Ticks : tick'[u].pc \notin Counting
    BY <1>5 DEF ProcessDies, IdleTick, Counting
  <2> QED
    BY <2>1, CountKept
<1> QED
  BY <1>2, <1>3, <1>4, <1>5 DEF Next

(* Although the count is read before the run, the run may be adopted by     *)
(* another tick and the ticks of other sweeps log in between, an iteration  *)
(* is filed with a count above the earlier iterations of its own sweep, and *)
(* with no trial that is not on file on its universe.                      *)
THEOREM TrialsAreCounted ==
    ASSUME ~SlowTicks, ~LateCancel
    PROVE  Spec => []MultiplicityIsHonest
<1>1. TickInit => CountInv
  <2>1. TickInit => MultiplicityIsHonest /\ \A t \in Ticks : CountHolds(tick[t])
    BY DEF TickInit, IdleTick, MultiplicityIsHonest, CountHolds, Counting
  <2> QED
    BY <2>1, RecordStart DEF CountInv
<1>2. CountInv /\ [Next]_vars => CountInv'
  BY CountStep
<1>3. CountInv => MultiplicityIsHonest
  BY DEF CountInv
<1> QED
  BY <1>1, <1>2, <1>3, PTL DEF Spec

=============================================================================
