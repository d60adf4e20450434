----------------------------- MODULE TickProofs -----------------------------
(***************************************************************************)
(* Theorems about Tick for every number of rows, ticks, cells and faults.  *)
(* Type correctness, that a closed sweep stays closed and that a row never *)
(* goes back to older evidence are proved in every regime, ticks that      *)
(* outlast the reaper and late cancellations included.                     *)
(* That a row is worked on by one tick at a time, that the                 *)
(* reclaim fence never trips and that a run is logged once are proved      *)
(* where a tick ends within its poll cap and is not cancelled after its    *)
(* last write; TLC shows each of the two assumptions to be needed.         *)
(***************************************************************************)
EXTENDS Tick, FiniteSetTheorems, WellFoundedInduction, SequenceTheorems, TLAPS

(* The steps in which a tick knows its run. *)
RunSteps == {"store", "poll", "find", "log", "attach", "decide"}

LoggedRuns == {iters[i].run : i \in 1..Len(iters)}

(* What a tick with the locals k knows when R runs and A trials are on file *)
(* and the runs in L are logged.                                           *)
Known(k, R, A, L) ==
    /\ k.pc \notin {"idle", "claim"} => k.row \in Rows
    /\ k.pc \in RunSteps => k.run \in 1..R
    /\ k.pc = "resume" => k.run \in (1..R) \cup {Null}
    /\ k.pc \in {"submit", "log"} => k.cell \in Nat
    /\ k.pc \in {"store", "poll", "find"} => k.cell \in Nat \/ k.run \in L
    /\ k.pc \in {"attach", "decide"} => k.iter \in Ids
    /\ k.audit # Null => k.audit \in 1..A

(* TypeOK is not inductive: the combo of a resumed tick comes from the      *)
(* audit row, or is not needed because the run is logged already.          *)
TypeInv ==
    /\ TypeOK
    /\ \A t \in Ticks : Known(tick[t], Len(runs), Len(audits), LoggedRuns)
    /\ \A q \in Rows : queue[q].active \in (1..Len(runs)) \cup {Null}

---------------------------------------------------------------------------
(* Lemmas on the helpers *)

(* Latest returns the greatest element of a set of positions, and Null only *)
(* for the empty set.                                                      *)
LEMMA LatestIsMax ==
    ASSUME NEW n \in Nat, NEW S \in SUBSET (1..n)
    PROVE  /\ S = {} => Latest(S) = Null
           /\ S # {} => /\ Latest(S) \in S
                        /\ Latest(S) # Null
                        /\ \A j \in S : j <= Latest(S)
<1>1. CASE S = {}
  BY <1>1 DEF Latest
<1>2. CASE S # {}
  <2> DEFINE Above(i) == (i+1)..n
             Aboves == {Above(i) : i \in S}
             R == StrictSubsetOrdering(1..n)
  <2>1. IsWellFoundedOn(R, FiniteSubsetsOf(1..n))
    BY FS_StrictSubsetOrderingWellFounded
  <2>2. Aboves \subseteq FiniteSubsetsOf(1..n)
    <3> SUFFICES ASSUME NEW i \in S
                 PROVE  Above(i) \in SUBSET (1..n) /\ IsFiniteSet(Above(i))
      BY DEF FiniteSubsetsOf
    <3> i \in 1..n
      OBVIOUS
    <3>1. IsFiniteSet(Above(i))
      BY FS_Interval
    <3> QED
      BY <3>1
  <2>3. Aboves # {}
    BY <1>2
  <2>4. PICK x \in Aboves : \A y \in Aboves : <<y, x>> \notin R
    <3> HIDE DEF Aboves, R
    <3> QED
      BY <2>1, <2>2, <2>3, WFMin
  <2>5. PICK i \in S : x = Above(i)
    BY <2>4
  <2>6. ASSUME NEW j \in S
        PROVE  j <= i
    <3> i \in 1..n /\ j \in 1..n
      OBVIOUS
    <3>1. <<Above(j), Above(i)>> \notin R
      BY <2>4, <2>5
    <3>2. ~(Above(j) \subseteq Above(i) /\ Above(j) # Above(i))
      BY <3>1, <2>2 DEF StrictSubsetOrdering, FiniteSubsetsOf
    <3>3. CASE i < j
      <4>1. Above(j) \subseteq Above(i)
        BY <3>3
      <4>2. j \in Above(i) /\ j \notin Above(j)
        BY <3>3
      <4> QED
        BY <3>2, <4>1, <4>2
    <3> QED
      BY <3>3
  <2>7. Latest(S) \in S /\ \A j \in S : j <= Latest(S)
    BY <1>2, <2>6 DEF Latest
  <2>8. Latest(S) # Null
    <3> HIDE DEF Above, Aboves, R
    <3>1. S \subseteq Nat
      OBVIOUS
    <3>2. Latest(S) \in Nat
      BY <2>7, <3>1
    <3> QED
      BY <3>2, QueueAssumption
  <2> QED
    BY <1>2, <2>7, <2>8
<1> QED
  BY <1>1, <1>2

(* find_iteration_for_run finds an iteration of the run when there is one.  *)
LEMMA FoundIteration ==
    ASSUME iters \in Seq(Iteration), NEW r
    PROVE  /\ r \notin LoggedRuns => FindIterationForRun(r) = Null
           /\ r \in LoggedRuns => /\ FindIterationForRun(r) \in 1..Len(iters)
                                   /\ FindIterationForRun(r) \in Ids
                                   /\ FindIterationForRun(r) # Null
                                   /\ iters[FindIterationForRun(r)].run = r
<1> DEFINE S == {i \in 1..Len(iters) : iters[i].run = r}
<1>1. Len(iters) \in Nat /\ S \in SUBSET (1..Len(iters))
  OBVIOUS
<1>2. r \in LoggedRuns <=> S # {}
  BY DEF LoggedRuns
<1>3. /\ S = {} => Latest(S) = Null
      /\ S # {} => Latest(S) \in S /\ Latest(S) # Null
  <2> HIDE DEF S
  <2> QED
    BY <1>1, LatestIsMax
<1>4. FindIterationForRun(r) = Latest(S)
  BY DEF FindIterationForRun
<1>5. \A i \in S : i \in Ids /\ i \in 1..Len(iters) /\ iters[i].run = r
  BY <1>1 DEF Ids
<1> HIDE DEF S
<1> QED
  BY <1>2, <1>3, <1>4, <1>5

(* latest_unattached_for_queue finds an unattached trial of the row, if any. *)
LEMMA FoundTrial ==
    ASSUME audits \in Seq(Audit), NEW q
    PROVE  LatestUnattached(q) # Null =>
              /\ LatestUnattached(q) \in 1..Len(audits)
              /\ LatestUnattached(q) \in Ids
              /\ audits[LatestUnattached(q)] \in Audit
              /\ audits[LatestUnattached(q)].row = q
              /\ audits[LatestUnattached(q)].iter = Null
<1> DEFINE S == {b \in 1..Len(audits) : audits[b].row = q /\ audits[b].iter = Null}
<1>1. Len(audits) \in Nat /\ S \in SUBSET (1..Len(audits))
  OBVIOUS
<1>2. Latest(S) # Null => Latest(S) \in S
  <2> HIDE DEF S
  <2> QED
    BY <1>1, LatestIsMax
<1>3. LatestUnattached(q) = Latest(S)
  BY DEF LatestUnattached
<1>4. \A b \in S : /\ b \in Ids /\ b \in 1..Len(audits) /\ audits[b] \in Audit
                   /\ audits[b].row = q /\ audits[b].iter = Null
  BY <1>1, ElementOfSeq DEF Ids
<1> HIDE DEF S
<1> QED
  BY <1>2, <1>3, <1>4

(* GREATEST(n - 1, 0) of a counter is a counter.                            *)
LEMMA DecrementNat == \A n \in Nat : Decrement(n) \in Nat
BY DEF Decrement

(* Every statement of repo/queue_write.py keeps the columns well typed.     *)
LEMMA StatementsTyped ==
    ASSUME queue \in [Rows -> QueueRow], NEW q \in Rows
    PROVE  /\ RecoverStuck => queue' \in [Rows -> QueueRow]
           /\ \A now \in Fences : ClaimRow(q, now) => queue' \in [Rows -> QueueRow]
           /\ RollbackIter(q) \/ ResetToPending(q) \/ ParkExhausted(q) \/ FailQueue(q)
                => queue' \in [Rows -> QueueRow]
           /\ \A final \in FinalVerdicts :
                CompleteQueue(q, final) => queue' \in [Rows -> QueueRow]
           /\ \A r \in Ids : SetActiveRun(q, r) => queue' \in [Rows -> QueueRow]
           /\ \A i \in Ids : \A fence :
                AttachIteration(q, i, fence) => queue' \in [Rows -> QueueRow]
           /\ CancelQueue(q) \/ RequeueFailed(q) \/ InsertQueue(q)
                => queue' \in [Rows -> QueueRow]
<1> DEFINE r == queue[q]
           Typed(s) == s \in QueueRow
<1>1. r \in QueueRow
  OBVIOUS
<1>2. \A s : Typed(s) => (Update(q, s) \/ WhileRunning(q, s) => queue' \in [Rows -> QueueRow])
  BY DEF Update, WhileRunning
<1>3. ASSUME NEW s \in QueueRow
      PROVE  /\ Typed(Recovered(s))
             /\ Typed([s EXCEPT !.status = "PENDING", !.overdue = FALSE])
             /\ Typed([s EXCEPT !.status = "PENDING", !.overdue = FALSE,
                               !.iter = Decrement(@)])
             /\ Typed([s EXCEPT !.status = "PARKED", !.overdue = FALSE, !.active = Null])
             /\ Typed([s EXCEPT !.status = "FAILED", !.overdue = FALSE, !.active = Null])
             /\ Typed([s EXCEPT !.status = "PARKED", !.overdue = FALSE])
             /\ Typed([s EXCEPT !.status = "PENDING", !.iter = Decrement(@)])
  <2> USE DEF QueueRow, Statuses
  <2>1. Decrement(s.iter) \in Nat
    BY DecrementNat
  <2>2. Typed([s EXCEPT !.status = "PENDING", !.overdue = FALSE])
    OBVIOUS
  <2>3. Typed([s EXCEPT !.status = "PENDING", !.overdue = FALSE, !.iter = Decrement(@)])
    BY <2>1
  <2>4. Typed([s EXCEPT !.status = "PARKED", !.overdue = FALSE, !.active = Null])
    OBVIOUS
  <2>5. Typed([s EXCEPT !.status = "FAILED", !.overdue = FALSE, !.active = Null])
    OBVIOUS
  <2>6. Typed([s EXCEPT !.status = "PARKED", !.overdue = FALSE])
    OBVIOUS
  <2>7. Typed([s EXCEPT !.status = "PENDING", !.iter = Decrement(@)])
    BY <2>1
  <2>8. Typed([s EXCEPT !.status = "PENDING", !.started = Null, !.overdue = FALSE,
                        !.iter = Decrement(@)])
    BY <2>1
  <2> HIDE DEF Typed, QueueRow, Statuses
  <2>9. Typed(Recovered(s))
    <3> Typed(s)
      BY DEF Typed
    <3> QED
      BY <2>8 DEF Recovered
  <2> QED
    BY <2>2, <2>3, <2>4, <2>5, <2>6, <2>7, <2>9
<1>4. ASSUME NEW s \in QueueRow
      PROVE  /\ \A now \in Fences :
                    Typed([s EXCEPT !.status = "RUNNING", !.iter = @ + 1,
                                    !.started = now, !.overdue = FALSE])
             /\ \A final \in FinalVerdicts :
                    Typed([s EXCEPT !.status = "COMPLETED", !.overdue = FALSE,
                                    !.active = Null, !.verdict = final])
             /\ \A i \in Ids : Typed([s EXCEPT !.active = i])
             /\ \A i \in Ids : Typed([s EXCEPT !.last = i, !.active = Null])
  <2> USE DEF QueueRow, Statuses
  <2>1. \A now \in Fences : Typed([s EXCEPT !.status = "RUNNING", !.iter = @ + 1,
                                            !.started = now, !.overdue = FALSE])
    <3> DEFINE next == s.iter + 1
    <3> next \in Nat
      OBVIOUS
    <3> HIDE DEF next
    <3> \A now \in Fences : Typed([s EXCEPT !.status = "RUNNING", !.iter = next,
                                            !.started = now, !.overdue = FALSE])
      OBVIOUS
    <3> QED
      BY DEF next
  <2>2. \A final \in FinalVerdicts :
            Typed([s EXCEPT !.status = "COMPLETED", !.overdue = FALSE,
                            !.active = Null, !.verdict = final])
    OBVIOUS
  <2>3. \A i \in Ids : Typed([s EXCEPT !.active = i])
    OBVIOUS
  <2>4. \A i \in Ids : Typed([s EXCEPT !.last = i, !.active = Null])
    OBVIOUS
  <2> HIDE DEF Typed
  <2> QED
    BY <2>1, <2>2, <2>3, <2>4
<1>5. RecoverStuck => queue' \in [Rows -> QueueRow]
  BY <1>3 DEF RecoverStuck
<1> HIDE DEF Typed
<1>6. RollbackIter(q) \/ ResetToPending(q) \/ ParkExhausted(q) \/ FailQueue(q)
        => queue' \in [Rows -> QueueRow]
  BY <1>1, <1>2, <1>3 DEF RollbackIter, ResetToPending, ParkExhausted, FailQueue
<1>7. CancelQueue(q) \/ RequeueFailed(q) => queue' \in [Rows -> QueueRow]
  BY <1>1, <1>2, <1>3 DEF CancelQueue, RequeueFailed
<1>8. \A now \in Fences : ClaimRow(q, now) => queue' \in [Rows -> QueueRow]
  BY <1>1, <1>2, <1>4 DEF ClaimRow
<1>9. \A final \in FinalVerdicts : CompleteQueue(q, final) => queue' \in [Rows -> QueueRow]
  BY <1>1, <1>2, <1>4 DEF CompleteQueue
<1>10. \A i \in Ids : SetActiveRun(q, i) => queue' \in [Rows -> QueueRow]
  BY <1>1, <1>2, <1>4 DEF SetActiveRun
<1>11. \A i \in Ids : \A fence : AttachIteration(q, i, fence) => queue' \in [Rows -> QueueRow]
  BY <1>1, <1>2, <1>4 DEF AttachIteration
<1>12. InsertQueue(q) => queue' \in [Rows -> QueueRow]
  <2> DEFINE n == Cardinality(Rows \ InStatus("ABSENT"))
  <2>1. n \in Nat
    BY QueueAssumption, FS_Subset, FS_CardinalityType
  <2>2. 1 + n \in Nat
    BY <2>1
  <2>3. \A m \in Nat : Typed([r EXCEPT !.status = "PENDING", !.order = m])
    <3> HIDE DEF r
    <3> QED
      BY <1>1 DEF Typed, QueueRow, Statuses
  <2> QED
    BY <1>2, <2>2, <2>3 DEF InsertQueue
<1> QED
  BY <1>5, <1>6, <1>7, <1>8, <1>9, <1>10, <1>11, <1>12

(* The columns that the safety arguments speak of, after a statement on q.  *)
Shows(row, status, started, overdue, active) ==
    /\ row.status = status
    /\ row.started = started
    /\ row.overdue = overdue
    /\ row.active = active

Becomes(q, status, started, overdue, active) ==
    /\ \A p \in Rows \ {q} : queue'[p] = queue[p]
    /\ Shows(queue'[q], status, started, overdue, active)

BecomesIfRunning(q, status, started, overdue, active) ==
    IF queue[q].status = "RUNNING"
    THEN Becomes(q, status, started, overdue, active)
    ELSE UNCHANGED queue

(* What each statement does to those columns.                               *)
LEMMA StatementEffects ==
    ASSUME queue \in [Rows -> QueueRow], NEW q \in Rows
    PROVE
        /\ InsertQueue(q) =>
                Becomes(q, "PENDING", queue[q].started, queue[q].overdue, queue[q].active)
        /\ \A now : ClaimRow(q, now) =>
                Becomes(q, "RUNNING", now, FALSE, queue[q].active)
        /\ RollbackIter(q) =>
                BecomesIfRunning(q, "PENDING", queue[q].started, FALSE, queue[q].active)
        /\ ResetToPending(q) =>
                BecomesIfRunning(q, "PENDING", queue[q].started, FALSE, queue[q].active)
        /\ ParkExhausted(q) =>
                BecomesIfRunning(q, "PARKED", queue[q].started, FALSE, Null)
        /\ FailQueue(q) =>
                BecomesIfRunning(q, "FAILED", queue[q].started, FALSE, Null)
        /\ \A final : CompleteQueue(q, final) =>
                BecomesIfRunning(q, "COMPLETED", queue[q].started, FALSE, Null)
        /\ \A run : SetActiveRun(q, run) =>
                BecomesIfRunning(q, queue[q].status, queue[q].started, queue[q].overdue, run)
        /\ CancelQueue(q) =>
                Becomes(q, "PARKED", queue[q].started, FALSE, queue[q].active)
        /\ RequeueFailed(q) =>
                Becomes(q, "PENDING", queue[q].started, queue[q].overdue, queue[q].active)
        /\ \A i, fence : AttachIteration(q, i, fence) =>
                IF FenceHolds(q, fence)
                THEN Becomes(q, queue[q].status, queue[q].started, queue[q].overdue, Null)
                ELSE UNCHANGED queue
<1> DEFINE r == queue[q]
<1>1. r \in QueueRow
  OBVIOUS
<1>2. \A s, status, started, overdue, active :
          Update(q, s) /\ Shows(s, status, started, overdue, active)
            => Becomes(q, status, started, overdue, active)
  BY DEF Update, Becomes
<1>3. \A s, status, started, overdue, active :
          WhileRunning(q, s) /\ Shows(s, status, started, overdue, active)
            => BecomesIfRunning(q, status, started, overdue, active)
  BY <1>2 DEF WhileRunning, BecomesIfRunning
<1>4. InsertQueue(q) =>
        Becomes(q, "PENDING", queue[q].started, queue[q].overdue, queue[q].active)
  <2>1. \A n : Shows([r EXCEPT !.status = "PENDING", !.order = n],
              "PENDING", r.started, r.overdue, r.active)
    <3> HIDE DEF r
    <3> QED
      BY <1>1 DEF QueueRow, Shows
  <2> QED
    BY <1>2, <2>1 DEF InsertQueue
<1>5. \A now : ClaimRow(q, now) =>
        Becomes(q, "RUNNING", now, FALSE, queue[q].active)
  <2>1. \A n : Shows([r EXCEPT !.status = "RUNNING", !.iter = @ + 1, !.started = n, !.overdue = FALSE],
              "RUNNING", n, FALSE, r.active)
    <3> HIDE DEF r
    <3> QED
      BY <1>1 DEF QueueRow, Shows
  <2> QED
    BY <1>2, <2>1 DEF ClaimRow
<1>6. RollbackIter(q) =>
        BecomesIfRunning(q, "PENDING", queue[q].started, FALSE, queue[q].active)
  <2>1. Shows([r EXCEPT !.status = "PENDING", !.overdue = FALSE, !.iter = Decrement(@)],
              "PENDING", r.started, FALSE, r.active)
    <3> HIDE DEF r
    <3> QED
      BY <1>1 DEF QueueRow, Shows
  <2> QED
    BY <1>3, <2>1 DEF RollbackIter
<1>7. ResetToPending(q) =>
        BecomesIfRunning(q, "PENDING", queue[q].started, FALSE, queue[q].active)
  <2>1. Shows([r EXCEPT !.status = "PENDING", !.overdue = FALSE],
              "PENDING", r.started, FALSE, r.active)
    <3> HIDE DEF r
    <3> QED
      BY <1>1 DEF QueueRow, Shows
  <2> QED
    BY <1>3, <2>1 DEF ResetToPending
<1>8. ParkExhausted(q) =>
        BecomesIfRunning(q, "PARKED", queue[q].started, FALSE, Null)
  <2>1. Shows([r EXCEPT !.status = "PARKED", !.overdue = FALSE, !.active = Null],
              "PARKED", r.started, FALSE, Null)
    <3> HIDE DEF r
    <3> QED
      BY <1>1 DEF QueueRow, Shows
  <2> QED
    BY <1>3, <2>1 DEF ParkExhausted
<1>9. FailQueue(q) =>
        BecomesIfRunning(q, "FAILED", queue[q].started, FALSE, Null)
  <2>1. Shows([r EXCEPT !.status = "FAILED", !.overdue = FALSE, !.active = Null],
              "FAILED", r.started, FALSE, Null)
    <3> HIDE DEF r
    <3> QED
      BY <1>1 DEF QueueRow, Shows
  <2> QED
    BY <1>3, <2>1 DEF FailQueue
<1>10. \A final : CompleteQueue(q, final) =>
        BecomesIfRunning(q, "COMPLETED", queue[q].started, FALSE, Null)
  <2>1. \A n : Shows([r EXCEPT !.status = "COMPLETED", !.overdue = FALSE, !.active = Null, !.verdict = n],
              "COMPLETED", r.started, FALSE, Null)
    <3> HIDE DEF r
    <3> QED
      BY <1>1 DEF QueueRow, Shows
  <2> QED
    BY <1>3, <2>1 DEF CompleteQueue
<1>11. \A run : SetActiveRun(q, run) =>
        BecomesIfRunning(q, queue[q].status, queue[q].started, queue[q].overdue, run)
  <2>1. \A n : Shows([r EXCEPT !.active = n],
              r.status, r.started, r.overdue, n)
    <3> HIDE DEF r
    <3> QED
      BY <1>1 DEF QueueRow, Shows
  <2> QED
    BY <1>3, <2>1 DEF SetActiveRun
<1>12. CancelQueue(q) =>
        Becomes(q, "PARKED", queue[q].started, FALSE, queue[q].active)
  <2>1. Shows([r EXCEPT !.status = "PARKED", !.overdue = FALSE],
              "PARKED", r.started, FALSE, r.active)
    <3> HIDE DEF r
    <3> QED
      BY <1>1 DEF QueueRow, Shows
  <2> QED
    BY <1>2, <2>1 DEF CancelQueue
<1>13. RequeueFailed(q) =>
        Becomes(q, "PENDING", queue[q].started, queue[q].overdue, queue[q].active)
  <2>1. Shows([r EXCEPT !.status = "PENDING", !.iter = Decrement(@)],
              "PENDING", r.started, r.overdue, r.active)
    <3> HIDE DEF r
    <3> QED
      BY <1>1 DEF QueueRow, Shows
  <2> QED
    BY <1>2, <2>1 DEF RequeueFailed
<1>14. \A i, fence : AttachIteration(q, i, fence) =>
        IF FenceHolds(q, fence)
        THEN Becomes(q, queue[q].status, queue[q].started, queue[q].overdue, Null)
        ELSE UNCHANGED queue
  <2>1. \A n : Shows([r EXCEPT !.last = n, !.active = Null],
              r.status, r.started, r.overdue, Null)
    <3> HIDE DEF r
    <3> QED
      BY <1>1 DEF QueueRow, Shows
  <2> QED
    BY <1>2, <2>1 DEF AttachIteration
<1> QED
  BY <1>4, <1>5, <1>6, <1>7, <1>8, <1>9, <1>10, <1>11, <1>12, <1>13, <1>14

---------------------------------------------------------------------------
(* Type correctness *)

TablesGrow ==
    /\ runs' \in Seq(Run) /\ Len(runs) <= Len(runs')
    /\ audits' \in Seq(Audit) /\ Len(audits) <= Len(audits')
    /\ iters' \in Seq(Iteration) /\ LoggedRuns \subseteq LoggedRuns'
    /\ faults' \in 0..MaxFaults

RowsSound ==
    /\ queue' \in [Rows -> QueueRow]
    /\ \A q \in Rows : queue'[q].active \in (1..Len(runs')) \cup {Null}

(* A tick keeps what it knows while the tables grow.                        *)
LEMMA KnownStays ==
    ASSUME NEW k, NEW R \in Nat, NEW A \in Nat, NEW L,
           NEW R1 \in Nat, NEW A1 \in Nat, NEW L1,
           R <= R1, A <= A1, L \subseteq L1, Known(k, R, A, L)
    PROVE  Known(k, R1, A1, L1)
BY DEF Known

(* A step that moves one tick, and whatever tables it writes.               *)
LEMMA TickMoves ==
    ASSUME TypeInv, TablesGrow, RowsSound, NEW t \in Ticks,
           tick' = [tick EXCEPT ![t] = tick'[t]],
           tick'[t] \in TickLocals,
           Known(tick'[t], Len(runs'), Len(audits'), LoggedRuns')
    PROVE  TypeInv'
<1>1. /\ Len(runs) \in Nat /\ Len(runs') \in Nat
      /\ Len(audits) \in Nat /\ Len(audits') \in Nat
  BY DEF TypeInv, TypeOK, TablesGrow
<1>2. ASSUME NEW u \in Ticks
      PROVE  Known(tick'[u], Len(runs'), Len(audits'), LoggedRuns')
  <2>1. CASE u = t
    BY <2>1
  <2>2. CASE u # t
    <3>1. tick'[u] = tick[u]
      BY <2>2 DEF TypeInv, TypeOK
    <3>2. Known(tick[u], Len(runs), Len(audits), LoggedRuns)
      BY DEF TypeInv
    <3> QED
      BY <1>1, <3>1, <3>2, KnownStays DEF TablesGrow
  <2> QED
    BY <2>1, <2>2
<1>3. TypeOK'
  <2>1. tick' \in [Ticks -> TickLocals]
    BY DEF TypeInv, TypeOK
  <2> QED
    BY <2>1 DEF TypeOK, TablesGrow, RowsSound
<1> QED
  BY <1>2, <1>3 DEF TypeInv, RowsSound

(* A step that moves no tick.                                               *)
LEMMA NoTickMoves ==
    ASSUME TypeInv, TablesGrow, RowsSound, UNCHANGED tick
    PROVE  TypeInv'
<1>1. /\ Len(runs) \in Nat /\ Len(runs') \in Nat
      /\ Len(audits) \in Nat /\ Len(audits') \in Nat
  BY DEF TypeInv, TypeOK, TablesGrow
<1>2. ASSUME NEW u \in Ticks
      PROVE  Known(tick'[u], Len(runs'), Len(audits'), LoggedRuns')
  <2>1. Known(tick[u], Len(runs), Len(audits), LoggedRuns)
    BY DEF TypeInv
  <2> QED
    BY <1>1, <2>1, KnownStays DEF TablesGrow
<1>3. TypeOK'
  BY DEF TypeInv, TypeOK, TablesGrow, RowsSound
<1> QED
  BY <1>2, <1>3 DEF TypeInv, RowsSound

LEMMA TablesKept ==
    ASSUME TypeInv
    PROVE  /\ UNCHANGED <<runs, audits, iters, faults>> => TablesGrow
           /\ UNCHANGED <<runs, audits, iters>> /\ Disturbed => TablesGrow
<1>1. Len(runs) \in Nat /\ Len(audits) \in Nat
  BY DEF TypeInv, TypeOK
<1>2. UNCHANGED iters => LoggedRuns' = LoggedRuns
  BY DEF LoggedRuns
<1>3. Disturbed => faults' \in 0..MaxFaults
  BY TickAssumption DEF Disturbed, TypeInv, TypeOK
<1> QED
  BY <1>1, <1>2, <1>3 DEF TypeInv, TypeOK, TablesGrow

(* Every statement keeps the table sound: the row of a run exists before    *)
(* set_active_run stores its id.                                           *)
LEMMA StatementsSound ==
    ASSUME TypeInv, TablesGrow, NEW q \in Rows
    PROVE  /\ UNCHANGED queue \/ RecoverStuck => RowsSound
           /\ \A now \in Fences : ClaimRow(q, now) => RowsSound
           /\ RollbackIter(q) \/ ResetToPending(q) \/ ParkExhausted(q) \/ FailQueue(q)
                => RowsSound
           /\ \A final \in FinalVerdicts : CompleteQueue(q, final) => RowsSound
           /\ \A r \in 1..Len(runs) : SetActiveRun(q, r) => RowsSound
           /\ \A i \in Ids : \A fence : AttachIteration(q, i, fence) => RowsSound
           /\ CancelQueue(q) \/ RequeueFailed(q) \/ InsertQueue(q) => RowsSound
<1> DEFINE A == (1..Len(runs')) \cup {Null}
           Typed == queue' \in [Rows -> QueueRow]
<1>1. queue \in [Rows -> QueueRow]
  BY DEF TypeInv, TypeOK
<1>2. /\ Len(runs) \in Nat /\ Len(runs') \in Nat
      /\ \A r \in 1..Len(runs) : r \in A /\ r \in Ids
  BY DEF TypeInv, TypeOK, TablesGrow, Ids
<1>3. \A p \in Rows : queue[p].active \in A
  BY <1>2 DEF TypeInv
<1>4. Null \in A
  OBVIOUS
<1> HIDE DEF A
<1>5. Typed /\ (\A p \in Rows : queue'[p].active \in A) => RowsSound
  BY DEF RowsSound, A
<1>6. \A status, started, overdue, active :
          /\ Typed
          /\ active \in A
          /\ \/ Becomes(q, status, started, overdue, active)
             \/ BecomesIfRunning(q, status, started, overdue, active)
          => RowsSound
  BY <1>3, <1>5 DEF Becomes, BecomesIfRunning, Shows
<1> HIDE DEF Typed
<1>7. UNCHANGED queue => RowsSound
  BY <1>1, <1>3, <1>5 DEF Typed
<1>8. RecoverStuck => RowsSound
  <2> SUFFICES ASSUME RecoverStuck
               PROVE  RowsSound
    OBVIOUS
  <2>1. Typed
    BY <1>1, StatementsTyped DEF Typed
  <2>2. \A p \in Rows : queue'[p].active = queue[p].active
    BY <1>1 DEF RecoverStuck, Recovered, QueueRow
  <2> QED
    BY <1>3, <1>5, <2>1, <2>2
<1>9. \A now \in Fences : ClaimRow(q, now) => RowsSound
  BY <1>1, <1>3, <1>6, StatementsTyped, StatementEffects DEF Typed
<1>10. RollbackIter(q) \/ ResetToPending(q) => RowsSound
  BY <1>1, <1>3, <1>6, StatementsTyped, StatementEffects DEF Typed
<1>11. ParkExhausted(q) \/ FailQueue(q) => RowsSound
  BY <1>1, <1>4, <1>6, StatementsTyped, StatementEffects DEF Typed
<1>12. \A final \in FinalVerdicts : CompleteQueue(q, final) => RowsSound
  BY <1>1, <1>4, <1>6, StatementsTyped, StatementEffects DEF Typed
<1>13. \A r \in 1..Len(runs) : SetActiveRun(q, r) => RowsSound
  BY <1>1, <1>2, <1>6, StatementsTyped, StatementEffects DEF Typed
<1>14. \A i \in Ids : \A fence : AttachIteration(q, i, fence) => RowsSound
  BY <1>1, <1>4, <1>6, <1>7, StatementsTyped, StatementEffects DEF Typed
<1>15. CancelQueue(q) \/ RequeueFailed(q) \/ InsertQueue(q) => RowsSound
  BY <1>1, <1>3, <1>6, StatementsTyped, StatementEffects DEF Typed
<1> QED
  BY <1>7, <1>8, <1>9, <1>10, <1>11, <1>12, <1>13, <1>14, <1>15

(* A trial count is a number.                                               *)
LEMMA CountTrialsNat ==
    ASSUME audits \in Seq(Audit), NEW q
    PROVE  CountTrials(q) \in Nat
<1> DEFINE S == {a \in 1..Len(audits) :
                    /\ audits[a].iter # Null
                    /\ Universe[q] # Null
                    /\ Universe[audits[a].row] = Universe[q]}
<1>1. IsFiniteSet(1..Len(audits))
  BY FS_Interval
<1>2. IsFiniteSet(S)
  <2>1. S \subseteq 1..Len(audits)
    OBVIOUS
  <2> QED
    BY <1>1, <2>1, FS_Subset
<1>3. Cardinality(S) \in Nat
  BY <1>2, FS_CardinalityType
<1>4. CountTrials(q) = 1 + Cardinality(S)
  BY DEF CountTrials
<1> HIDE DEF S
<1> QED
  BY <1>3, <1>4

(* Going on keeps all that a tick knows.                                    *)
LEMMA GotoMoves ==
    ASSUME TypeInv, NEW t \in Ticks,
           NEW pc \in {"idle", "claim", "rollback", "reply"} \cup ClaimedSteps, Goto(t, pc)
    PROVE  /\ tick' = [tick EXCEPT ![t] = tick'[t]]
           /\ tick'[t] \in TickLocals
           /\ tick'[t].pc = pc /\ tick'[t].row = tick[t].row
           /\ tick'[t].fence = tick[t].fence /\ tick'[t].run = tick[t].run
           /\ tick'[t].audit = tick[t].audit /\ tick'[t].cell = tick[t].cell
           /\ tick'[t].iter = tick[t].iter /\ tick'[t].prior = tick[t].prior
           /\ tick'[t].trials = tick[t].trials
<1>1. tick \in [Ticks -> TickLocals] /\ tick[t] \in TickLocals
  BY DEF TypeInv, TypeOK
<1>2. /\ tick' = [tick EXCEPT ![t] = tick'[t]]
      /\ tick'[t] = [tick[t] EXCEPT !.pc = pc]
  BY <1>1 DEF Goto
<1> DEFINE k == tick[t]
           l == [k EXCEPT !.pc = pc]
<1>3. /\ l \in TickLocals
      /\ l.pc = pc /\ l.row = k.row /\ l.fence = k.fence /\ l.run = k.run
      /\ l.audit = k.audit /\ l.cell = k.cell /\ l.iter = k.iter /\ l.prior = k.prior
      /\ l.trials = k.trials
  <2> HIDE DEF k
  <2> k \in TickLocals
    BY <1>1 DEF k
  <2> QED
    BY DEF TickLocals
<1> QED
  BY <1>2, <1>3

(* A tick that leaves remembers only its row.                               *)
LEMMA LeftMoves ==
    ASSUME TypeInv, NEW t \in Ticks, NEW pc \in {"rollback", "reply"},
           tick' = [tick EXCEPT ![t] = Left(t, pc)]
    PROVE  /\ tick' = [tick EXCEPT ![t] = tick'[t]]
           /\ tick'[t] \in TickLocals
           /\ tick'[t].pc = pc /\ tick'[t].row = tick[t].row /\ tick'[t].audit = Null
<1>1. tick \in [Ticks -> TickLocals] /\ tick[t] \in TickLocals
  BY DEF TypeInv, TypeOK
<1>2. tick' = [tick EXCEPT ![t] = tick'[t]] /\ tick'[t] = Left(t, pc)
  BY <1>1
<1>3. /\ Left(t, pc) \in TickLocals
      /\ Left(t, pc).pc = pc /\ Left(t, pc).row = tick[t].row /\ Left(t, pc).audit = Null
  BY <1>1 DEF Left, IdleTick, TickLocals
<1> QED
  BY <1>2, <1>3

(* A tick that ends forgets everything.                                     *)
LEMMA IdleMoves ==
    ASSUME TypeInv, NEW t \in Ticks, tick' = [tick EXCEPT ![t] = IdleTick]
    PROVE  /\ tick' = [tick EXCEPT ![t] = tick'[t]]
           /\ tick'[t] \in TickLocals
           /\ tick'[t].pc = "idle" /\ tick'[t].audit = Null
<1>1. tick \in [Ticks -> TickLocals]
  BY DEF TypeInv, TypeOK
<1>2. tick' = [tick EXCEPT ![t] = tick'[t]] /\ tick'[t] = IdleTick
  BY <1>1
<1>3. IdleTick \in TickLocals /\ IdleTick.pc = "idle" /\ IdleTick.audit = Null
  BY DEF IdleTick, TickLocals
<1> QED
  BY <1>2, <1>3

(* A tick that claimed and goes on, one that leaves and one that ends.      *)
LEMMA TypeGoto ==
    ASSUME TypeInv, TablesGrow, RowsSound, NEW t \in Ticks,
           NEW pc \in {"idle", "claim", "rollback", "reply"} \cup ClaimedSteps, Goto(t, pc),
           pc \in {"idle", "claim"} \/ tick[t].pc \notin {"idle", "claim"},
           pc \in RunSteps => tick[t].pc \in RunSteps, pc # "resume",
           pc \in {"submit", "log"} => tick[t].cell \in Nat,
           pc \in {"store", "poll", "find"} => tick[t].pc \in {"store", "poll", "find"},
           pc \in {"attach", "decide"} => tick[t].pc \in {"attach", "decide"}
    PROVE  TypeInv'
<1>1. /\ Known(tick[t], Len(runs), Len(audits), LoggedRuns)
      /\ Len(runs) \in Nat /\ Len(audits) \in Nat
      /\ Len(runs') \in Nat /\ Len(audits') \in Nat
  BY DEF TypeInv, TypeOK, TablesGrow
<1>2. Known(tick[t], Len(runs'), Len(audits'), LoggedRuns')
  BY <1>1, KnownStays DEF TablesGrow
<1>3. Known(tick'[t], Len(runs'), Len(audits'), LoggedRuns')
  BY <1>2, GotoMoves DEF Known
<1> QED
  BY <1>3, GotoMoves, TickMoves

LEMMA TypeLeft ==
    ASSUME TypeInv, TablesGrow, RowsSound, NEW t \in Ticks,
           tick[t].row \in Rows, NEW pc \in {"rollback", "reply"},
           tick' = [tick EXCEPT ![t] = Left(t, pc)]
    PROVE  TypeInv'
<1>1. Known(tick'[t], Len(runs'), Len(audits'), LoggedRuns')
  BY LeftMoves DEF Known, RunSteps
<1> QED
  BY <1>1, LeftMoves, TickMoves

LEMMA TypeIdle ==
    ASSUME TypeInv, TablesGrow, RowsSound, NEW t \in Ticks,
           tick' = [tick EXCEPT ![t] = IdleTick]
    PROVE  TypeInv'
<1>1. Known(tick'[t], Len(runs'), Len(audits'), LoggedRuns')
  BY IdleMoves DEF Known, RunSteps
<1> QED
  BY <1>1, IdleMoves, TickMoves

LEMMA QueueSound ==
    ASSUME TypeInv, TablesGrow, UNCHANGED queue \/ RecoverStuck
    PROVE  RowsSound
<1>1. CASE Rows = {}
  BY <1>1 DEF RecoverStuck, RowsSound, TypeInv, TypeOK
<1>2. CASE Rows # {}
  BY <1>2, StatementsSound
<1> QED
  BY <1>1, <1>2

(* Every step of a tick keeps the type invariant.                           *)
LEMMA TypeTickStep ==
    ASSUME TypeInv, NEW t \in Ticks, TickStep(t)
    PROVE  TypeInv'
<1> DEFINE k == tick[t]
           Fits == Known(tick'[t], Len(runs'), Len(audits'), LoggedRuns')
<1>1. /\ tick \in [Ticks -> TickLocals] /\ k \in TickLocals
      /\ queue \in [Rows -> QueueRow]
      /\ runs \in Seq(Run) /\ audits \in Seq(Audit) /\ iters \in Seq(Iteration)
      /\ Len(runs) \in Nat /\ Len(audits) \in Nat /\ Len(iters) \in Nat
  BY DEF TypeInv, TypeOK
<1>2. /\ Known(k, Len(runs), Len(audits), LoggedRuns)
      /\ \A q \in Rows : queue[q].active \in (1..Len(runs)) \cup {Null}
  BY DEF TypeInv
<1>3. UNCHANGED <<runs, audits, iters, faults>> => TablesGrow /\ LoggedRuns' = LoggedRuns
  BY TablesKept DEF LoggedRuns
<1>4. k.pc \notin {"idle", "claim"} => k.row \in Rows
  BY <1>2 DEF Known
<1>5. UNCHANGED queue /\ TablesGrow => RowsSound
  BY QueueSound
<1>6. CASE Recover(t)
  <2>1. TablesGrow /\ Goto(t, "claim") /\ RowsSound
    BY <1>3, <1>6, QueueSound DEF Recover
  <2> QED
    BY <2>1, TypeGoto DEF RunSteps
<1>7. CASE Claim(t)
  <2>1. PICK q \in Rows, now \in Fences :
          /\ ClaimRow(q, now)
          /\ tick' = [tick EXCEPT ![t] =
                [IdleTick EXCEPT !.pc = "resume", !.row = q, !.fence = now,
                                 !.prior = queue[q].iter, !.run = queue[q].active]]
    BY <1>7 DEF Claim, FirstPending
  <2>2. TablesGrow
    BY <1>3, <1>7 DEF Claim
  <2>3. RowsSound
    BY <2>1, <2>2, StatementsSound
  <2>4. /\ queue[q].iter \in Nat
        /\ queue[q].active \in (1..Len(runs)) \cup {Null}
        /\ queue[q].active \in Ids \cup {Null}
    BY <1>1, <1>2 DEF QueueRow
  <2>5. /\ tick' = [tick EXCEPT ![t] = tick'[t]]
        /\ tick'[t] \in TickLocals
        /\ tick'[t].pc = "resume" /\ tick'[t].row = q /\ tick'[t].audit = Null
        /\ tick'[t].run = queue[q].active
    BY <1>1, <2>1, <2>4 DEF IdleTick, TickLocals, ClaimedSteps
  <2>6. Fits
    <3>1. Len(runs') = Len(runs)
      BY <1>7 DEF Claim
    <3> QED
      BY <2>4, <2>5, <3>1 DEF Known, RunSteps
  <2> QED
    BY <2>2, <2>3, <2>5, <2>6, TickMoves
<1>8. CASE EmptyQueue(t)
  BY <1>3, <1>5, <1>8, TypeGoto DEF EmptyQueue, RunSteps
<1>9. CASE Resume(t)
  <2> DEFINE q == k.row
             r == k.run
             a == LatestUnattached(q)
  <2>1. TablesGrow /\ RowsSound /\ q \in Rows
    BY <1>3, <1>4, <1>5, <1>9 DEF Resume
  <2>2. CASE ~Resumable(q, r)
    BY <1>9, <2>1, <2>2, TypeGoto DEF Resume, RunSteps, ClaimedSteps
  <2>3. CASE Resumable(q, r)
    <3>1. r \in 1..Len(runs)
      BY <1>2, <1>9, <2>3 DEF Resumable, Resume, Known
    <3>2. a # Null => /\ a \in 1..Len(audits) /\ a \in Ids
                      /\ audits[a] \in Audit
      BY <1>1, FoundTrial
    <3>3. a = Null => r \in LoggedRuns
      BY <1>1, <2>3, FoundIteration DEF Resumable
    <3>4. a # Null => audits[a].cell \in Nat
      BY <3>2 DEF Audit
    <3> DEFINE pc == IF runs[r].state = "COMPLETED" THEN "find" ELSE "poll"
               c == IF a = Null THEN Null ELSE audits[a].cell
               m == CountTrials(q)
    <3>5. tick' = [tick EXCEPT ![t] = [k EXCEPT !.pc = pc, !.audit = a,
                                                !.trials = m, !.cell = c]]
      BY <1>1, <1>9, <2>3 DEF Resume
    <3>6. /\ pc \in {"find", "poll"} /\ c \in Nat \cup {Null} /\ a \in Ids \cup {Null}
          /\ m \in Nat
      BY <1>1, <3>1, <3>2, <3>4, CountTrialsNat
    <3> HIDE DEF pc, c, a, m
    <3>7. /\ tick' = [tick EXCEPT ![t] = tick'[t]]
          /\ tick'[t] \in TickLocals
          /\ tick'[t].pc = pc /\ tick'[t].row = q /\ tick'[t].audit = a
          /\ tick'[t].run = r /\ tick'[t].cell = c
      <4> DEFINE l == [k EXCEPT !.pc = pc, !.audit = a,
                                !.trials = m, !.cell = c]
      <4>1. /\ l \in TickLocals
            /\ l.pc = pc /\ l.row = k.row /\ l.audit = a /\ l.run = k.run /\ l.cell = c
        <5>1. k \in TickLocals
          BY <1>1
        <5> HIDE DEF k
        <5>2. /\ pc \in {"idle", "claim", "rollback", "reply"} \cup ClaimedSteps
              /\ c \in Nat \cup {Null} /\ a \in Ids \cup {Null} /\ m \in Nat
          BY <3>6 DEF ClaimedSteps
        <5> DEFINE j == [k EXCEPT !.pc = pc, !.audit = a]
        <5>3. j \in TickLocals /\ j.pc = pc /\ j.row = k.row /\ j.audit = a /\ j.run = k.run
          BY <5>1, <5>2 DEF TickLocals
        <5>4. l = [j EXCEPT !.trials = m, !.cell = c]
          OBVIOUS
        <5> HIDE DEF j, l
        <5> QED
          BY <5>2, <5>3, <5>4 DEF TickLocals
      <4> HIDE DEF l
      <4> QED
        BY <1>1, <3>5, <4>1 DEF l
    <3> HIDE DEF q, r
    <3>8. /\ Len(runs') = Len(runs) /\ Len(audits') = Len(audits) /\ LoggedRuns' = LoggedRuns
      BY <1>3, <1>9 DEF Resume
    <3>9. c \in Nat \/ r \in LoggedRuns
      BY <3>3, <3>4 DEF c
    <3>10. Fits
      BY <2>1, <3>1, <3>2, <3>6, <3>7, <3>8, <3>9 DEF Known, RunSteps
    <3> QED
      BY <2>1, <3>7, <3>10, TickMoves
  <2> QED
    BY <2>2, <2>3
<1>10. CASE Exhausted(t)
  <2>1. TablesGrow /\ k.row \in Rows /\ ParkExhausted(k.row)
    BY <1>3, <1>4, <1>10 DEF Exhausted
  <2>2. RowsSound
    BY <2>1, StatementsSound
  <2> QED
    BY <1>10, <2>1, <2>2, TypeLeft DEF Exhausted
<1>11. CASE RecordTrial(t)
  <2>1. PICK c \in Combos(k.row, k.prior) :
          /\ audits' = Append(audits, [row |-> k.row, cell |-> c, iter |-> Null])
          /\ tick' = [tick EXCEPT ![t] = [k EXCEPT !.pc = "submit", !.cell = c,
                                                  !.trials = CountTrials(k.row),
                                                  !.audit = Len(audits) + 1]]
    BY <1>1, <1>11 DEF RecordTrial
  <2>2. k.row \in Rows /\ c \in Nat
    BY <1>1, <1>4, <1>11 DEF RecordTrial, Combos, TickLocals
  <2>3. [row |-> k.row, cell |-> c, iter |-> Null] \in Audit
    BY <2>2 DEF Audit
  <2>4. audits' \in Seq(Audit) /\ Len(audits') = Len(audits) + 1
    BY <1>1, <2>1, <2>3
  <2>5. UNCHANGED <<queue, runs, iters, faults>> /\ LoggedRuns' = LoggedRuns
    BY <1>11 DEF RecordTrial, LoggedRuns
  <2>6. TablesGrow
    BY <1>1, <2>4, <2>5 DEF TablesGrow, TypeInv, TypeOK
  <2>7. RowsSound
    BY <1>5, <2>5, <2>6
  <2>8. Len(audits) + 1 \in Ids /\ Len(audits) + 1 \in 1..Len(audits')
    BY <1>1, <2>4 DEF Ids
  <2>9. /\ tick' = [tick EXCEPT ![t] = tick'[t]]
        /\ tick'[t] \in TickLocals
        /\ tick'[t].pc = "submit" /\ tick'[t].row = k.row /\ tick'[t].cell = c
        /\ tick'[t].audit = Len(audits) + 1
    <3> DEFINE a == Len(audits) + 1
               m == CountTrials(k.row)
               l == [k EXCEPT !.pc = "submit", !.cell = c, !.trials = m, !.audit = a]
    <3>1. a \in Ids /\ m \in Nat
      BY <1>1, <2>8, CountTrialsNat
    <3>2. tick' = [tick EXCEPT ![t] = l]
      BY <2>1
    <3> HIDE DEF a, m
    <3>3. /\ l \in TickLocals
          /\ l.pc = "submit" /\ l.row = k.row /\ l.cell = c /\ l.audit = a
      <4> HIDE DEF k
      <4> QED
        BY <1>1, <2>2, <3>1 DEF TickLocals, ClaimedSteps
    <3> HIDE DEF l
    <3> QED
      BY <1>1, <3>2, <3>3 DEF a
  <2>10. Fits
    BY <2>2, <2>8, <2>9 DEF Known, RunSteps
  <2> QED
    BY <2>6, <2>7, <2>9, <2>10, TickMoves
<1>12. CASE SubmitAccepted(t)
  <2>1. k.row \in Rows /\ k.cell \in Nat
    BY <1>2, <1>4, <1>12 DEF SubmitAccepted, Known
  <2>2. NewRun(t) \in Run
    BY <2>1 DEF NewRun, Run
  <2>3. runs' \in Seq(Run) /\ Len(runs') = Len(runs) + 1
    BY <1>1, <1>12, <2>2 DEF SubmitAccepted
  <2>4. UNCHANGED <<queue, audits, iters, faults>> /\ LoggedRuns' = LoggedRuns
    BY <1>12 DEF SubmitAccepted, LoggedRuns
  <2>5. TablesGrow
    BY <1>1, <2>3, <2>4 DEF TablesGrow, TypeInv, TypeOK
  <2>6. RowsSound
    BY <1>5, <2>4, <2>5
  <2> DEFINE r == Len(runs) + 1
  <2>7. r \in Ids /\ r \in 1..Len(runs')
    BY <1>1, <2>3 DEF Ids
  <2>8. tick' = [tick EXCEPT ![t] = [k EXCEPT !.pc = "store", !.run = r]]
    BY <1>1, <1>12 DEF SubmitAccepted
  <2> HIDE DEF r
  <2>9. /\ tick' = [tick EXCEPT ![t] = tick'[t]]
        /\ tick'[t] \in TickLocals
        /\ tick'[t].pc = "store" /\ tick'[t].row = k.row /\ tick'[t].cell = k.cell
        /\ tick'[t].audit = k.audit /\ tick'[t].run = r
    BY <1>1, <2>7, <2>8 DEF TickLocals, ClaimedSteps
  <2>10. Fits
    BY <1>2, <2>1, <2>4, <2>7, <2>9 DEF Known, RunSteps
  <2> QED
    BY <2>5, <2>6, <2>9, <2>10, TickMoves
<1>13. CASE StoreActiveRun(t)
  <2>1. TablesGrow /\ k.row \in Rows /\ k.run \in 1..Len(runs) /\ SetActiveRun(k.row, k.run)
    BY <1>2, <1>3, <1>4, <1>13 DEF StoreActiveRun, Known, RunSteps
  <2>2. RowsSound
    BY <2>1, StatementsSound
  <2> QED
    BY <1>13, <2>1, <2>2, TypeGoto DEF StoreActiveRun, RunSteps, ClaimedSteps
<1>14. CASE PollCompleted(t)
  BY <1>3, <1>5, <1>14, TypeGoto DEF PollCompleted, RunSteps, ClaimedSteps
<1>15. CASE PollDead(t)
  <2>1. TablesGrow /\ k.row \in Rows /\ FailQueue(k.row)
    BY <1>3, <1>4, <1>15 DEF PollDead
  <2>2. RowsSound
    BY <2>1, StatementsSound
  <2> QED
    BY <1>15, <2>1, <2>2, TypeLeft DEF PollDead
<1>16. CASE PollCapExpires(t)
  <2>1. TablesGrow /\ k.row \in Rows /\ RollbackIter(k.row)
    BY <1>3, <1>4, <1>16 DEF PollCapExpires
  <2>2. RowsSound
    BY <2>1, StatementsSound
  <2> QED
    BY <1>16, <2>1, <2>2, TypeLeft DEF PollCapExpires
<1>17. CASE FindIteration(t)
  <2> DEFINE i == FindIterationForRun(k.run)
             pc == IF i = Null THEN "log" ELSE "attach"
  <2>1. /\ TablesGrow /\ RowsSound
        /\ k.row \in Rows /\ k.run \in 1..Len(runs)
        /\ k.cell \in Nat \/ k.run \in LoggedRuns
    BY <1>2, <1>3, <1>4, <1>5, <1>17 DEF FindIteration, Known, RunSteps
  <2>2. /\ i = Null => k.run \notin LoggedRuns
        /\ i # Null => i \in Ids
    BY <1>1, FoundIteration
  <2>4. tick' = [tick EXCEPT ![t] = [k EXCEPT !.pc = pc, !.iter = i]]
    BY <1>1, <1>17 DEF FindIteration
  <2>5. pc \in {"log", "attach"} /\ i \in Ids \cup {Null}
    BY <2>2
  <2>6. (pc = "log") <=> (i = Null)
    OBVIOUS
  <2> HIDE DEF i, pc
  <2>7. /\ tick' = [tick EXCEPT ![t] = tick'[t]]
        /\ tick'[t] \in TickLocals
        /\ tick'[t].pc = pc /\ tick'[t].row = k.row /\ tick'[t].cell = k.cell
        /\ tick'[t].audit = k.audit /\ tick'[t].run = k.run /\ tick'[t].iter = i
    <3> DEFINE l == [k EXCEPT !.pc = pc, !.iter = i]
    <3>1. /\ l \in TickLocals
          /\ l.pc = pc /\ l.row = k.row /\ l.cell = k.cell
          /\ l.audit = k.audit /\ l.run = k.run /\ l.iter = i
      <4> HIDE DEF k
      <4>1. pc \in ClaimedSteps
        BY <2>5 DEF ClaimedSteps
      <4> QED
        BY <1>1, <2>5, <4>1 DEF TickLocals
    <3> HIDE DEF l
    <3> QED
      BY <1>1, <2>4, <3>1 DEF l
  <2>8. /\ Len(runs') = Len(runs) /\ Len(audits') = Len(audits) /\ LoggedRuns' = LoggedRuns
    BY <1>3, <1>17 DEF FindIteration
  <2>9. Fits
    BY <1>2, <2>1, <2>2, <2>5, <2>6, <2>7, <2>8 DEF Known, RunSteps
  <2> QED
    BY <2>1, <2>7, <2>9, TickMoves
<1>18. CASE LogEvidence(t)
  <2> DEFINE a == k.audit
             i == Len(iters) + 1
  <2>1. /\ k.row \in Rows /\ k.run \in 1..Len(runs) /\ k.cell \in Nat
        /\ a # Null => a \in 1..Len(audits)
    BY <1>2, <1>4, <1>18 DEF LogEvidence, Known, RunSteps
  <2>2. PICK out \in Outcomes :
          iters' = Append(iters, [row |-> k.row, run |-> k.run, cell |-> k.cell,
                                  trials |-> k.trials, out |-> out])
    BY <1>18 DEF LogEvidence
  <2>3. [row |-> k.row, run |-> k.run, cell |-> k.cell,
         trials |-> k.trials, out |-> out] \in Iteration
    <3>1. k.trials \in Nat
      BY <1>1 DEF TickLocals
    <3> QED
      BY <1>1, <2>1, <3>1, TickAssumption DEF Iteration, Ids
  <2>4. /\ iters' \in Seq(Iteration) /\ Len(iters') = Len(iters) + 1
        /\ \A j \in 1..Len(iters) : iters'[j] = iters[j]
    BY <1>1, <2>2, <2>3
  <2>5. LoggedRuns \subseteq LoggedRuns'
    BY <1>1, <2>4 DEF LoggedRuns
  <2>6. i \in Ids
    BY <1>1 DEF Ids
  <2>7. audits' \in Seq(Audit) /\ Len(audits') = Len(audits)
    <3>1. CASE a = Null
      BY <1>1, <1>18, <3>1 DEF LogEvidence
    <3>2. CASE a # Null
      <4>1. audits' = [audits EXCEPT ![a] = [audits[a] EXCEPT !.iter = i]]
        BY <1>18, <3>2 DEF LogEvidence
      <4>2. [audits[a] EXCEPT !.iter = i] \in Audit
        <5> HIDE DEF i
        <5>1. audits[a] \in Audit
          BY <1>1, <2>1, <3>2
        <5> QED
          BY <2>6, <5>1 DEF Audit
      <4> QED
        BY <1>1, <2>1, <3>2, <4>1, <4>2, ExceptSeq
    <3> QED
      BY <3>1, <3>2
  <2>8. UNCHANGED <<queue, runs, faults>>
    BY <1>18 DEF LogEvidence
  <2>9. TablesGrow
    BY <1>1, <2>4, <2>5, <2>7, <2>8 DEF TablesGrow, TypeInv, TypeOK
  <2>10. RowsSound
    BY <1>5, <2>8, <2>9
  <2>11. tick' = [tick EXCEPT ![t] = [k EXCEPT !.pc = "attach", !.iter = i]]
    BY <1>1, <1>18 DEF LogEvidence
  <2> HIDE DEF a, i
  <2>12. /\ tick' = [tick EXCEPT ![t] = tick'[t]]
         /\ tick'[t] \in TickLocals
         /\ tick'[t].pc = "attach" /\ tick'[t].row = k.row /\ tick'[t].run = k.run
         /\ tick'[t].audit = k.audit /\ tick'[t].iter = i
    BY <1>1, <2>6, <2>11 DEF TickLocals, ClaimedSteps
  <2>13. Fits
    BY <2>1, <2>6, <2>7, <2>8, <2>12 DEF Known, RunSteps, a
  <2> QED
    BY <2>9, <2>10, <2>12, <2>13, TickMoves
<1>19. CASE Attach(t)
  <2>1. TablesGrow /\ k.row \in Rows /\ k.iter \in Ids
    BY <1>2, <1>3, <1>4, <1>19 DEF Attach, Known
  <2>2. RowsSound
    BY <1>19, <2>1, StatementsSound DEF Attach
  <2>3. CASE FenceHolds(k.row, k.fence)
    BY <1>19, <2>1, <2>2, <2>3, TypeGoto DEF Attach, RunSteps, ClaimedSteps
  <2>4. CASE ~FenceHolds(k.row, k.fence)
    BY <1>19, <2>1, <2>2, <2>4, TypeLeft DEF Attach
  <2> QED
    BY <2>3, <2>4
<1>20. CASE DecideNextState(t)
  <2> DEFINE next == NextState(k.row, k.prior + 1, iters[k.iter].out)
  <2>1. TablesGrow /\ k.row \in Rows
    BY <1>3, <1>4, <1>20 DEF DecideNextState
  <2>2. next \in {"PARK", "CONTINUE"} \cup FinalVerdicts
    BY DEF NextState, FinalVerdicts
  <2>3. \/ ParkExhausted(k.row)
        \/ ResetToPending(k.row)
        \/ next \in FinalVerdicts /\ CompleteQueue(k.row, next)
    <3> HIDE DEF next
    <3> QED
      BY <1>20, <2>2 DEF DecideNextState, next
  <2>4. RowsSound
    BY <2>1, <2>3, StatementsSound
  <2> QED
    BY <1>20, <2>1, <2>4, TypeLeft DEF DecideNextState
<1>21. CASE Reply(t)
  BY <1>3, <1>5, <1>21, TypeIdle DEF Reply
<1>22. CASE Rollback(t)
  <2>1. TablesGrow /\ k.row \in Rows /\ RollbackIter(k.row)
    BY <1>3, <1>4, <1>22 DEF Rollback
  <2>2. RowsSound
    BY <2>1, StatementsSound
  <2> QED
    BY <1>22, <2>1, <2>2, TypeIdle DEF Rollback
<1> QED
  BY <1>6, <1>7, <1>8, <1>9, <1>10, <1>11, <1>12, <1>13, <1>14, <1>15, <1>16, <1>17,
     <1>18, <1>19, <1>20, <1>21, <1>22 DEF TickStep

(* So does a mishap of a tick.                                              *)
LEMMA TypeMishap ==
    ASSUME TypeInv, NEW t \in Ticks, Mishap(t)
    PROVE  TypeInv'
<1> DEFINE k == tick[t]
<1>1. /\ k \in TickLocals
      /\ runs \in Seq(Run) /\ Len(runs) \in Nat
      /\ Known(k, Len(runs), Len(audits), LoggedRuns)
  BY DEF TypeInv, TypeOK
<1>2. UNCHANGED <<runs, audits, iters>> /\ Disturbed => TablesGrow
  BY TablesKept
<1>3. k.pc \notin {"idle", "claim"} => k.row \in Rows
  BY <1>1 DEF Known
<1>4. CASE ConfigError(t)
  <2>1. TablesGrow /\ k.row \in Rows /\ FailQueue(k.row)
    BY <1>2, <1>3, <1>4 DEF ConfigError
  <2>2. RowsSound
    BY <2>1, StatementsSound
  <2> QED
    BY <1>4, <2>1, <2>2, TypeLeft DEF ConfigError
<1>5. CASE SubmitUnanswered(t)
  <2>1. k.row \in Rows /\ k.cell \in Nat
    BY <1>1, <1>3, <1>5 DEF SubmitUnanswered, Known
  <2>2. NewRun(t) \in Run
    BY <2>1 DEF NewRun, Run
  <2>3. runs' \in Seq(Run) /\ Len(runs') = Len(runs) + 1
    BY <1>1, <1>5, <2>2 DEF SubmitUnanswered
  <2>4. UNCHANGED <<queue, audits, iters>> /\ LoggedRuns' = LoggedRuns
    BY <1>5 DEF SubmitUnanswered, LoggedRuns
  <2>5. faults' \in 0..MaxFaults
    BY <1>5, TickAssumption DEF SubmitUnanswered, Disturbed, TypeInv, TypeOK
  <2>6. TablesGrow
    BY <1>1, <2>3, <2>4, <2>5 DEF TablesGrow, TypeInv, TypeOK
  <2>7. RowsSound
    BY <2>4, <2>6, QueueSound
  <2> QED
    BY <1>5, <2>1, <2>6, <2>7, TypeLeft DEF SubmitUnanswered
<1>6. CASE TickFails(t)
  <2>1. TablesGrow /\ k.row \in Rows /\ RowsSound
    BY <1>2, <1>3, <1>6, QueueSound DEF TickFails, ClaimedSteps
  <2> QED
    BY <1>6, <2>1, TypeLeft DEF TickFails
<1>7. CASE RollbackFails(t)
  <2>1. TablesGrow /\ RowsSound
    BY <1>2, <1>7, QueueSound DEF RollbackFails
  <2> QED
    BY <1>7, <2>1, TypeIdle DEF RollbackFails
<1> QED
  BY <1>4, <1>5, <1>6, <1>7 DEF Mishap

(* And so does everything that happens around the ticks.                    *)
LEMMA TypeAround ==
    ASSUME TypeInv,
           \/ \E q \in Rows : OperatorStep(q) \/ ClaimAges(q)
           \/ \E r \in 1..Len(runs) : RunCompletes(r) \/ RunFails(r)
           \/ ProcessDies
    PROVE  TypeInv'
<1>1. /\ queue \in [Rows -> QueueRow] /\ runs \in Seq(Run)
      /\ UNCHANGED iters => LoggedRuns' = LoggedRuns
  BY DEF TypeInv, TypeOK, LoggedRuns
<1>2. /\ UNCHANGED <<runs, audits, iters, faults>> => TablesGrow
      /\ UNCHANGED <<runs, audits, iters>> /\ Disturbed => TablesGrow
  BY TablesKept
<1>3. ASSUME NEW q \in Rows, OperatorStep(q)
      PROVE  TypeInv'
  <2>1. CancelQueue(q) \/ RequeueFailed(q) \/ InsertQueue(q)
    BY <1>3 DEF OperatorStep, Enqueue, Cancel, Requeue
  <2>2. UNCHANGED tick /\ TablesGrow
    BY <1>2, <1>3 DEF OperatorStep, Enqueue, Cancel, Requeue
  <2>3. RowsSound
    BY <2>1, <2>2, StatementsSound
  <2> QED
    BY <2>2, <2>3, NoTickMoves
<1>4. ASSUME NEW q \in Rows, ClaimAges(q)
      PROVE  TypeInv'
  <2>1. UNCHANGED tick /\ TablesGrow
    <3>1. UNCHANGED <<tick, runs, audits, iters>> /\ (UNCHANGED faults \/ Disturbed)
      BY <1>4 DEF ClaimAges
    <3> QED
      BY <1>2, <3>1
  <2>2. queue' = [queue EXCEPT ![q] = [queue[q] EXCEPT !.overdue = TRUE]]
    BY <1>1, <1>4 DEF ClaimAges
  <2>3. /\ [queue[q] EXCEPT !.overdue = TRUE] \in QueueRow
        /\ [queue[q] EXCEPT !.overdue = TRUE].active = queue[q].active
    <3> DEFINE r == queue[q]
    <3>1. r \in QueueRow
      BY <1>1
    <3> HIDE DEF r
    <3>2. [r EXCEPT !.overdue = TRUE] \in QueueRow /\ [r EXCEPT !.overdue = TRUE].active = r.active
      BY <3>1 DEF QueueRow
    <3> QED
      BY <3>2 DEF r
  <2>4. queue' \in [Rows -> QueueRow] /\ \A p \in Rows : queue'[p].active = queue[p].active
    <3> DEFINE s == [queue[q] EXCEPT !.overdue = TRUE]
    <3> HIDE DEF s
    <3>1. queue' = [queue EXCEPT ![q] = s] /\ s \in QueueRow /\ s.active = queue[q].active
      BY <2>2, <2>3 DEF s
    <3> QED
      BY <1>1, <3>1
  <2>5. RowsSound
    <3>1. runs' = runs
      BY <1>4 DEF ClaimAges
    <3>2. \A p \in Rows : queue'[p].active \in (1..Len(runs')) \cup {Null}
      BY <2>4, <3>1 DEF TypeInv
    <3> QED
      BY <2>4, <3>2 DEF RowsSound
  <2> QED
    BY <2>1, <2>5, NoTickMoves
<1>5. ASSUME NEW r \in 1..Len(runs), RunCompletes(r) \/ RunFails(r)
      PROVE  TypeInv'
  <2>1. PICK state \in {"COMPLETED", "FAILED"} :
            runs' = [runs EXCEPT ![r] = [runs[r] EXCEPT !.state = state]]
    BY <1>1, <1>5 DEF RunCompletes, RunFails
  <2>2. UNCHANGED <<queue, tick, audits, iters>>
    BY <1>5 DEF RunCompletes, RunFails
  <2>3. [runs[r] EXCEPT !.state = state] \in Run
    <3>1. runs[r] \in Run
      BY <1>1, ElementOfSeq
    <3> QED
      BY <3>1 DEF Run
  <2>4. runs' \in Seq(Run) /\ Len(runs') = Len(runs)
    BY <1>1, <2>1, <2>3, ExceptSeq
  <2>5. faults' \in 0..MaxFaults
    BY <1>5, TickAssumption DEF RunCompletes, RunFails, Disturbed, TypeInv, TypeOK
  <2>6. TablesGrow
    BY <1>1, <2>2, <2>4, <2>5 DEF TablesGrow, TypeInv, TypeOK
  <2>7. RowsSound
    BY <2>2, <2>6, QueueSound
  <2> QED
    BY <2>2, <2>6, <2>7, NoTickMoves
<1>6. CASE ProcessDies
  <2>1. TablesGrow /\ RowsSound /\ tick' = [t \in Ticks |-> IdleTick]
    BY <1>2, <1>6, QueueSound DEF ProcessDies
  <2>2. IdleTick \in TickLocals /\ IdleTick.pc = "idle" /\ IdleTick.audit = Null
    BY DEF IdleTick, TickLocals
  <2>3. \A t \in Ticks : Known(tick'[t], Len(runs'), Len(audits'), LoggedRuns')
    BY <2>1, <2>2 DEF Known, RunSteps
  <2>4. TypeOK'
    BY <2>1, <2>2 DEF TypeOK, TablesGrow, RowsSound
  <2> QED
    BY <2>1, <2>3, <2>4 DEF TypeInv, RowsSound
<1> QED
  BY <1>3, <1>4, <1>5, <1>6

LEMMA TypeStep == TypeInv /\ [Next]_vars => TypeInv'
<1> SUFFICES ASSUME TypeInv, [Next]_vars
             PROVE  TypeInv'
  OBVIOUS
<1>1. CASE UNCHANGED vars
  BY <1>1 DEF vars, TypeInv, TypeOK, LoggedRuns
<1>2. CASE Next
  BY <1>2, TypeTickStep, TypeMishap, TypeAround DEF Next
<1> QED
  BY <1>1, <1>2

LEMMA TypeStart == TickInit => TypeInv
<1> SUFFICES ASSUME TickInit
             PROVE  TypeInv
  OBVIOUS
<1>1. queue \in [Rows -> QueueRow] /\ \A q \in Rows : queue[q].active = Null
  BY DEF TickInit, QueueInit, NoRow, QueueRow, Statuses
<1>2. tick \in [Ticks -> TickLocals]
  BY DEF TickInit, IdleTick, TickLocals
<1>3. \A t \in Ticks : Known(tick[t], Len(runs), Len(audits), LoggedRuns)
  BY DEF TickInit, IdleTick, Known, RunSteps
<1>4. faults \in 0..MaxFaults /\ runs = <<>> /\ audits = <<>> /\ iters = <<>>
  BY TickAssumption DEF TickInit
<1> QED
  BY <1>1, <1>2, <1>3, <1>4 DEF TypeInv, TypeOK

(* Type correctness, in every regime: in particular a tick that resumes a   *)
(* run without an audit row (its combo is then unknown) never reaches the   *)
(* insert of an iteration, because such a run is logged already.           *)
THEOREM TypeCorrect == Spec => []TypeOK
<1>1. TypeInv => TypeOK
  BY DEF TypeInv
<1> QED
  BY <1>1, TypeStart, TypeStep, PTL DEF Spec

---------------------------------------------------------------------------
(* Safety *)

(* The rows that a tick in flight may find its claim on.                    *)
Exclusive ==
    /\ OneTickPerRow
    /\ \A t \in Ticks : InFlight(t) => queue[tick[t].row].status \in {"RUNNING", "PARKED"}
    /\ \A q \in Rows : queue[q].overdue =>
          queue[q].status = "RUNNING" /\ \A t \in Ticks : InFlight(t) => tick[t].row # q
    /\ \A t \in Ticks : tick[t].pc \in ClaimedSteps => FenceHolds(tick[t].row, tick[t].fence)

(* OneTickPerRow alone is not inductive: the reaper and the claim must not  *)
(* be able to take a row that a tick holds.                                *)
ExclusionInv == TypeInv /\ Exclusive

(* The runs and the row each belongs to; the pointer a tick was handed with *)
(* its claim is the one on the row until the tick has looked at it.         *)
Owned ==
    /\ \A q \in Rows : queue[q].active # Null => runs[queue[q].active].row = q
    /\ \A t \in Ticks : tick[t].pc \in RunSteps => runs[tick[t].run].row = tick[t].row
    /\ \A i \in 1..Len(iters) : iters[i].run \in 1..Len(runs)
    /\ \A t \in Ticks : tick[t].pc = "log" => tick[t].run \notin LoggedRuns
    /\ \A t \in Ticks : tick[t].pc = "resume" => tick[t].run = queue[tick[t].row].active
    /\ RunLoggedOnce

LoggingInv == ExclusionInv /\ Owned

---------------------------------------------------------------------------
(* Closed sweeps stay closed *)

StaysClosed(p) ==
    /\ queue[p].status \in Closed => queue'[p].status \in Closed
    /\ queue[p].status = "COMPLETED" =>
          queue'[p].status = "COMPLETED" /\ queue'[p].verdict = queue[p].verdict

(* The statements guarded by status = 'RUNNING' cannot move a closed row,   *)
(* nor can the claim, the cancel and the requeue of rows in other states.   *)
LEMMA StatementsKeepClosed ==
    ASSUME queue \in [Rows -> QueueRow], NEW q \in Rows, NEW p \in Rows
    PROVE  /\ UNCHANGED queue \/ RecoverStuck => StaysClosed(p)
           /\ RollbackIter(q) \/ ResetToPending(q) \/ ParkExhausted(q) \/ FailQueue(q)
                => StaysClosed(p)
           /\ \A final : CompleteQueue(q, final) => StaysClosed(p)
           /\ \A r : SetActiveRun(q, r) => StaysClosed(p)
           /\ \A i, fence : AttachIteration(q, i, fence) => StaysClosed(p)
           /\ \A now : queue[q].status = "PENDING" /\ ClaimRow(q, now) => StaysClosed(p)
           /\ queue[q].status = "ABSENT" /\ InsertQueue(q) => StaysClosed(p)
           /\ queue[q].status \in {"PENDING", "RUNNING"} /\ CancelQueue(q) => StaysClosed(p)
           /\ queue[q].status = "FAILED" /\ RequeueFailed(q) => StaysClosed(p)
<1> USE DEF StaysClosed, Closed
<1>1. \A status, started, overdue, active :
        BecomesIfRunning(q, status, started, overdue, active) => StaysClosed(p)
  BY DEF BecomesIfRunning, Becomes, Shows
<1>2. \A status, started, overdue, active :
        Becomes(q, status, started, overdue, active) /\ queue[q].status \notin Closed
        => StaysClosed(p)
  BY DEF Becomes
<1>3. UNCHANGED queue => StaysClosed(p)
  OBVIOUS
<1>4. RecoverStuck => StaysClosed(p)
  BY DEF RecoverStuck, Recovered
<1>5. RollbackIter(q) \/ ResetToPending(q) \/ ParkExhausted(q) \/ FailQueue(q)
        => StaysClosed(p)
  <2> HIDE DEF StaysClosed
  <2> QED
    BY <1>1, StatementEffects
<1>6. /\ \A final : CompleteQueue(q, final) => StaysClosed(p)
      /\ \A r : SetActiveRun(q, r) => StaysClosed(p)
  <2> HIDE DEF StaysClosed
  <2> QED
    BY <1>1, StatementEffects
<1>7. \A i, fence : AttachIteration(q, i, fence) => StaysClosed(p)
  <2>1. \A i : LET s == [queue[q] EXCEPT !.last = i, !.active = Null] IN
                s.status = queue[q].status /\ s.verdict = queue[q].verdict
    BY DEF QueueRow
  <2>2. \A i : Update(q, [queue[q] EXCEPT !.last = i, !.active = Null]) => StaysClosed(p)
    <3> SUFFICES ASSUME NEW i, Update(q, [queue[q] EXCEPT !.last = i, !.active = Null])
                 PROVE  StaysClosed(p)
      OBVIOUS
    <3> DEFINE s == [queue[q] EXCEPT !.last = i, !.active = Null]
    <3>1. s.status = queue[q].status /\ s.verdict = queue[q].verdict
      BY <2>1
    <3> HIDE DEF s
    <3>2. queue' = [queue EXCEPT ![q] = s]
      BY DEF Update, s
    <3> QED
      BY <3>1, <3>2
  <2> HIDE DEF StaysClosed
  <2> QED
    BY <1>3, <2>2 DEF AttachIteration
<1>8. \A now : queue[q].status = "PENDING" /\ ClaimRow(q, now) => StaysClosed(p)
  BY <1>2, StatementEffects
<1>9. /\ queue[q].status = "ABSENT" /\ InsertQueue(q) => StaysClosed(p)
      /\ queue[q].status \in {"PENDING", "RUNNING"} /\ CancelQueue(q) => StaysClosed(p)
      /\ queue[q].status = "FAILED" /\ RequeueFailed(q) => StaysClosed(p)
  BY <1>2, StatementEffects
<1> QED
  BY <1>3, <1>4, <1>5, <1>6, <1>7, <1>8, <1>9

LEMMA ClosedStep ==
    ASSUME TypeInv, [Next]_vars, NEW p \in Rows
    PROVE  StaysClosed(p)
<1>1. queue \in [Rows -> QueueRow]
  BY DEF TypeInv, TypeOK
<1>2. UNCHANGED queue => StaysClosed(p)
  BY DEF StaysClosed
<1>3. CASE UNCHANGED vars
  BY <1>2, <1>3 DEF vars
<1>4. ASSUME NEW t \in Ticks, TickStep(t) \/ Mishap(t)
      PROVE  StaysClosed(p)
  <2> DEFINE k == tick[t]
  <2>1. k.pc \notin {"idle", "claim"} => k.row \in Rows
    BY DEF TypeInv, Known
  <2>2. CASE k.pc \in {"idle", "claim"}
    <3>1. Recover(t) \/ Claim(t) \/ EmptyQueue(t)
      BY <1>4, <2>2 DEF TickStep, Mishap, Resume, Exhausted, RecordTrial, SubmitAccepted,
         StoreActiveRun, PollCompleted, PollDead, PollCapExpires, FindIteration, LogEvidence,
         Attach, DecideNextState, Reply, Rollback, ConfigError, SubmitUnanswered, TickFails,
         RollbackFails, ClaimedSteps
    <3>2. CASE Recover(t)
      BY <1>1, <3>2, StatementsKeepClosed DEF Recover
    <3>3. CASE Claim(t)
      <4>1. PICK q \in Rows, now \in Fences : queue[q].status = "PENDING" /\ ClaimRow(q, now)
        BY <3>3 DEF Claim, FirstPending, InStatus
      <4> QED
        BY <1>1, <4>1, StatementsKeepClosed
    <3>4. CASE EmptyQueue(t)
      BY <1>2, <3>4 DEF EmptyQueue
    <3> QED
      BY <3>1, <3>2, <3>3, <3>4
  <2>3. CASE k.pc \notin {"idle", "claim"}
    <3>1. \/ UNCHANGED queue
          \/ RollbackIter(k.row) \/ ResetToPending(k.row)
          \/ ParkExhausted(k.row) \/ FailQueue(k.row)
          \/ \E final : CompleteQueue(k.row, final)
          \/ SetActiveRun(k.row, k.run)
          \/ AttachIteration(k.row, k.iter, k.fence)
      BY <1>4, <2>3 DEF TickStep, Mishap, Recover, Claim, EmptyQueue, Resume, Exhausted,
         RecordTrial, SubmitAccepted, StoreActiveRun, PollCompleted, PollDead, PollCapExpires,
         FindIteration, LogEvidence, Attach, DecideNextState, Reply, Rollback, ConfigError,
         SubmitUnanswered, TickFails, RollbackFails
    <3> QED
      BY <1>1, <2>1, <2>3, <3>1, StatementsKeepClosed
  <2> QED
    BY <2>2, <2>3
<1>5. ASSUME NEW q \in Rows, OperatorStep(q) \/ ClaimAges(q)
      PROVE  StaysClosed(p)
  <2>1. CASE OperatorStep(q)
    BY <1>1, <2>1, StatementsKeepClosed DEF OperatorStep, Enqueue, Cancel, Requeue
  <2>2. CASE ClaimAges(q)
    BY <1>1, <2>2 DEF ClaimAges, StaysClosed, Closed, QueueRow
  <2> QED
    BY <1>5, <2>1, <2>2
<1>6. CASE ProcessDies \/ \E r \in 1..Len(runs) : RunCompletes(r) \/ RunFails(r)
  BY <1>2, <1>6 DEF ProcessDies, RunCompletes, RunFails
<1> QED
  BY <1>3, <1>4, <1>5, <1>6 DEF Next

(* No tick that was in flight when the operator cancelled a sweep, or when  *)
(* another tick finished it, reopens it or overwrites its verdict, whatever *)
(* ticks overlap, are reaped or are cancelled late.                         *)
THEOREM ClosedForever == Spec => ClosedStaysClosed
<1>1. TypeInv /\ [Next]_vars =>
        [\A q \in Rows :
            /\ queue[q].status \in Closed => queue'[q].status \in Closed
            /\ queue[q].status = "COMPLETED" =>
                  queue'[q].status = "COMPLETED" /\ queue'[q].verdict = queue[q].verdict]_vars
  BY ClosedStep DEF StaysClosed
<1> QED
  BY <1>1, TypeStart, TypeStep, PTL DEF Spec, ClosedStaysClosed

---------------------------------------------------------------------------
(* Evidence moves forward *)

(* The steps in which a tick is after the iteration of the run it knows.    *)
Seekers == {"resume", "poll", "find", "log"}

Newer(last, i) == last = Null \/ last < i

LogsNewer(r, last) == \A i \in 1..Len(iters) : iters[i].run = r => Newer(last, i)

(* Nobody but tick t knows its run.                                         *)
Unused(t) ==
    /\ tick[t].run \notin LoggedRuns
    /\ \A q \in Rows : queue[q].active # tick[t].run
    /\ \A u \in Ticks \ {t} :
          tick[u].pc \in Seekers \cup {"store"} => tick[u].run # tick[t].run

(* While the row still carries the fence of the tick with the locals k, and *)
(* only then, the evidence the tick will show is newer than what it shows.  *)
Upheld(k) ==
    /\ k.pc \in ClaimedSteps => k.fence \in Fences
    /\ k.pc = "attach" => k.iter \in 1..Len(iters)
    /\ k.pc \in Seekers /\ k.run # Null /\ queue[k.row].started = k.fence
          => LogsNewer(k.run, queue[k.row].last)
    /\ k.pc = "attach" /\ queue[k.row].started = k.fence
          => Newer(queue[k.row].last, k.iter)

ForwardInv ==
    /\ LoggedRuns \subseteq 1..Len(runs)
    /\ \A q \in Rows : queue[q].last \in (1..Len(iters)) \cup {Null}
    /\ \A q \in Rows : queue[q].active # Null => LogsNewer(queue[q].active, queue[q].last)
    /\ \A t, u \in Ticks : tick[t].fence # Null /\ tick[t].fence = tick[u].fence => t = u
    /\ \A t \in Ticks : Upheld(tick[t])
    /\ \A t \in Ticks : tick[t].pc = "store" => Unused(t)

FenceInv == TypeInv /\ ForwardInv

(* What every statement but the claim, set_active_run and an attach that    *)
(* passes its fence does to a row.                                         *)
Quiet(q) ==
    /\ queue'[q].last = queue[q].last
    /\ queue'[q].active \in {queue[q].active, Null}
    /\ queue'[q].started \in {queue[q].started, Null}

(* What every step but these, a submission and the logging does to a tick.  *)
GoesQuietly(u) ==
    LET k == tick[u]
        l == tick'[u] IN
    /\ l.fence \in {k.fence, Null}
    /\ \/ l.pc \notin ClaimedSteps
       \/ /\ k.pc \in ClaimedSteps /\ l.fence = k.fence
          /\ \/ l.pc \in {"derive", "submit", "decide"}
             \/ /\ k.pc \in Seekers /\ l.row = k.row
                /\ \/ l.pc \in Seekers /\ l.run = k.run
                   \/ /\ l.pc = "attach" /\ k.run # Null
                      /\ l.iter \in 1..Len(iters) /\ iters[l.iter].run = k.run

(* What the arguments below need to know of types.                          *)
LEMMA FenceTypes ==
    ASSUME TypeInv
    PROVE  /\ queue \in [Rows -> QueueRow] /\ tick \in [Ticks -> TickLocals]
           /\ runs \in Seq(Run) /\ iters \in Seq(Iteration)
           /\ Len(runs) \in Nat /\ Len(iters) \in Nat
           /\ Null \notin Nat /\ Null \notin Fences
           /\ \A t \in Ticks :
                 /\ tick[t].pc \in ClaimedSteps \cup {"rollback", "reply"} => tick[t].row \in Rows
                 /\ tick[t].pc \in RunSteps => tick[t].run \in 1..Len(runs)
                 /\ tick[t].pc = "resume" => tick[t].run \in (1..Len(runs)) \cup {Null}
           /\ \A q \in Rows : queue[q].active \in (1..Len(runs)) \cup {Null}
<1>1. /\ queue \in [Rows -> QueueRow] /\ tick \in [Ticks -> TickLocals]
      /\ runs \in Seq(Run) /\ iters \in Seq(Iteration)
      /\ \A q \in Rows : queue[q].active \in (1..Len(runs)) \cup {Null}
      /\ \A t \in Ticks : Known(tick[t], Len(runs), Len(audits), LoggedRuns)
  BY DEF TypeInv, TypeOK
<1>2. \A t \in Ticks :
         /\ tick[t].pc \in ClaimedSteps \cup {"rollback", "reply"} => tick[t].row \in Rows
         /\ tick[t].pc \in RunSteps => tick[t].run \in 1..Len(runs)
         /\ tick[t].pc = "resume" => tick[t].run \in (1..Len(runs)) \cup {Null}
  BY <1>1 DEF Known, ClaimedSteps
<1> QED
  BY <1>1, <1>2, QueueAssumption

(* A step of that kind keeps the invariant.                                 *)
LEMMA QuietForward ==
    ASSUME FenceInv, TypeInv', UNCHANGED iters, Len(runs) <= Len(runs'),
           \A q \in Rows : Quiet(q),
           \A u \in Ticks : tick'[u] = tick[u] \/ GoesQuietly(u)
    PROVE  ForwardInv'
<1>1. TypeInv /\ ForwardInv
  BY DEF FenceInv
<1>2. /\ Len(runs) \in Nat /\ Len(runs') \in Nat /\ Len(iters) \in Nat
      /\ Null \notin Nat /\ Null \notin Fences
      /\ \A t \in Ticks : tick[t].pc \in ClaimedSteps => tick[t].row \in Rows
      /\ \A t \in Ticks : tick[t].pc = "store" => tick[t].run \in 1..Len(runs)
  BY <1>1, FenceTypes DEF RunSteps, TypeInv, TypeOK
<1>3. LoggedRuns' = LoggedRuns
  BY DEF LoggedRuns
<1>4. \A r, last : LogsNewer(r, last) <=>
          \A i \in 1..Len(iters') : iters'[i].run = r => Newer(last, i)
  BY DEF LogsNewer
<1>5. (LoggedRuns \subseteq 1..Len(runs))'
  BY <1>1, <1>2, <1>3 DEF ForwardInv
<1>6. \A q \in Rows : queue'[q].last \in (1..Len(iters')) \cup {Null}
  BY <1>1 DEF ForwardInv, Quiet
<1>7. \A q \in Rows :
          queue'[q].active # Null => LogsNewer(queue'[q].active, queue'[q].last)
  BY <1>1 DEF ForwardInv, Quiet
<1>8. \A t \in Ticks : tick'[t].fence \in {tick[t].fence, Null}
  BY DEF GoesQuietly
<1>9. \A t, u \in Ticks : tick'[t].fence # Null /\ tick'[t].fence = tick'[u].fence => t = u
  BY <1>1, <1>8 DEF ForwardInv
<1>10. ASSUME NEW t \in Ticks
       PROVE  Upheld(tick[t])'
  <2> DEFINE k == tick[t]
             l == tick'[t]
             q == k.row
  <2>1. Upheld(k)
    BY <1>1 DEF ForwardInv
  <2>2. k.pc \in ClaimedSteps /\ queue'[q].started = k.fence =>
            /\ queue[q].started = k.fence
            /\ queue'[q].last = queue[q].last
    BY <1>2, <2>1 DEF Quiet, Upheld
  <2>3. CASE l = k
    BY <1>2, <2>1, <2>2, <2>3 DEF Upheld, LogsNewer, ClaimedSteps, Seekers
  <2>4. CASE GoesQuietly(t)
    <3>1. CASE l.pc \notin ClaimedSteps
      BY <3>1 DEF Upheld, ClaimedSteps, Seekers
    <3>2. CASE k.pc \in ClaimedSteps /\ l.fence = k.fence /\ l.pc \in {"derive", "submit", "decide"}
      BY <2>1, <3>2 DEF Upheld, ClaimedSteps, Seekers
    <3>3. CASE /\ k.pc \in Seekers /\ l.fence = k.fence /\ l.row = q
               /\ l.pc \in Seekers /\ l.run = k.run
      <4>1. k.pc \in ClaimedSteps /\ l.pc # "attach"
        BY <3>3 DEF ClaimedSteps, Seekers
      <4>2. k.run # Null /\ queue'[q].started = k.fence
              => LogsNewer(l.run, queue'[q].last)
        BY <2>1, <2>2, <3>3, <4>1 DEF Upheld
      <4> QED
        BY <1>4, <2>1, <3>3, <4>1, <4>2 DEF Upheld, LogsNewer
    <3>4. CASE /\ k.pc \in Seekers /\ l.fence = k.fence /\ l.row = q
               /\ l.pc = "attach" /\ k.run # Null
               /\ l.iter \in 1..Len(iters) /\ iters[l.iter].run = k.run
      <4>1. k.pc \in ClaimedSteps /\ l.pc \notin Seekers
        BY <3>4 DEF ClaimedSteps, Seekers
      <4>2. queue'[q].started = k.fence => Newer(queue'[q].last, l.iter)
        BY <2>1, <2>2, <3>4, <4>1 DEF Upheld, LogsNewer
      <4> QED
        BY <2>1, <3>4, <4>1, <4>2 DEF Upheld
    <3> QED
      BY <2>4, <3>1, <3>2, <3>3, <3>4 DEF GoesQuietly
  <2> QED
    BY <2>3, <2>4
<1>11. ASSUME NEW t \in Ticks, tick'[t].pc = "store"
       PROVE  Unused(t)'
  <2>1. tick'[t] = tick[t]
    BY <1>11 DEF GoesQuietly, ClaimedSteps, Seekers
  <2>2. Unused(t) /\ tick[t].run \in 1..Len(runs)
    BY <1>1, <1>2, <1>11, <2>1 DEF ForwardInv
  <2>3. tick[t].run # Null
    BY <1>2, <2>2
  <2>4. \A q \in Rows : queue'[q].active # tick[t].run
    BY <2>2, <2>3 DEF Unused, Quiet
  <2>5. ASSUME NEW u \in Ticks \ {t}, tick'[u].pc \in Seekers \cup {"store"}
        PROVE  tick'[u].run # tick[t].run
    <3>1. \/ tick'[u] = tick[u]
          \/ tick[u].pc \in Seekers /\ tick'[u].run = tick[u].run
      BY <2>5 DEF GoesQuietly, ClaimedSteps, Seekers
    <3> QED
      BY <2>2, <2>5, <3>1 DEF Unused
  <2> QED
    BY <1>3, <2>1, <2>2, <2>4, <2>5 DEF Unused
<1> QED
  <2>1. (\A q \in Rows : queue[q].active # Null
            => LogsNewer(queue[q].active, queue[q].last))'
    BY <1>7 DEF LogsNewer
  <2> QED
    BY <1>5, <1>6, <1>9, <1>10, <1>11, <2>1 DEF ForwardInv

(* The statements that are quiet.                                           *)
LEMMA StatementsQuiet ==
    ASSUME queue \in [Rows -> QueueRow], NEW q \in Rows, NEW p \in Rows
    PROVE  /\ UNCHANGED queue \/ RecoverStuck => Quiet(p)
           /\ RollbackIter(q) \/ ResetToPending(q) \/ ParkExhausted(q) \/ FailQueue(q)
                => Quiet(p)
           /\ \A final : CompleteQueue(q, final) => Quiet(p)
           /\ \A i, fence : ~FenceHolds(q, fence) /\ AttachIteration(q, i, fence) => Quiet(p)
           /\ InsertQueue(q) \/ CancelQueue(q) \/ RequeueFailed(q) => Quiet(p)
           /\ \A o : queue' = [queue EXCEPT ![q].overdue = o] => Quiet(p)
<1> DEFINE Kept(s) == /\ s.last = queue[q].last
                      /\ s.active \in {queue[q].active, Null}
                      /\ s.started = queue[q].started
<1>1. UNCHANGED queue => Quiet(p)
  BY DEF Quiet
<1>2. \A s : Kept(s) /\ (Update(q, s) \/ WhileRunning(q, s)) => Quiet(p)
  BY <1>1 DEF Quiet, Update, WhileRunning
<1>3. RecoverStuck => Quiet(p)
  BY DEF Quiet, RecoverStuck, Recovered, QueueRow
<1>4. queue[q] \in QueueRow
  OBVIOUS
<1>6. RollbackIter(q) \/ ResetToPending(q) => Quiet(p)
  <2>1. Kept([queue[q] EXCEPT !.status = "PENDING", !.overdue = FALSE, !.iter = Decrement(@)])
    BY <1>4 DEF QueueRow
  <2>2. Kept([queue[q] EXCEPT !.status = "PENDING", !.overdue = FALSE])
    BY <1>4 DEF QueueRow
  <2> HIDE DEF Kept
  <2> QED
    BY <1>2, <2>1, <2>2 DEF RollbackIter, ResetToPending
<1>7. ParkExhausted(q) \/ FailQueue(q) => Quiet(p)
  <2>1. /\ Kept([queue[q] EXCEPT !.status = "PARKED", !.overdue = FALSE, !.active = Null])
        /\ Kept([queue[q] EXCEPT !.status = "FAILED", !.overdue = FALSE, !.active = Null])
    BY <1>4 DEF QueueRow
  <2> HIDE DEF Kept
  <2> QED
    BY <1>2, <2>1 DEF ParkExhausted, FailQueue
<1>8. \A final : CompleteQueue(q, final) => Quiet(p)
  <2>1. \A final : Kept([queue[q] EXCEPT !.status = "COMPLETED", !.overdue = FALSE,
                                         !.active = Null, !.verdict = final])
    BY <1>4 DEF QueueRow
  <2> HIDE DEF Kept
  <2> QED
    BY <1>2, <2>1 DEF CompleteQueue
<1>9. \A i, fence : ~FenceHolds(q, fence) /\ AttachIteration(q, i, fence) => Quiet(p)
  BY <1>1 DEF AttachIteration
<1>10. InsertQueue(q) \/ CancelQueue(q) \/ RequeueFailed(q) => Quiet(p)
  <2>1. /\ \A n : Kept([queue[q] EXCEPT !.status = "PENDING", !.order = n])
        /\ Kept([queue[q] EXCEPT !.status = "PARKED", !.overdue = FALSE])
        /\ Kept([queue[q] EXCEPT !.status = "PENDING", !.iter = Decrement(@)])
    BY <1>4 DEF QueueRow
  <2> HIDE DEF Kept
  <2> QED
    BY <1>2, <2>1 DEF InsertQueue, CancelQueue, RequeueFailed
<1>11. \A o : queue' = [queue EXCEPT ![q].overdue = o] => Quiet(p)
  <2>1. \A o : Kept([queue[q] EXCEPT !.overdue = o])
    BY <1>4 DEF QueueRow
  <2>2. \A o : queue' = [queue EXCEPT ![q].overdue = o]
                  => Update(q, [queue[q] EXCEPT !.overdue = o])
    BY DEF Update
  <2> HIDE DEF Kept
  <2> QED
    BY <1>2, <2>1, <2>2
<1> QED
  BY <1>1, <1>3, <1>6, <1>7, <1>8, <1>9, <1>10, <1>11

(* The steps of a tick that are quiet.                                      *)
LEMMA QuietTickStep ==
    ASSUME FenceInv, NEW t \in Ticks, TickStep(t) \/ Mishap(t),
           ~Claim(t), ~SubmitAccepted(t), ~StoreActiveRun(t), ~LogEvidence(t),
           ~(Attach(t) /\ FenceHolds(tick[t].row, tick[t].fence))
    PROVE  /\ UNCHANGED iters /\ Len(runs) <= Len(runs')
           /\ \A q \in Rows : Quiet(q)
           /\ \A u \in Ticks : tick'[u] = tick[u] \/ GoesQuietly(u)
<1> DEFINE k == tick[t]
           Still == UNCHANGED iters /\ Len(runs) <= Len(runs')
           Calm == \A q \in Rows : Quiet(q)
           Going == \A u \in Ticks : tick'[u] = tick[u] \/ GoesQuietly(u)
<1>1. TypeInv
  BY DEF FenceInv
<1>2. /\ queue \in [Rows -> QueueRow] /\ tick \in [Ticks -> TickLocals] /\ k \in TickLocals
      /\ iters \in Seq(Iteration) /\ runs \in Seq(Run) /\ Len(runs) \in Nat
      /\ k.pc \in ClaimedSteps \cup {"rollback", "reply"} => k.row \in Rows
      /\ k.pc = "find" => k.run \in 1..Len(runs)
      /\ Null \notin Nat
  BY <1>1, FenceTypes DEF RunSteps
<1>3. \A l : tick' = [tick EXCEPT ![t] = l] =>
          /\ tick'[t] = l
          /\ GoesQuietly(t) => Going
  BY <1>2
<1>4. UNCHANGED <<runs, iters>> => Still
  BY <1>2
<1>5. UNCHANGED queue => Calm
  BY DEF Quiet
<1>6. \A pc : Left(t, pc).pc = pc /\ Left(t, pc).fence = Null
  BY DEF Left, IdleTick
<1>7. \A pc : pc \notin ClaimedSteps /\ tick' = [tick EXCEPT ![t] = Left(t, pc)] => Going
  BY <1>3, <1>6 DEF GoesQuietly
<1>8. tick' = [tick EXCEPT ![t] = IdleTick] => Going
  <2>1. IdleTick.pc \notin ClaimedSteps /\ IdleTick.fence = Null
    BY DEF IdleTick, ClaimedSteps
  <2> QED
    BY <1>3, <2>1 DEF GoesQuietly
<1>9. ASSUME NEW pc, Goto(t, pc)
      PROVE  /\ tick' = [tick EXCEPT ![t] = [k EXCEPT !.pc = pc]]
             /\ tick'[t].pc = pc /\ tick'[t].fence = k.fence
             /\ tick'[t].row = k.row /\ tick'[t].run = k.run
  BY <1>2, <1>9 DEF Goto, TickLocals
<1>10. \A pc : Goto(t, pc) /\ pc \notin ClaimedSteps => Going
  BY <1>3, <1>9 DEF GoesQuietly
<1>11. \A pc : Goto(t, pc) /\ k.pc \in Seekers /\ pc \in Seekers \cup {"derive"} => Going
  <2>1. k.pc \in Seekers => k.pc \in ClaimedSteps
    BY DEF Seekers, ClaimedSteps
  <2> QED
    BY <1>3, <1>9, <2>1 DEF GoesQuietly
<1>12. \/ UNCHANGED queue \/ RecoverStuck
       \/ /\ k.row \in Rows
          /\ \/ RollbackIter(k.row) \/ ResetToPending(k.row)
             \/ ParkExhausted(k.row) \/ FailQueue(k.row)
             \/ \E final : CompleteQueue(k.row, final)
             \/ ~FenceHolds(k.row, k.fence) /\ AttachIteration(k.row, k.iter, k.fence)
  BY <1>2 DEF TickStep, Mishap, Recover, EmptyQueue, Resume, Exhausted, RecordTrial,
     PollCompleted, PollDead, PollCapExpires, FindIteration, Attach, DecideNextState, Reply,
     Rollback, ConfigError, SubmitUnanswered, TickFails, RollbackFails, ClaimedSteps
<1>13. Calm
  BY <1>2, <1>12, StatementsQuiet
<1>14. Still
  <2>1. CASE SubmitUnanswered(t)
    <3>1. NewRun(t) \in Run
      BY <1>1, <2>1 DEF SubmitUnanswered, NewRun, Run, TypeInv, Known, TypeOK
    <3> QED
      BY <1>2, <2>1, <3>1 DEF SubmitUnanswered
  <2>2. CASE ~SubmitUnanswered(t)
    <3>1. UNCHANGED <<runs, iters>>
      BY <2>2 DEF TickStep, Mishap, Recover, EmptyQueue, Resume, Exhausted, RecordTrial,
         PollCompleted, PollDead, PollCapExpires, FindIteration, Attach, DecideNextState,
         Reply, Rollback, ConfigError, TickFails, RollbackFails
    <3> QED
      BY <1>4, <3>1
  <2> QED
    BY <2>1, <2>2
<1> SUFFICES Going
  BY <1>13, <1>14
<1> HIDE DEF Calm, Still, Going
<1>15. CASE Recover(t) \/ EmptyQueue(t)
  BY <1>10, <1>15 DEF Recover, EmptyQueue, ClaimedSteps
<1>16. CASE Resume(t)
  <2> DEFINE a == LatestUnattached(k.row)
             pc == IF runs[k.run].state = "COMPLETED" THEN "find" ELSE "poll"
             cell == IF a = Null THEN Null ELSE audits[a].cell
             l == [k EXCEPT !.pc = pc, !.audit = a, !.trials = CountTrials(k.row), !.cell = cell]
  <2>1. k.pc = "resume" /\ k.pc \in Seekers /\ k.pc \in ClaimedSteps
    BY <1>16 DEF Resume, Seekers, ClaimedSteps
  <2>2. CASE Goto(t, "derive")
    BY <1>11, <2>1, <2>2
  <2>3. CASE ~Goto(t, "derive")
    <3>1. tick' = [tick EXCEPT ![t] = l]
      BY <1>2, <1>16, <2>3 DEF Resume
    <3>2. l.pc = pc /\ l.row = k.row /\ l.fence = k.fence /\ l.run = k.run
      <4> HIDE DEF k, pc, a, cell
      <4>1. k \in TickLocals
        BY <1>2 DEF k
      <4> QED
        BY <4>1 DEF TickLocals
    <3>3. pc \in Seekers
      BY DEF Seekers
    <3> HIDE DEF l, pc
    <3> QED
      BY <1>3, <2>1, <3>1, <3>2, <3>3 DEF GoesQuietly
  <2> QED
    BY <2>2, <2>3
<1>17. CASE RecordTrial(t)
  <2>1. PICK c : tick' = [tick EXCEPT ![t].pc = "submit", ![t].cell = c,
                             ![t].trials = CountTrials(k.row), ![t].audit = Len(audits) + 1]
    BY <1>17 DEF RecordTrial
  <2> DEFINE n == CountTrials(k.row)
             b == Len(audits) + 1
             l == [k EXCEPT !.pc = "submit", !.cell = c, !.trials = n, !.audit = b]
  <2>2. tick' = [tick EXCEPT ![t] = l]
    BY <1>2, <2>1
  <2>3. l.pc = "submit" /\ l.fence = k.fence
    <3> HIDE DEF n, b, k
    <3>1. k \in TickLocals
      BY <1>2 DEF k
    <3> QED
      BY <3>1 DEF TickLocals
  <2>4. k.pc \in ClaimedSteps
    BY <1>17 DEF RecordTrial, ClaimedSteps
  <2> HIDE DEF l
  <2> QED
    BY <1>3, <2>2, <2>3, <2>4 DEF GoesQuietly
<1>18. CASE PollCompleted(t)
  BY <1>11, <1>18 DEF PollCompleted, Seekers
<1>19. CASE FindIteration(t)
  <2> DEFINE i == FindIterationForRun(k.run)
             pc == IF i = Null THEN "log" ELSE "attach"
             l == [k EXCEPT !.pc = pc, !.iter = i]
  <2>1. tick' = [tick EXCEPT ![t] = l]
    BY <1>2, <1>19 DEF FindIteration
  <2>2. l.pc = pc /\ l.row = k.row /\ l.fence = k.fence /\ l.run = k.run /\ l.iter = i
    <3> HIDE DEF k, pc, i
    <3>1. k \in TickLocals
      BY <1>2 DEF k
    <3> QED
      BY <3>1 DEF TickLocals
  <2>3. i # Null => i \in 1..Len(iters) /\ iters[i].run = k.run
    BY <1>2, FoundIteration
  <2>4. k.pc \in Seekers /\ k.pc \in ClaimedSteps /\ k.run # Null
    BY <1>2, <1>19 DEF FindIteration, Seekers, ClaimedSteps
  <2>5. pc = IF i = Null THEN "log" ELSE "attach"
    OBVIOUS
  <2> HIDE DEF l, pc, i
  <2> QED
    BY <1>3, <2>1, <2>2, <2>3, <2>4, <2>5 DEF GoesQuietly, Seekers
<1>20. CASE Attach(t)
  BY <1>7, <1>20 DEF Attach, ClaimedSteps
<1>21. CASE \/ Exhausted(t) \/ ConfigError(t) \/ SubmitUnanswered(t) \/ PollDead(t)
            \/ PollCapExpires(t) \/ DecideNextState(t) \/ TickFails(t)
  BY <1>7, <1>21 DEF Exhausted, ConfigError, SubmitUnanswered, PollDead, PollCapExpires,
     DecideNextState, TickFails, ClaimedSteps
<1>22. CASE Reply(t) \/ Rollback(t) \/ RollbackFails(t)
  BY <1>8, <1>22 DEF Reply, Rollback, RollbackFails
<1> QED
  BY <1>15, <1>16, <1>17, <1>18, <1>19, <1>20, <1>21, <1>22 DEF TickStep, Mishap

(* A claim gives a fence that no other tick holds, and brings the pointer of *)
(* the row.                                                                *)
LEMMA ClaimForward ==
    ASSUME FenceInv, NEW t \in Ticks, Claim(t)
    PROVE  /\ ForwardInv'
           /\ \A q \in Rows : queue'[q].last = queue[q].last
<1>1. PICK q \in Rows, now \in Fences \ {tick[u].fence : u \in Ticks} :
        /\ ClaimRow(q, now)
        /\ tick' = [tick EXCEPT ![t] =
              [IdleTick EXCEPT !.pc = "resume", !.row = q, !.fence = now,
                               !.prior = queue[q].iter, !.run = queue[q].active]]
  BY DEF Claim, FirstPending
<1>2. UNCHANGED <<runs, audits, iters>>
  BY DEF Claim
<1>3. TypeInv /\ ForwardInv
  BY DEF FenceInv
<1>4. /\ queue \in [Rows -> QueueRow] /\ tick \in [Ticks -> TickLocals]
      /\ Null \notin Nat /\ Null \notin Fences
      /\ \A u \in Ticks : tick[u].pc = "store" => tick[u].run \in 1..Len(runs)
      /\ \A u \in Ticks : tick[u].pc \in ClaimedSteps => tick[u].row \in Rows
  BY <1>3, FenceTypes DEF RunSteps
<1>5. /\ tick'[t].pc = "resume" /\ tick'[t].row = q /\ tick'[t].fence = now
      /\ tick'[t].run = queue[q].active
      /\ \A u \in Ticks \ {t} : tick'[u] = tick[u]
  BY <1>1, <1>4 DEF IdleTick
<1>6. /\ \A p \in Rows \ {q} : queue'[p] = queue[p]
      /\ queue'[q].last = queue[q].last /\ queue'[q].active = queue[q].active
      /\ queue'[q].started = now
  <2>1. queue[q] \in QueueRow
    BY <1>4
  <2> QED
    BY <1>1, <1>4, <2>1 DEF ClaimRow, Update, QueueRow
<1>7. \A p \in Rows : queue'[p].last = queue[p].last /\ queue'[p].active = queue[p].active
  BY <1>6
<1>8. LoggedRuns' = LoggedRuns
  BY <1>2 DEF LoggedRuns
<1>9. (LoggedRuns \subseteq 1..Len(runs))'
  BY <1>2, <1>3, <1>8 DEF ForwardInv
<1>10. (\A p \in Rows : queue[p].last \in (1..Len(iters)) \cup {Null})'
  BY <1>2, <1>3, <1>7 DEF ForwardInv
<1>11. (\A p \in Rows : queue[p].active # Null => LogsNewer(queue[p].active, queue[p].last))'
  BY <1>2, <1>3, <1>7 DEF ForwardInv, LogsNewer
<1>12. (\A s, u \in Ticks : tick[s].fence # Null /\ tick[s].fence = tick[u].fence => s = u)'
  BY <1>1, <1>3, <1>5 DEF ForwardInv
<1>13. ASSUME NEW u \in Ticks
       PROVE  Upheld(tick[u])'
  <2>1. CASE u = t
    <3>1. queue[q].active # Null => LogsNewer(queue[q].active, queue[q].last)
      BY <1>3 DEF ForwardInv
    <3> QED
      BY <1>2, <1>5, <1>6, <2>1, <3>1 DEF Upheld, LogsNewer
  <2>2. CASE u # t
    <3>1. tick'[u] = tick[u] /\ Upheld(tick[u]) /\ tick[u].fence # now
      BY <1>1, <1>3, <1>5, <2>2 DEF ForwardInv
    <3>2. tick[u].pc \in ClaimedSteps /\ queue'[tick[u].row].started = tick[u].fence
            => queue'[tick[u].row] = queue[tick[u].row]
      BY <1>4, <1>6, <3>1
    <3> QED
      BY <1>2, <3>1, <3>2 DEF Upheld, LogsNewer, Seekers, ClaimedSteps
  <2> QED
    BY <2>1, <2>2
<1>14. ASSUME NEW u \in Ticks, tick'[u].pc = "store"
       PROVE  Unused(u)'
  <2>1. u # t /\ tick'[u] = tick[u] /\ Unused(u) /\ tick[u].run \in 1..Len(runs)
    BY <1>3, <1>4, <1>5, <1>14 DEF ForwardInv
  <2>2. queue[q].active # tick[u].run
    BY <2>1 DEF Unused
  <2> QED
    BY <1>5, <1>7, <1>8, <2>1, <2>2 DEF Unused
<1> QED
  BY <1>7, <1>9, <1>10, <1>11, <1>12, <1>13, <1>14 DEF ForwardInv

(* A run has an id that nobody has seen when the JVM accepts it.            *)
LEMMA SubmitForward ==
    ASSUME FenceInv, NEW t \in Ticks, SubmitAccepted(t)
    PROVE  ForwardInv' /\ UNCHANGED queue
<1>1. /\ tick[t].pc = "submit" /\ runs' = Append(runs, NewRun(t))
      /\ UNCHANGED <<queue, iters>>
  BY DEF SubmitAccepted
<1>2. TypeInv /\ ForwardInv
  BY DEF FenceInv
<1>3. /\ tick \in [Ticks -> TickLocals] /\ runs \in Seq(Run) /\ Len(runs) \in Nat
      /\ Null \notin Nat
      /\ \A u \in Ticks : tick[u].pc \in Seekers \cup {"store"}
            => tick[u].run \in (1..Len(runs)) \cup {Null}
      /\ \A q \in Rows : queue[q].active \in (1..Len(runs)) \cup {Null}
  BY <1>2, FenceTypes DEF RunSteps, Seekers
<1>4. Len(runs') = Len(runs) + 1
  <2>1. NewRun(t) \in Run
    BY <1>1, <1>2 DEF NewRun, Run, TypeInv, Known
  <2> QED
    BY <1>1, <1>3, <2>1
<1>5. /\ tick'[t].pc = "store" /\ tick'[t].run = Len(runs) + 1
      /\ tick'[t].fence = tick[t].fence /\ tick'[t].row = tick[t].row
      /\ \A u \in Ticks \ {t} : tick'[u] = tick[u]
  <2>1. tick' = [tick EXCEPT ![t] = [tick[t] EXCEPT !.pc = "store", !.run = Len(runs) + 1]]
    BY DEF SubmitAccepted
  <2>2. tick[t] \in TickLocals
    BY <1>3
  <2> QED
    BY <1>3, <2>1, <2>2 DEF TickLocals
<1>6. LoggedRuns' = LoggedRuns
  BY <1>1 DEF LoggedRuns
<1>7. (LoggedRuns \subseteq 1..Len(runs))'
  BY <1>2, <1>3, <1>4, <1>6 DEF ForwardInv
<1>8. /\ (\A q \in Rows : queue[q].last \in (1..Len(iters)) \cup {Null})'
      /\ (\A q \in Rows : queue[q].active # Null => LogsNewer(queue[q].active, queue[q].last))'
  BY <1>1, <1>2 DEF ForwardInv, LogsNewer
<1>9. (\A s, u \in Ticks : tick[s].fence # Null /\ tick[s].fence = tick[u].fence => s = u)'
  BY <1>2, <1>5 DEF ForwardInv
<1>10. ASSUME NEW u \in Ticks
       PROVE  Upheld(tick[u])'
  <2>1. Upheld(tick[u])
    BY <1>2 DEF ForwardInv
  <2>2. CASE u = t
    BY <1>1, <1>5, <2>1, <2>2 DEF Upheld, ClaimedSteps, Seekers
  <2>3. CASE u # t
    BY <1>1, <1>5, <2>1, <2>3 DEF Upheld, LogsNewer
  <2> QED
    BY <2>2, <2>3
<1>11. ASSUME NEW u \in Ticks, tick'[u].pc = "store"
       PROVE  Unused(u)'
  <2>1. CASE u = t
    <3>1. Len(runs) + 1 \notin 1..Len(runs) /\ Len(runs) + 1 # Null
      BY <1>3
    <3>2. Len(runs) + 1 \notin LoggedRuns
      BY <1>2, <3>1 DEF ForwardInv
    <3> QED
      BY <1>1, <1>3, <1>5, <1>6, <2>1, <3>1, <3>2 DEF Unused
  <2>2. CASE u # t
    <3>1. tick'[u] = tick[u] /\ Unused(u) /\ tick[u].run # Len(runs) + 1
      BY <1>2, <1>3, <1>5, <1>11, <2>2 DEF ForwardInv
    <3> QED
      BY <1>1, <1>5, <1>6, <3>1 DEF Unused
  <2> QED
    BY <2>1, <2>2
<1> QED
  BY <1>1, <1>7, <1>8, <1>9, <1>10, <1>11 DEF ForwardInv

(* The pointer that a tick stores, late or not, is to a run with no         *)
(* iteration.                                                              *)
LEMMA StoreForward ==
    ASSUME FenceInv, NEW t \in Ticks, StoreActiveRun(t)
    PROVE  /\ ForwardInv'
           /\ \A q \in Rows : queue'[q].last = queue[q].last
<1> DEFINE k == tick[t]
<1>1. k.pc = "store" /\ SetActiveRun(k.row, k.run) /\ Goto(t, "poll")
  BY DEF StoreActiveRun
<1>2. UNCHANGED <<runs, iters>>
  BY DEF StoreActiveRun
<1>3. TypeInv /\ ForwardInv /\ Unused(t) /\ Upheld(k)
  BY <1>1 DEF FenceInv, ForwardInv
<1>4. /\ queue \in [Rows -> QueueRow] /\ tick \in [Ticks -> TickLocals]
      /\ k.row \in Rows /\ k.run \in 1..Len(runs)
      /\ Null \notin Nat
      /\ \A u \in Ticks : tick[u].pc \in ClaimedSteps => tick[u].row \in Rows
  BY <1>1, <1>3, FenceTypes DEF ClaimedSteps, RunSteps
<1>5. /\ tick'[t].pc = "poll" /\ tick'[t].row = k.row /\ tick'[t].fence = k.fence
      /\ tick'[t].run = k.run
      /\ \A u \in Ticks \ {t} : tick'[u] = tick[u]
  <2>1. tick' = [tick EXCEPT ![t] = [k EXCEPT !.pc = "poll"]]
    BY <1>1 DEF Goto
  <2>2. k \in TickLocals
    BY <1>4
  <2> QED
    BY <1>4, <2>1, <2>2 DEF TickLocals
<1>6. \A p \in Rows : /\ queue'[p].last = queue[p].last
                      /\ queue'[p].started = queue[p].started
                      /\ queue'[p].active \in {queue[p].active, k.run}
  <2>1. queue[k.row] \in QueueRow
    BY <1>4
  <2> QED
    BY <1>1, <1>4, <2>1 DEF SetActiveRun, WhileRunning, Update, QueueRow
<1>7. LoggedRuns' = LoggedRuns
  BY <1>2 DEF LoggedRuns
<1>8. \A last : LogsNewer(k.run, last)
  BY <1>3 DEF Unused, LogsNewer, LoggedRuns
<1>9. (LoggedRuns \subseteq 1..Len(runs))'
  BY <1>2, <1>3, <1>7 DEF ForwardInv
<1>10. (\A q \in Rows : queue[q].last \in (1..Len(iters)) \cup {Null})'
  BY <1>2, <1>3, <1>6 DEF ForwardInv
<1>11. (\A q \in Rows : queue[q].active # Null => LogsNewer(queue[q].active, queue[q].last))'
  <2>1. \A q \in Rows : queue'[q].active # Null
            => LogsNewer(queue'[q].active, queue'[q].last)
    BY <1>3, <1>6, <1>8 DEF ForwardInv
  <2> QED
    BY <1>2, <2>1 DEF LogsNewer
<1>12. (\A s, u \in Ticks : tick[s].fence # Null /\ tick[s].fence = tick[u].fence => s = u)'
  BY <1>3, <1>5 DEF ForwardInv
<1>13. ASSUME NEW u \in Ticks
       PROVE  Upheld(tick[u])'
  <2>1. CASE u = t
    BY <1>1, <1>2, <1>3, <1>5, <1>8, <2>1 DEF Upheld, LogsNewer, ClaimedSteps
  <2>2. CASE u # t
    <3>1. tick'[u] = tick[u] /\ Upheld(tick[u])
      BY <1>3, <1>5, <2>2 DEF ForwardInv
    <3> QED
      BY <1>2, <1>4, <1>6, <3>1 DEF Upheld, LogsNewer, Seekers, ClaimedSteps
  <2> QED
    BY <2>1, <2>2
<1>14. ASSUME NEW u \in Ticks, tick'[u].pc = "store"
       PROVE  Unused(u)'
  <2>1. u # t /\ tick'[u] = tick[u] /\ Unused(u)
    BY <1>3, <1>5, <1>14 DEF ForwardInv
  <2>2. k.run # tick[u].run
    BY <1>1, <2>1 DEF Unused
  <2> QED
    BY <1>5, <1>6, <1>7, <2>1, <2>2 DEF Unused, Seekers
<1> QED
  BY <1>6, <1>9, <1>10, <1>11, <1>12, <1>13, <1>14 DEF ForwardInv

(* An iteration is newer than all that any row shows when it is logged.     *)
LEMMA LogForward ==
    ASSUME FenceInv, NEW t \in Ticks, LogEvidence(t)
    PROVE  ForwardInv' /\ UNCHANGED queue
<1> DEFINE k == tick[t]
           n == Len(iters) + 1
<1>1. k.pc = "log" /\ UNCHANGED <<queue, runs>>
  BY DEF LogEvidence
<1>2. PICK out \in Outcomes :
        iters' = Append(iters, [row |-> k.row, run |-> k.run, cell |-> k.cell,
                                trials |-> k.trials, out |-> out])
  BY DEF LogEvidence
<1>3. TypeInv /\ ForwardInv /\ Upheld(k)
  BY DEF FenceInv, ForwardInv
<1>4. /\ tick \in [Ticks -> TickLocals] /\ iters \in Seq(Iteration) /\ Len(iters) \in Nat
      /\ k.run \in 1..Len(runs)
      /\ Null \notin Nat
      /\ \A u \in Ticks : tick[u].pc \in ClaimedSteps => tick[u].row \in Rows
  BY <1>1, <1>3, FenceTypes DEF RunSteps
<1>5. /\ Len(iters') = n /\ iters'[n].run = k.run
      /\ \A i \in 1..Len(iters) : iters'[i] = iters[i]
  BY <1>2, <1>4
<1>6. /\ tick'[t].pc = "attach" /\ tick'[t].iter = n
      /\ tick'[t].row = k.row /\ tick'[t].fence = k.fence
      /\ \A u \in Ticks \ {t} : tick'[u] = tick[u]
  <2>1. tick' = [tick EXCEPT ![t] = [k EXCEPT !.pc = "attach", !.iter = n]]
    BY DEF LogEvidence
  <2>2. k \in TickLocals
    BY <1>4
  <2> HIDE DEF n
  <2> QED
    BY <1>4, <2>1, <2>2 DEF TickLocals
<1>7. LoggedRuns' = LoggedRuns \cup {k.run}
  BY <1>4, <1>5 DEF LoggedRuns
<1>8. \A q \in Rows : Newer(queue[q].last, n)
  BY <1>3, <1>4 DEF ForwardInv, Newer
<1>9. \A q \in Rows : \A r : LogsNewer(r, queue[q].last) =>
          \A i \in 1..Len(iters') : iters'[i].run = r => Newer(queue[q].last, i)
  BY <1>4, <1>5, <1>8 DEF LogsNewer
<1>10. (LoggedRuns \subseteq 1..Len(runs))'
  BY <1>1, <1>3, <1>4, <1>7 DEF ForwardInv
<1>11. (\A q \in Rows : queue[q].last \in (1..Len(iters)) \cup {Null})'
  BY <1>1, <1>3, <1>4, <1>5 DEF ForwardInv
<1>12. (\A q \in Rows : queue[q].active # Null => LogsNewer(queue[q].active, queue[q].last))'
  BY <1>1, <1>3, <1>9 DEF ForwardInv, LogsNewer
<1>13. (\A s, u \in Ticks : tick[s].fence # Null /\ tick[s].fence = tick[u].fence => s = u)'
  BY <1>3, <1>6 DEF ForwardInv
<1>14. ASSUME NEW u \in Ticks
       PROVE  Upheld(tick[u])'
  <2>1. CASE u = t
    <3>1. k.row \in Rows /\ n \in 1..Len(iters')
      BY <1>1, <1>4, <1>5 DEF ClaimedSteps
    <3>2. k.fence \in Fences
      BY <1>1, <1>3 DEF Upheld, ClaimedSteps
    <3> HIDE DEF n
    <3> QED
      BY <1>1, <1>6, <1>8, <2>1, <3>1, <3>2 DEF Upheld, Seekers
  <2>2. CASE u # t
    <3>1. tick'[u] = tick[u] /\ Upheld(tick[u])
      BY <1>3, <1>6, <2>2 DEF ForwardInv
    <3>2. tick[u].pc = "attach" => tick[u].iter \in 1..Len(iters')
      BY <1>4, <1>5, <3>1 DEF Upheld
    <3>3. tick[u].pc \in Seekers => tick[u].row \in Rows
      BY <1>4 DEF Seekers, ClaimedSteps
    <3> QED
      BY <1>1, <1>9, <3>1, <3>2, <3>3 DEF Upheld, LogsNewer
  <2> QED
    BY <2>1, <2>2
<1>15. ASSUME NEW u \in Ticks, tick'[u].pc = "store"
       PROVE  Unused(u)'
  <2>1. u # t /\ tick'[u] = tick[u] /\ Unused(u)
    BY <1>3, <1>6, <1>15 DEF ForwardInv
  <2>2. k.run # tick[u].run
    BY <1>1, <2>1 DEF Unused, Seekers
  <2> QED
    BY <1>1, <1>6, <1>7, <2>1, <2>2 DEF Unused, Seekers
<1> QED
  BY <1>1, <1>10, <1>11, <1>12, <1>13, <1>14, <1>15 DEF ForwardInv

(* A tick that passes the fence shows newer evidence; whoever else works on *)
(* the row holds another fence.                                            *)
LEMMA AttachForward ==
    ASSUME FenceInv, NEW t \in Ticks, Attach(t), FenceHolds(tick[t].row, tick[t].fence)
    PROVE  /\ ForwardInv'
           /\ \A q \in Rows : \/ queue'[q].last = queue[q].last
                              \/ /\ queue'[q].last \in Nat
                                 /\ Newer(queue[q].last, queue'[q].last)
<1> DEFINE k == tick[t]
<1>1. /\ k.pc = "attach" /\ Goto(t, "decide") /\ UNCHANGED <<runs, iters>>
      /\ Update(k.row, [queue[k.row] EXCEPT !.last = k.iter, !.active = Null])
      /\ queue[k.row].started = k.fence
  BY DEF Attach, AttachIteration, FenceHolds
<1>2. TypeInv /\ ForwardInv /\ Upheld(k)
  BY DEF FenceInv, ForwardInv
<1>3. /\ queue \in [Rows -> QueueRow] /\ tick \in [Ticks -> TickLocals]
      /\ k.row \in Rows /\ k.fence \in Fences /\ k.fence # Null
      /\ k.iter \in 1..Len(iters) /\ Newer(queue[k.row].last, k.iter)
      /\ Null \notin Nat
      /\ \A u \in Ticks : tick[u].pc \in ClaimedSteps => tick[u].row \in Rows
      /\ \A u \in Ticks : tick[u].pc = "store" => tick[u].run \in 1..Len(runs)
  BY <1>1, <1>2, FenceTypes DEF ClaimedSteps, RunSteps, Upheld
<1>4. /\ tick'[t].pc = "decide" /\ tick'[t].fence = k.fence
      /\ \A u \in Ticks \ {t} : tick'[u] = tick[u]
  <2>1. tick' = [tick EXCEPT ![t] = [k EXCEPT !.pc = "decide"]]
    BY <1>1 DEF Goto
  <2>2. k \in TickLocals
    BY <1>3
  <2> QED
    BY <1>3, <2>1, <2>2 DEF TickLocals
<1>5. /\ \A p \in Rows \ {k.row} : queue'[p] = queue[p]
      /\ queue'[k.row].last = k.iter /\ queue'[k.row].active = Null
      /\ queue'[k.row].started = k.fence
  <2>1. queue[k.row] \in QueueRow
    BY <1>3
  <2> QED
    BY <1>1, <1>3, <2>1 DEF Update, QueueRow
<1>6. LoggedRuns' = LoggedRuns
  BY <1>1 DEF LoggedRuns
<1>7. (LoggedRuns \subseteq 1..Len(runs))'
  BY <1>1, <1>2, <1>6 DEF ForwardInv
<1>8. (\A q \in Rows : queue[q].last \in (1..Len(iters)) \cup {Null})'
  BY <1>1, <1>2, <1>3, <1>5 DEF ForwardInv
<1>9. (\A q \in Rows : queue[q].active # Null => LogsNewer(queue[q].active, queue[q].last))'
  BY <1>1, <1>2, <1>5 DEF ForwardInv, LogsNewer
<1>10. (\A s, u \in Ticks : tick[s].fence # Null /\ tick[s].fence = tick[u].fence => s = u)'
  BY <1>2, <1>4 DEF ForwardInv
<1>11. ASSUME NEW u \in Ticks
       PROVE  Upheld(tick[u])'
  <2>1. CASE u = t
    BY <1>3, <1>4, <2>1 DEF Upheld, Seekers
  <2>2. CASE u # t
    <3>1. tick'[u] = tick[u] /\ Upheld(tick[u]) /\ tick[u].fence # k.fence
      BY <1>2, <1>3, <1>4, <2>2 DEF ForwardInv
    <3>2. tick[u].pc \in ClaimedSteps /\ queue'[tick[u].row].started = tick[u].fence
            => queue'[tick[u].row] = queue[tick[u].row]
      BY <1>3, <1>5, <3>1
    <3> QED
      BY <1>1, <3>1, <3>2 DEF Upheld, LogsNewer, Seekers, ClaimedSteps
  <2> QED
    BY <2>1, <2>2
<1>12. ASSUME NEW u \in Ticks, tick'[u].pc = "store"
       PROVE  Unused(u)'
  <2>1. u # t /\ tick'[u] = tick[u] /\ Unused(u) /\ tick[u].run # Null
    BY <1>2, <1>3, <1>4, <1>12 DEF ForwardInv
  <2>2. \A q \in Rows : queue'[q].active # tick[u].run
    BY <1>5, <2>1 DEF Unused
  <2> QED
    BY <1>4, <1>6, <2>1, <2>2 DEF Unused, Seekers
<1>13. \A q \in Rows : \/ queue'[q].last = queue[q].last
                       \/ /\ queue'[q].last \in Nat
                          /\ Newer(queue[q].last, queue'[q].last)
  <2>1. Len(iters) \in Nat
    BY <1>2, FenceTypes
  <2> QED
    BY <1>3, <1>5, <2>1
<1> QED
  BY <1>7, <1>8, <1>9, <1>10, <1>11, <1>12, <1>13 DEF ForwardInv

(* What the JVM, the clock, the operator and a crash do is quiet.           *)
LEMMA QuietAround ==
    ASSUME FenceInv,
           \/ \E q \in Rows : OperatorStep(q) \/ ClaimAges(q)
           \/ \E r \in 1..Len(runs) : RunCompletes(r) \/ RunFails(r)
           \/ ProcessDies \/ UNCHANGED vars
    PROVE  /\ UNCHANGED iters /\ Len(runs) <= Len(runs')
           /\ \A q \in Rows : Quiet(q)
           /\ \A u \in Ticks : tick'[u] = tick[u] \/ GoesQuietly(u)
<1>1. /\ queue \in [Rows -> QueueRow] /\ runs \in Seq(Run) /\ Len(runs) \in Nat
  BY FenceTypes DEF FenceInv
<1>2. UNCHANGED queue => \A q \in Rows : Quiet(q)
  BY DEF Quiet
<1>3. CASE \E q \in Rows : OperatorStep(q) \/ ClaimAges(q)
  <2>1. PICK q \in Rows : OperatorStep(q) \/ ClaimAges(q)
    BY <1>3
  <2>2. UNCHANGED <<tick, runs, iters>>
    BY <2>1 DEF OperatorStep, Enqueue, Cancel, Requeue, ClaimAges
  <2>3. \/ InsertQueue(q) \/ CancelQueue(q) \/ RequeueFailed(q)
        \/ queue' = [queue EXCEPT ![q].overdue = TRUE]
    BY <2>1 DEF OperatorStep, Enqueue, Cancel, Requeue, ClaimAges
  <2>4. \A p \in Rows : Quiet(p)
    <3>1. CASE InsertQueue(q) \/ CancelQueue(q) \/ RequeueFailed(q)
      BY <1>1, <3>1, StatementsQuiet
    <3>2. CASE queue' = [queue EXCEPT ![q].overdue = TRUE]
      BY <1>1, <3>2, StatementsQuiet
    <3> QED
      BY <2>3, <3>1, <3>2
  <2> QED
    BY <1>1, <2>2, <2>4
<1>4. CASE \E r \in 1..Len(runs) : RunCompletes(r) \/ RunFails(r)
  <2>1. UNCHANGED <<queue, tick, iters>> /\ Len(runs') = Len(runs)
    BY <1>1, <1>4 DEF RunCompletes, RunFails
  <2> QED
    BY <1>1, <1>2, <2>1
<1>5. CASE ProcessDies
  <2>1. IdleTick.pc \notin ClaimedSteps /\ IdleTick.fence = Null
    BY DEF IdleTick, ClaimedSteps
  <2> QED
    BY <1>1, <1>2, <1>5, <2>1 DEF ProcessDies, GoesQuietly
<1>6. CASE UNCHANGED vars
  BY <1>1, <1>2, <1>6 DEF vars
<1> QED
  BY <1>3, <1>4, <1>5, <1>6

Advances(q) == queue[q].last # Null => queue'[q].last >= queue[q].last

LEMMA ForwardStep ==
    ASSUME FenceInv, [Next]_vars
    PROVE  FenceInv' /\ \A q \in Rows : Advances(q)
<1>1. TypeInv'
  BY TypeStep DEF FenceInv
<1>2. \A q \in Rows : queue[q].last # Null => queue[q].last \in Nat
  BY FenceTypes DEF FenceInv, ForwardInv
<1>4. \A q \in Rows : queue'[q].last = queue[q].last => Advances(q)
  BY <1>2 DEF Advances
<1>5. ASSUME UNCHANGED iters, Len(runs) <= Len(runs'), \A q \in Rows : Quiet(q),
             \A u \in Ticks : tick'[u] = tick[u] \/ GoesQuietly(u)
      PROVE  ForwardInv' /\ \A q \in Rows : Advances(q)
  BY <1>1, <1>4, <1>5, QuietForward DEF Quiet
<1>6. ASSUME NEW t \in Ticks, TickStep(t) \/ Mishap(t)
      PROVE  ForwardInv' /\ \A q \in Rows : Advances(q)
  <2>1. CASE Claim(t)
    BY <1>4, <2>1, ClaimForward
  <2>2. CASE SubmitAccepted(t)
    BY <1>4, <2>2, SubmitForward
  <2>3. CASE StoreActiveRun(t)
    BY <1>4, <2>3, StoreForward
  <2>4. CASE LogEvidence(t)
    BY <1>4, <2>4, LogForward
  <2>5. CASE Attach(t) /\ FenceHolds(tick[t].row, tick[t].fence)
    <3>1. ForwardInv' /\ \A q \in Rows : \/ queue'[q].last = queue[q].last
                                         \/ /\ queue'[q].last \in Nat
                                            /\ Newer(queue[q].last, queue'[q].last)
      BY <2>5, AttachForward
    <3> QED
      BY <1>2, <1>4, <3>1 DEF Advances, Newer
  <2> QED
    BY <1>5, <1>6, <2>1, <2>2, <2>3, <2>4, <2>5, QuietTickStep
<1>7. CASE \/ \E q \in Rows : OperatorStep(q) \/ ClaimAges(q)
           \/ \E r \in 1..Len(runs) : RunCompletes(r) \/ RunFails(r)
           \/ ProcessDies \/ UNCHANGED vars
  <2>1. /\ UNCHANGED iters /\ Len(runs) <= Len(runs')
        /\ \A q \in Rows : Quiet(q)
        /\ \A u \in Ticks : tick'[u] = tick[u] \/ GoesQuietly(u)
    BY <1>7, QuietAround
  <2> QED
    BY <1>1, <1>5, <2>1 DEF FenceInv
<1> QED
  BY <1>1, <1>6, <1>7 DEF FenceInv, Next

LEMMA ForwardStart == TickInit => FenceInv
<1> SUFFICES ASSUME TickInit
             PROVE  ForwardInv
  BY TypeStart DEF FenceInv
<1>1. Len(iters) = 0 /\ LoggedRuns = {}
  BY DEF TickInit, LoggedRuns
<1>2. \A q \in Rows : queue[q].last = Null /\ queue[q].active = Null
  BY DEF TickInit, QueueInit, NoRow
<1>3. \A t \in Ticks : tick[t].pc = "idle" /\ tick[t].fence = Null
  BY DEF TickInit, IdleTick
<1> QED
  BY <1>1, <1>2, <1>3 DEF ForwardInv, Upheld, ClaimedSteps, Seekers

(* The evidence a row decides on is never taken back, whatever ticks        *)
(* outlast the reaper, are cancelled late or come back to a row that        *)
(* another has claimed since: the started_at fence of attach_iteration.     *)
THEOREM EvidenceNeverGoesBack == Spec => EvidenceMovesForward
<1>1. FenceInv /\ [Next]_vars =>
        [\A q \in Rows : queue[q].last # Null => queue'[q].last >= queue[q].last]_vars
  BY ForwardStep DEF Advances
<1>2. FenceInv /\ [Next]_vars => FenceInv'
  BY ForwardStep
<1> QED
  BY <1>1, <1>2, ForwardStart, PTL DEF Spec, EvidenceMovesForward

---------------------------------------------------------------------------
(* One tick per row *)

(* A step in which tick t goes on with its row, or lets go of it, and       *)
(* writes no other row.                                                    *)
LEMMA Proceeds ==
    ASSUME ExclusionInv, NEW t \in Ticks,
           queue' \in [Rows -> QueueRow],
           tick' = [tick EXCEPT ![t] = tick'[t]],
           InFlight(t)' => InFlight(t) /\ tick'[t].row = tick[t].row,
           tick'[t].pc \in ClaimedSteps =>
                tick[t].pc \in ClaimedSteps /\ tick'[t].fence = tick[t].fence,
           \A p \in Rows :
              \/ queue'[p] = queue[p]
              \/ /\ InFlight(t) /\ p = tick[t].row
                 /\ queue'[p].started = queue[p].started
                 /\ queue'[p].overdue => queue[p].overdue
                 /\ InFlight(t)' => queue'[p].status = queue[p].status
    PROVE  Exclusive'
<1>1. /\ tick \in [Ticks -> TickLocals]
      /\ \A u \in Ticks : InFlight(u) => tick[u].row \in Rows
  BY DEF ExclusionInv, TypeInv, TypeOK, Known, InFlight, ClaimedSteps
<1>2. \A u \in Ticks : u # t => tick'[u] = tick[u]
  BY <1>1
<1>3. \A u \in Ticks : InFlight(u)' => InFlight(u) /\ tick'[u].row = tick[u].row
  BY <1>2 DEF InFlight
<1>4. \A u \in Ticks : tick'[u].pc \in ClaimedSteps =>
        tick[u].pc \in ClaimedSteps /\ tick'[u].fence = tick[u].fence
  BY <1>2
<1>5. OneTickPerRow'
  BY <1>3 DEF ExclusionInv, Exclusive, OneTickPerRow
<1>6. ASSUME NEW u \in Ticks, InFlight(u)'
      PROVE  queue'[tick'[u].row].status \in {"RUNNING", "PARKED"}
  <2>1. /\ InFlight(u) /\ tick'[u].row = tick[u].row /\ tick[u].row \in Rows
        /\ queue[tick[u].row].status \in {"RUNNING", "PARKED"}
    BY <1>1, <1>3, <1>6 DEF ExclusionInv, Exclusive
  <2>2. CASE queue'[tick[u].row] = queue[tick[u].row]
    BY <2>1, <2>2
  <2>3. CASE InFlight(t) /\ tick[u].row = tick[t].row
    <3>1. u = t
      BY <2>1, <2>3 DEF ExclusionInv, Exclusive, OneTickPerRow
    <3> QED
      BY <1>6, <2>1, <3>1
  <2> QED
    BY <2>1, <2>2, <2>3
<1>7. ASSUME NEW q \in Rows, queue'[q].overdue
      PROVE  queue'[q].status = "RUNNING" /\ \A u \in Ticks : InFlight(u)' => tick'[u].row # q
  <2>1. queue[q].overdue => /\ queue[q].status = "RUNNING"
                            /\ \A u \in Ticks : InFlight(u) => tick[u].row # q
    BY DEF ExclusionInv, Exclusive
  <2>2. queue'[q] = queue[q] /\ queue[q].overdue
    BY <1>7, <2>1
  <2> QED
    BY <1>3, <2>1, <2>2
<1>8. ASSUME NEW u \in Ticks, tick'[u].pc \in ClaimedSteps
      PROVE  queue'[tick'[u].row].started = tick'[u].fence
  <2>1. tick[u].pc \in ClaimedSteps /\ tick'[u].fence = tick[u].fence
    BY <1>4, <1>8
  <2>2. InFlight(u) /\ tick'[u].row = tick[u].row /\ tick[u].row \in Rows
    BY <1>1, <1>3, <1>8 DEF InFlight
  <2>3. queue[tick[u].row].started = tick[u].fence
    BY <2>1 DEF ExclusionInv, Exclusive, FenceHolds
  <2>4. queue'[tick[u].row].started = queue[tick[u].row].started
    BY <2>2
  <2> QED
    BY <2>1, <2>2, <2>3, <2>4
<1> QED
  BY <1>5, <1>6, <1>7, <1>8 DEF Exclusive, FenceHolds

(* A step in which no tick moves and no row that a tick holds is touched,   *)
(* but for a cancellation.                                                 *)
LEMMA AroundTicks ==
    ASSUME ExclusionInv, UNCHANGED tick, queue' \in [Rows -> QueueRow],
           \A p \in Rows :
              \/ queue'[p] = queue[p]
              \/ /\ \A u \in Ticks : InFlight(u) => tick[u].row # p
                 /\ queue'[p].overdue => queue'[p].status = "RUNNING"
              \/ queue'[p].started = queue[p].started /\ queue'[p].status = "PARKED"
                 /\ ~queue'[p].overdue
    PROVE  Exclusive'
<1>1. \A u \in Ticks : InFlight(u) => tick[u].row \in Rows
  BY DEF ExclusionInv, TypeInv, Known, InFlight, ClaimedSteps
<1>2. \A u \in Ticks : (InFlight(u)' <=> InFlight(u)) /\ tick'[u] = tick[u]
  BY DEF InFlight
<1>3. OneTickPerRow'
  BY <1>2 DEF ExclusionInv, Exclusive, OneTickPerRow
<1>4. ASSUME NEW u \in Ticks, InFlight(u)
      PROVE  queue'[tick[u].row].status \in {"RUNNING", "PARKED"}
  BY <1>1, <1>4 DEF ExclusionInv, Exclusive
<1>5. ASSUME NEW q \in Rows, queue'[q].overdue
      PROVE  queue'[q].status = "RUNNING" /\ \A u \in Ticks : InFlight(u) => tick[u].row # q
  BY <1>5 DEF ExclusionInv, Exclusive
<1>6. ASSUME NEW u \in Ticks, tick[u].pc \in ClaimedSteps
      PROVE  queue'[tick[u].row].started = tick[u].fence
  <2>1. InFlight(u) /\ tick[u].row \in Rows
    BY <1>1, <1>6 DEF InFlight
  <2>2. queue[tick[u].row].started = tick[u].fence
    BY <1>6 DEF ExclusionInv, Exclusive, FenceHolds
  <2> QED
    BY <2>1, <2>2
<1> QED
  BY <1>2, <1>3, <1>4, <1>5, <1>6 DEF Exclusive, FenceHolds

(* The statements a tick issues between its claim and its end write its own *)
(* row only, and leave started_at alone.                                   *)
LEMMA StatementsProceed ==
    ASSUME queue \in [Rows -> QueueRow], NEW q \in Rows, NEW p \in Rows
    PROVE  LET Mine == p = q /\ queue'[p].started = queue[p].started
                             /\ (queue'[p].overdue => queue[p].overdue) IN
           /\ RollbackIter(q) \/ ResetToPending(q) \/ ParkExhausted(q) \/ FailQueue(q)
                => queue'[p] = queue[p] \/ Mine
           /\ \A final : CompleteQueue(q, final) => queue'[p] = queue[p] \/ Mine
           /\ \A r : SetActiveRun(q, r) =>
                queue'[p] = queue[p] \/ (Mine /\ queue'[p].status = queue[p].status)
           /\ \A i, fence : AttachIteration(q, i, fence) =>
                queue'[p] = queue[p] \/ (Mine /\ queue'[p].status = queue[p].status)
<1> DEFINE Mine == p = q /\ queue'[p].started = queue[p].started
                         /\ (queue'[p].overdue => queue[p].overdue)
<1>1. \A status, active :
        /\ Becomes(q, status, queue[q].started, FALSE, active)
           \/ BecomesIfRunning(q, status, queue[q].started, FALSE, active)
        => queue'[p] = queue[p] \/ Mine
  BY DEF Becomes, BecomesIfRunning, Shows
<1>2. \A active :
        /\ Becomes(q, queue[q].status, queue[q].started, queue[q].overdue, active)
           \/ BecomesIfRunning(q, queue[q].status, queue[q].started, queue[q].overdue, active)
        => queue'[p] = queue[p] \/ (Mine /\ queue'[p].status = queue[p].status)
  BY DEF Becomes, BecomesIfRunning, Shows
<1> HIDE DEF Mine
<1>3. UNCHANGED queue => queue'[p] = queue[p]
  OBVIOUS
<1>4. RollbackIter(q) \/ ResetToPending(q) \/ ParkExhausted(q) \/ FailQueue(q)
        => queue'[p] = queue[p] \/ Mine
  BY <1>1, StatementEffects
<1>5. \A final : CompleteQueue(q, final) => queue'[p] = queue[p] \/ Mine
  BY <1>1, StatementEffects
<1>6. \A r : SetActiveRun(q, r) =>
        queue'[p] = queue[p] \/ (Mine /\ queue'[p].status = queue[p].status)
  BY <1>2, StatementEffects
<1>7. \A i, fence : AttachIteration(q, i, fence) =>
        queue'[p] = queue[p] \/ (Mine /\ queue'[p].status = queue[p].status)
  BY <1>2, <1>3, StatementEffects
<1> QED
  BY <1>4, <1>5, <1>6, <1>7 DEF Mine

GoesOn(t) ==
    /\ tick' = [tick EXCEPT ![t] = tick'[t]]
    /\ tick[t].pc \in ClaimedSteps /\ tick'[t].pc \in ClaimedSteps
    /\ tick'[t].row = tick[t].row /\ tick'[t].fence = tick[t].fence

LetsGo(t) ==
    /\ tick' = [tick EXCEPT ![t] = tick'[t]]
    /\ tick[t].pc \notin {"idle", "claim"}
    /\ tick'[t].pc \in {"idle", "reply"}

(* Each step of a tick with a row either goes on with it or lets go of it.  *)
LEMMA GoesOnOrLetsGo ==
    ASSUME TypeInv, NEW t \in Ticks
    PROVE  /\ Resume(t) \/ RecordTrial(t) \/ SubmitAccepted(t) \/ StoreActiveRun(t)
                \/ PollCompleted(t) \/ FindIteration(t) \/ LogEvidence(t) => GoesOn(t)
           /\ Attach(t) => GoesOn(t) \/ LetsGo(t)
           /\ Exhausted(t) \/ PollDead(t) \/ PollCapExpires(t) \/ DecideNextState(t)
                \/ Reply(t) \/ Rollback(t) \/ ConfigError(t) \/ RollbackFails(t) => LetsGo(t)
<1> DEFINE k == tick[t]
<1>1. tick \in [Ticks -> TickLocals] /\ k \in TickLocals
  BY DEF TypeInv, TypeOK
<1>2. \A l : tick' = [tick EXCEPT ![t] = l] =>
        tick' = [tick EXCEPT ![t] = tick'[t]] /\ tick'[t] = l
  BY <1>1
<1>3. /\ Left(t, "reply").pc = "reply"
      /\ IdleTick.pc = "idle"
  BY DEF Left, IdleTick
<1>4. \A pc \in ClaimedSteps : k.pc \in ClaimedSteps /\ Goto(t, pc) => GoesOn(t)
  BY GotoMoves DEF GoesOn
<1>6. \A l : /\ tick' = [tick EXCEPT ![t] = l]
             /\ k.pc \in ClaimedSteps /\ l.pc \in ClaimedSteps
             /\ l.row = k.row /\ l.fence = k.fence
             => GoesOn(t)
  BY <1>2 DEF GoesOn
<1>7. \A l : tick' = [tick EXCEPT ![t] = l] /\ k.pc \notin {"idle", "claim"}
               /\ l.pc \in {"idle", "reply"}
             => LetsGo(t)
  BY <1>2 DEF LetsGo
<1>8. Resume(t) => GoesOn(t)
  <2> SUFFICES ASSUME Resume(t)
               PROVE  GoesOn(t)
    OBVIOUS
  <2> DEFINE r == k.run
             a == LatestUnattached(k.row)
             pc == IF runs[r].state = "COMPLETED" THEN "find" ELSE "poll"
             cell == IF a = Null THEN Null ELSE audits[a].cell
             m == CountTrials(k.row)
             l == [k EXCEPT !.pc = pc, !.audit = a, !.trials = m, !.cell = cell]
  <2>1. CASE ~Resumable(k.row, r)
    BY <1>4, <2>1 DEF Resume, ClaimedSteps
  <2>2. CASE Resumable(k.row, r)
    <3>1. tick' = [tick EXCEPT ![t] = l]
      BY <1>1, <2>2 DEF Resume
    <3>2. l.pc = pc /\ l.row = k.row /\ l.fence = k.fence
      <4> HIDE DEF k, pc, r, a, m, cell
      <4> QED
        BY <1>1 DEF TickLocals
    <3>3. pc \in ClaimedSteps /\ k.pc \in ClaimedSteps
      BY DEF ClaimedSteps, Resume
    <3> HIDE DEF l, pc, k
    <3> QED
      BY <1>6, <3>1, <3>2, <3>3
  <2> QED
    BY <2>1, <2>2
<1>9. RecordTrial(t) => GoesOn(t)
  <2> SUFFICES ASSUME RecordTrial(t)
               PROVE  GoesOn(t)
    OBVIOUS
  <2>1. PICK c : tick' = [tick EXCEPT ![t] = [k EXCEPT !.pc = "submit", !.cell = c,
                                                       !.trials = CountTrials(k.row),
                                                       !.audit = Len(audits) + 1]]
    BY <1>1 DEF RecordTrial
  <2> DEFINE a == Len(audits) + 1
             m == CountTrials(k.row)
             l == [k EXCEPT !.pc = "submit", !.cell = c, !.trials = m, !.audit = a]
  <2>2. l.pc = "submit" /\ l.row = k.row /\ l.fence = k.fence
    <3> HIDE DEF k, a, m
    <3> QED
      BY <1>1 DEF TickLocals
  <2>3. k.pc \in ClaimedSteps /\ "submit" \in ClaimedSteps
    BY DEF ClaimedSteps, RecordTrial
  <2>4. tick' = [tick EXCEPT ![t] = l]
    BY <2>1
  <2> HIDE DEF l, k
  <2> QED
    BY <1>6, <2>2, <2>3, <2>4
<1>10. SubmitAccepted(t) => GoesOn(t)
  <2> SUFFICES ASSUME SubmitAccepted(t)
               PROVE  GoesOn(t)
    OBVIOUS
  <2> DEFINE r == Len(runs) + 1
             l == [k EXCEPT !.pc = "store", !.run = r]
  <2>1. tick' = [tick EXCEPT ![t] = l]
    BY <1>1 DEF SubmitAccepted
  <2>2. l.pc = "store" /\ l.row = k.row /\ l.fence = k.fence
    <3> HIDE DEF k, r
    <3> QED
      BY <1>1 DEF TickLocals
  <2>3. k.pc \in ClaimedSteps /\ "store" \in ClaimedSteps
    BY DEF ClaimedSteps, SubmitAccepted
  <2> HIDE DEF l, k
  <2> QED
    BY <1>6, <2>1, <2>2, <2>3
<1>11. FindIteration(t) \/ LogEvidence(t) => GoesOn(t)
  <2> SUFFICES ASSUME FindIteration(t) \/ LogEvidence(t)
               PROVE  GoesOn(t)
    OBVIOUS
  <2>0. \E pc \in {"log", "attach"} : \E i :
            tick' = [tick EXCEPT ![t] = [k EXCEPT !.pc = pc, !.iter = i]]
    <3>1. CASE FindIteration(t)
      <4> DEFINE j == FindIterationForRun(k.run)
                 next == IF j = Null THEN "log" ELSE "attach"
      <4>1. tick' = [tick EXCEPT ![t] = [k EXCEPT !.pc = next, !.iter = j]]
        BY <1>1, <3>1 DEF FindIteration
      <4>2. next \in {"log", "attach"}
        OBVIOUS
      <4> HIDE DEF next, j
      <4> QED
        BY <4>1, <4>2
    <3>2. CASE LogEvidence(t)
      <4> DEFINE j == Len(iters) + 1
      <4>1. tick' = [tick EXCEPT ![t] = [k EXCEPT !.pc = "attach", !.iter = j]]
        BY <1>1, <3>2 DEF LogEvidence
      <4> HIDE DEF j
      <4> QED
        BY <4>1
    <3> QED
      BY <3>1, <3>2
  <2>a. PICK pc \in {"log", "attach"} : \E i :
            tick' = [tick EXCEPT ![t] = [k EXCEPT !.pc = pc, !.iter = i]]
    BY <2>0
  <2>1. PICK i : tick' = [tick EXCEPT ![t] = [k EXCEPT !.pc = pc, !.iter = i]]
    BY <2>a
  <2> DEFINE l == [k EXCEPT !.pc = pc, !.iter = i]
  <2>2. l.pc = pc /\ l.row = k.row /\ l.fence = k.fence
    <3> HIDE DEF k
    <3> QED
      BY <1>1 DEF TickLocals
  <2>3. k.pc \in ClaimedSteps /\ pc \in ClaimedSteps
    BY DEF ClaimedSteps, FindIteration, LogEvidence
  <2>4. tick' = [tick EXCEPT ![t] = l]
    BY <2>1
  <2> HIDE DEF l, k
  <2> QED
    BY <1>6, <2>2, <2>3, <2>4
<1>12. StoreActiveRun(t) \/ PollCompleted(t) => GoesOn(t)
  BY <1>4 DEF StoreActiveRun, PollCompleted, ClaimedSteps
<1>13. Attach(t) => GoesOn(t) \/ LetsGo(t)
  <2>1. CASE FenceHolds(k.row, k.fence)
    BY <1>4, <2>1 DEF Attach, ClaimedSteps
  <2>2. CASE ~FenceHolds(k.row, k.fence)
    BY <1>3, <1>7, <2>2 DEF Attach
  <2> QED
    BY <2>1, <2>2
<1>14. Exhausted(t) \/ PollDead(t) \/ PollCapExpires(t) \/ DecideNextState(t) \/ ConfigError(t)
          => LetsGo(t)
  BY <1>3, <1>7 DEF Exhausted, PollDead, PollCapExpires, DecideNextState, ConfigError
<1>15. Reply(t) \/ Rollback(t) \/ RollbackFails(t) => LetsGo(t)
  BY <1>3, <1>7 DEF Reply, Rollback, RollbackFails
<1> QED
  BY <1>8, <1>9, <1>10, <1>11, <1>12, <1>13, <1>14, <1>15

LEMMA ExclusionTickStep ==
    ASSUME ExclusionInv, TypeInv', ~LateCancel, NEW t \in Ticks, TickStep(t) \/ Mishap(t)
    PROVE  Exclusive'
<1> DEFINE k == tick[t]
           Mine(p) == /\ p = k.row /\ queue'[p].started = queue[p].started
                      /\ queue'[p].overdue => queue[p].overdue
<1>1. /\ tick \in [Ticks -> TickLocals]
      /\ queue \in [Rows -> QueueRow] /\ queue' \in [Rows -> QueueRow]
      /\ k.pc \notin {"idle", "claim"} => k.row \in Rows
      /\ TypeInv
  BY DEF ExclusionInv, TypeInv, TypeOK, Known
<1>2. ASSUME GoesOn(t),
             \A p \in Rows : queue'[p] = queue[p]
                               \/ (Mine(p) /\ queue'[p].status = queue[p].status)
      PROVE  Exclusive'
  BY <1>1, <1>2, Proceeds DEF GoesOn, InFlight
<1>3. ASSUME LetsGo(t), k.pc # "reply",
             \A p \in Rows : queue'[p] = queue[p] \/ Mine(p)
      PROVE  Exclusive'
  <2>1. InFlight(t)
    BY <1>1, <1>3 DEF LetsGo, InFlight, TickLocals
  <2>2. ~InFlight(t)' /\ tick'[t].pc \notin ClaimedSteps
    BY <1>3 DEF LetsGo, InFlight, ClaimedSteps
  <2> QED
    BY <1>1, <1>3, <2>1, <2>2, Proceeds DEF LetsGo
<1>4. ASSUME LetsGo(t), UNCHANGED queue
      PROVE  Exclusive'
  <2>1. ~InFlight(t)' /\ tick'[t].pc \notin ClaimedSteps
    BY <1>4 DEF LetsGo, InFlight, ClaimedSteps
  <2> QED
    BY <1>1, <1>4, <2>1, Proceeds DEF LetsGo
<1>5. CASE Recover(t)
  <2>1. /\ tick' = [tick EXCEPT ![t] = tick'[t]] /\ tick'[t].pc = "claim"
    BY <1>1, <1>5, GotoMoves DEF Recover
  <2>2. \A u \in Ticks : /\ InFlight(u)' <=> InFlight(u)
                         /\ InFlight(u) => tick'[u] = tick[u]
    BY <1>1, <1>5, <2>1 DEF Recover, InFlight, ClaimedSteps
  <2>3. \A p \in Rows : \/ queue'[p] = queue[p]
                        \/ queue[p].overdue /\ ~queue'[p].overdue
    BY <1>1, <1>5 DEF Recover, RecoverStuck, Recovered, QueueRow
  <2>4. \A u \in Ticks : InFlight(u) => tick[u].row \in Rows
                                       /\ queue'[tick[u].row] = queue[tick[u].row]
    <3>1. \A u \in Ticks : InFlight(u) => tick[u].row \in Rows
      BY DEF ExclusionInv, TypeInv, Known, InFlight, ClaimedSteps
    <3> QED
      BY <2>3, <3>1 DEF ExclusionInv, Exclusive
  <2>5. OneTickPerRow'
    BY <2>2 DEF ExclusionInv, Exclusive, OneTickPerRow
  <2>6. \A u \in Ticks : InFlight(u)' => queue'[tick'[u].row].status \in {"RUNNING", "PARKED"}
    BY <2>2, <2>4 DEF ExclusionInv, Exclusive
  <2>7. \A q \in Rows : queue'[q].overdue =>
          queue'[q].status = "RUNNING" /\ \A u \in Ticks : InFlight(u)' => tick'[u].row # q
    BY <2>2, <2>3 DEF ExclusionInv, Exclusive
  <2>8. \A u \in Ticks : tick'[u].pc \in ClaimedSteps =>
          queue'[tick'[u].row].started = tick'[u].fence
    <3> SUFFICES ASSUME NEW u \in Ticks, tick'[u].pc \in ClaimedSteps
                 PROVE  queue'[tick'[u].row].started = tick'[u].fence
      OBVIOUS
    <3>1. InFlight(u)' /\ InFlight(u) /\ tick'[u] = tick[u]
      BY <2>2 DEF InFlight
    <3>2. queue[tick[u].row].started = tick[u].fence
      BY <3>1 DEF ExclusionInv, Exclusive, FenceHolds
    <3> QED
      BY <2>4, <3>1, <3>2
  <2> QED
    BY <2>5, <2>6, <2>7, <2>8 DEF Exclusive, FenceHolds
<1>6. CASE Claim(t)
  <2>1. PICK q \in Rows, now \in Fences :
          /\ queue[q].status = "PENDING" /\ ClaimRow(q, now)
          /\ tick' = [tick EXCEPT ![t] =
                [IdleTick EXCEPT !.pc = "resume", !.row = q, !.fence = now,
                                 !.prior = queue[q].iter, !.run = queue[q].active]]
    BY <1>6 DEF Claim, FirstPending, InStatus
  <2>2. /\ tick'[t].pc = "resume" /\ tick'[t].row = q /\ tick'[t].fence = now
        /\ \A u \in Ticks : u # t => tick'[u] = tick[u]
    BY <1>1, <2>1 DEF IdleTick
  <2>3. Becomes(q, "RUNNING", now, FALSE, queue[q].active)
    BY <1>1, <2>1, StatementEffects
  <2>4. \A u \in Ticks : InFlight(u) => tick[u].row \in Rows /\ tick[u].row # q
    <3>1. \A u \in Ticks : InFlight(u) => tick[u].row \in Rows
      BY DEF ExclusionInv, TypeInv, Known, InFlight, ClaimedSteps
    <3> QED
      BY <2>1, <3>1 DEF ExclusionInv, Exclusive
  <2>5. \A u \in Ticks : u # t => (InFlight(u)' <=> InFlight(u))
    BY <2>2 DEF InFlight
  <2>6. \A u \in Ticks : u # t /\ InFlight(u)' =>
          queue'[tick'[u].row] = queue[tick[u].row] /\ tick'[u].row # q
    BY <2>2, <2>3, <2>4, <2>5 DEF Becomes
  <2>7. OneTickPerRow'
    BY <2>2, <2>5, <2>6 DEF ExclusionInv, Exclusive, OneTickPerRow
  <2>8. \A u \in Ticks : InFlight(u)' => queue'[tick'[u].row].status \in {"RUNNING", "PARKED"}
    BY <2>2, <2>3, <2>5, <2>6 DEF ExclusionInv, Exclusive, Becomes, Shows
  <2>9. \A p \in Rows : queue'[p].overdue =>
          queue'[p].status = "RUNNING" /\ \A u \in Ticks : InFlight(u)' => tick'[u].row # p
    BY <2>2, <2>3, <2>5 DEF ExclusionInv, Exclusive, Becomes, Shows
  <2>10. \A u \in Ticks : tick'[u].pc \in ClaimedSteps =>
          queue'[tick'[u].row].started = tick'[u].fence
    <3> SUFFICES ASSUME NEW u \in Ticks, tick'[u].pc \in ClaimedSteps
                 PROVE  queue'[tick'[u].row].started = tick'[u].fence
      OBVIOUS
    <3>1. CASE u = t
      BY <2>2, <2>3, <3>1 DEF Becomes, Shows
    <3>2. CASE u # t
      <4>1. InFlight(u)' /\ tick'[u] = tick[u]
        BY <2>2, <3>2 DEF InFlight
      <4>2. queue[tick[u].row].started = tick[u].fence
        BY <4>1 DEF ExclusionInv, Exclusive, FenceHolds
      <4> QED
        BY <2>6, <3>2, <4>1, <4>2
    <3> QED
      BY <3>1, <3>2
  <2> QED
    BY <2>7, <2>8, <2>9, <2>10 DEF Exclusive, FenceHolds
<1>7. CASE EmptyQueue(t)
  <2>1. tick' = [tick EXCEPT ![t] = tick'[t]] /\ tick'[t].pc = "idle" /\ UNCHANGED queue
    BY <1>1, <1>7, GotoMoves DEF EmptyQueue
  <2> QED
    BY <1>1, <2>1, Proceeds DEF InFlight, ClaimedSteps
<1>8. CASE Resume(t) \/ RecordTrial(t) \/ SubmitAccepted(t) \/ PollCompleted(t)
           \/ FindIteration(t) \/ LogEvidence(t)
  <2>1. UNCHANGED queue
    BY <1>8 DEF Resume, RecordTrial, SubmitAccepted, PollCompleted, FindIteration, LogEvidence
  <2> QED
    BY <1>1, <1>2, <1>8, <2>1, GoesOnOrLetsGo
<1>9. CASE StoreActiveRun(t)
  <2>1. GoesOn(t) /\ SetActiveRun(k.row, k.run) /\ k.row \in Rows
    BY <1>1, <1>9, GoesOnOrLetsGo DEF StoreActiveRun
  <2> QED
    BY <1>1, <1>2, <2>1, StatementsProceed
<1>10. CASE Attach(t)
  <2>1. AttachIteration(k.row, k.iter, k.fence) /\ k.row \in Rows /\ k.pc # "reply"
    BY <1>1, <1>10 DEF Attach
  <2>2. \A p \in Rows : queue'[p] = queue[p]
                           \/ (Mine(p) /\ queue'[p].status = queue[p].status)
    BY <1>1, <2>1, StatementsProceed
  <2> QED
    BY <1>1, <1>2, <1>3, <1>10, <2>1, <2>2, GoesOnOrLetsGo
<1>11. CASE Exhausted(t) \/ PollDead(t) \/ PollCapExpires(t) \/ DecideNextState(t)
            \/ Rollback(t) \/ ConfigError(t)
  <2>1. /\ k.row \in Rows /\ k.pc # "reply"
        /\ \/ RollbackIter(k.row) \/ ResetToPending(k.row)
           \/ ParkExhausted(k.row) \/ FailQueue(k.row)
           \/ \E final : CompleteQueue(k.row, final)
    BY <1>1, <1>11 DEF Exhausted, PollDead, PollCapExpires, DecideNextState, Rollback,
       ConfigError
  <2>2. \A p \in Rows : queue'[p] = queue[p] \/ Mine(p)
    BY <1>1, <2>1, StatementsProceed
  <2> QED
    BY <1>1, <1>3, <1>11, <2>1, <2>2, GoesOnOrLetsGo
<1>12. CASE Reply(t) \/ RollbackFails(t)
  BY <1>1, <1>4, <1>12, GoesOnOrLetsGo DEF Reply, RollbackFails
<1>13. CASE SubmitUnanswered(t) \/ TickFails(t)
  <2>1. /\ k.pc \in ClaimedSteps /\ UNCHANGED queue
        /\ tick' = [tick EXCEPT ![t] = Left(t, "rollback")]
    BY <1>13 DEF SubmitUnanswered, TickFails, ClaimedSteps
  <2>2. /\ tick' = [tick EXCEPT ![t] = tick'[t]]
        /\ tick'[t].pc = "rollback" /\ tick'[t].row = k.row
    BY <1>1, <2>1, LeftMoves
  <2> QED
    BY <1>1, <2>1, <2>2, Proceeds DEF InFlight, ClaimedSteps
<1> QED
  BY <1>5, <1>6, <1>7, <1>8, <1>9, <1>10, <1>11, <1>12, <1>13 DEF TickStep, Mishap

LEMMA ExclusionStep ==
    ASSUME ~SlowTicks, ~LateCancel
    PROVE  ExclusionInv /\ [Next]_vars => ExclusionInv'
<1> SUFFICES ASSUME ExclusionInv, [Next]_vars
             PROVE  ExclusionInv'
  OBVIOUS
<1>1. TypeInv /\ TypeInv'
  BY TypeStep DEF ExclusionInv
<1> SUFFICES Exclusive'
  BY <1>1 DEF ExclusionInv
<1>2. queue \in [Rows -> QueueRow] /\ queue' \in [Rows -> QueueRow]
  BY <1>1 DEF TypeInv, TypeOK
<1>3. UNCHANGED <<queue, tick>> => Exclusive'
  BY <1>2, AroundTicks
<1>4. ASSUME NEW q \in Rows, OperatorStep(q)
      PROVE  Exclusive'
  <2>1. UNCHANGED tick
    BY <1>4 DEF OperatorStep, Enqueue, Cancel, Requeue
  <2>2. CASE Enqueue(q) \/ Requeue(q)
    <3>1. /\ queue[q].status \in {"ABSENT", "FAILED"}
          /\ Becomes(q, "PENDING", queue[q].started, queue[q].overdue, queue[q].active)
      BY <1>2, <2>2, StatementEffects DEF Enqueue, Requeue
    <3>2. /\ ~queue[q].overdue
          /\ \A u \in Ticks : InFlight(u) => tick[u].row # q
      BY <3>1 DEF ExclusionInv, Exclusive
    <3> QED
      BY <1>2, <2>1, <3>1, <3>2, AroundTicks DEF Becomes, Shows
  <2>3. CASE Cancel(q)
    <3>1. Becomes(q, "PARKED", queue[q].started, FALSE, queue[q].active)
      BY <1>2, <2>3, StatementEffects DEF Cancel
    <3> QED
      BY <1>2, <2>1, <3>1, AroundTicks DEF Becomes, Shows
  <2> QED
    BY <1>4, <2>2, <2>3 DEF OperatorStep
<1>5. ASSUME NEW q \in Rows, ClaimAges(q)
      PROVE  Exclusive'
  <2>1. /\ UNCHANGED tick
        /\ queue[q].status = "RUNNING"
        /\ \A u \in Ticks : InFlight(u) => tick[u].row # q
    BY <1>5 DEF ClaimAges
  <2>2. \A p \in Rows : p # q => queue'[p] = queue[p]
    BY <1>2, <1>5 DEF ClaimAges
  <2>3. queue'[q].status = "RUNNING"
    BY <1>2, <1>5, <2>1 DEF ClaimAges, QueueRow
  <2> QED
    BY <1>2, <2>1, <2>2, <2>3, AroundTicks
<1>6. CASE ProcessDies
  <2>1. tick' = [t \in Ticks |-> IdleTick] /\ UNCHANGED queue
    BY <1>6 DEF ProcessDies
  <2>2. \A t \in Ticks : ~InFlight(t)' /\ tick'[t].pc \notin ClaimedSteps
    BY <2>1 DEF InFlight, IdleTick, ClaimedSteps
  <2> QED
    BY <2>1, <2>2 DEF ExclusionInv, Exclusive, OneTickPerRow
<1>7. CASE \E r \in 1..Len(runs) : RunCompletes(r) \/ RunFails(r)
  BY <1>3, <1>7 DEF RunCompletes, RunFails
<1>8. CASE UNCHANGED vars
  BY <1>3, <1>8 DEF vars
<1>9. CASE \E t \in Ticks : TickStep(t) \/ Mishap(t)
  BY <1>1, <1>9, ExclusionTickStep
<1> QED
  BY <1>4, <1>5, <1>6, <1>7, <1>8, <1>9 DEF Next

LEMMA ExclusionStart == TickInit => ExclusionInv
<1> SUFFICES ASSUME TickInit
             PROVE  ExclusionInv
  OBVIOUS
<1>1. \A t \in Ticks : ~InFlight(t) /\ tick[t].pc \notin ClaimedSteps
  BY DEF TickInit, IdleTick, InFlight, ClaimedSteps
<1>2. \A q \in Rows : ~queue[q].overdue
  BY DEF TickInit, QueueInit, NoRow
<1> QED
  BY <1>1, <1>2, TypeStart DEF ExclusionInv, Exclusive, OneTickPerRow

(* Concurrent ticks never work on the same row: a row in flight is RUNNING  *)
(* or cancelled, so it cannot be claimed, and it is too young to be reaped. *)
THEOREM MutualExclusion ==
    ASSUME ~SlowTicks, ~LateCancel
    PROVE  Spec => []OneTickPerRow
<1>1. ExclusionInv => OneTickPerRow
  BY DEF ExclusionInv, Exclusive
<1> QED
  BY <1>1, ExclusionStart, ExclusionStep, PTL DEF Spec

(* The reclaim fence of attach_iteration never trips: started_at is still   *)
(* the claim's own when a tick attaches its iteration, so the branch        *)
(* queue_row_reclaimed needs a tick that outlived its poll cap.            *)
THEOREM FenceNeverTrips ==
    ASSUME ~SlowTicks, ~LateCancel
    PROVE  Spec => [](\A t \in Ticks :
                        tick[t].pc = "attach" => FenceHolds(tick[t].row, tick[t].fence))
<1>1. ExclusionInv => \A t \in Ticks :
        tick[t].pc = "attach" => FenceHolds(tick[t].row, tick[t].fence)
  BY DEF ExclusionInv, Exclusive, ClaimedSteps
<1> QED
  BY <1>1, ExclusionStart, ExclusionStep, PTL DEF Spec

---------------------------------------------------------------------------
(* A run is logged once *)

(* Runs are only added, and keep their row.                                 *)
RunsKeepRows == /\ Len(runs) <= Len(runs')
                /\ \A r \in 1..Len(runs) : runs'[r].row = runs[r].row

(* A step that logs nothing, and whose ticks know only runs of their row.   *)
LEMMA OwnershipKept ==
    ASSUME LoggingInv, TypeInv', RunsKeepRows, UNCHANGED iters,
           \A q \in Rows : queue'[q].active # Null =>
              \/ queue'[q].active = queue[q].active
              \/ runs'[queue'[q].active].row = q,
           \A t \in Ticks : tick'[t].pc \in RunSteps =>
              \/ /\ tick[t].pc \in RunSteps
                 /\ tick'[t].run = tick[t].run /\ tick'[t].row = tick[t].row
              \/ runs'[tick'[t].run].row = tick'[t].row,
           \A t \in Ticks : tick'[t].pc = "log" =>
              \/ tick[t].pc = "log" /\ tick'[t].run = tick[t].run
              \/ tick'[t].run \notin LoggedRuns,
           \A t \in Ticks : tick'[t].pc = "resume" =>
              tick'[t].run = queue'[tick'[t].row].active
    PROVE  Owned'
<1>1. LoggedRuns' = LoggedRuns /\ Len(runs) \in Nat /\ Len(runs') \in Nat
  BY DEF LoggedRuns, LoggingInv, ExclusionInv, TypeInv, TypeOK
<1>2. ASSUME NEW q \in Rows, queue'[q].active # Null
      PROVE  runs'[queue'[q].active].row = q
  BY <1>2 DEF LoggingInv, ExclusionInv, TypeInv, Owned, RunsKeepRows
<1>3. ASSUME NEW t \in Ticks, tick'[t].pc \in RunSteps
      PROVE  runs'[tick'[t].run].row = tick'[t].row
  <2>1. tick[t].pc \in RunSteps => /\ tick[t].run \in 1..Len(runs)
                                   /\ runs[tick[t].run].row = tick[t].row
    BY DEF LoggingInv, ExclusionInv, TypeInv, Known, Owned
  <2> QED
    BY <1>3, <2>1 DEF RunsKeepRows
<1>4. \A i \in 1..Len(iters') : iters'[i].run \in 1..Len(runs')
  BY <1>1 DEF LoggingInv, Owned, RunsKeepRows
<1>5. \A t \in Ticks : tick'[t].pc = "log" => tick'[t].run \notin LoggedRuns'
  BY <1>1 DEF LoggingInv, Owned
<1>6. RunLoggedOnce'
  BY DEF LoggingInv, Owned, RunLoggedOnce
<1> QED
  BY <1>2, <1>3, <1>4, <1>5, <1>6 DEF Owned

(* All statements but set_active_run keep the pointer to a run or clear it. *)
LEMMA StatementsKeepActive ==
    ASSUME queue \in [Rows -> QueueRow], NEW q \in Rows, NEW p \in Rows
    PROVE  LET Kept == queue'[p].active \in {queue[p].active, Null} IN
           /\ UNCHANGED queue \/ RecoverStuck => Kept
           /\ \A now : ClaimRow(q, now) => Kept
           /\ RollbackIter(q) \/ ResetToPending(q) \/ ParkExhausted(q) \/ FailQueue(q) => Kept
           /\ \A final : CompleteQueue(q, final) => Kept
           /\ \A i, fence : AttachIteration(q, i, fence) => Kept
           /\ InsertQueue(q) \/ CancelQueue(q) \/ RequeueFailed(q) => Kept
<1> DEFINE Kept == queue'[p].active \in {queue[p].active, Null}
<1>1. \A status, started, overdue, active :
        /\ \/ Becomes(q, status, started, overdue, active)
           \/ BecomesIfRunning(q, status, started, overdue, active)
        /\ active \in {queue[q].active, Null}
        => Kept
  BY DEF Becomes, BecomesIfRunning, Shows
<1>2. UNCHANGED queue => Kept
  OBVIOUS
<1>3. RecoverStuck => Kept
  BY DEF RecoverStuck, Recovered, QueueRow
<1> HIDE DEF Kept
<1>4. \A now : ClaimRow(q, now) => Kept
  BY <1>1, StatementEffects
<1>5. RollbackIter(q) \/ ResetToPending(q) => Kept
  BY <1>1, StatementEffects
<1>6. ParkExhausted(q) \/ FailQueue(q) => Kept
  BY <1>1, StatementEffects
<1>7. \A final : CompleteQueue(q, final) => Kept
  BY <1>1, StatementEffects
<1>8. \A i, fence : AttachIteration(q, i, fence) => Kept
  BY <1>1, <1>2, StatementEffects
<1>9. InsertQueue(q) \/ CancelQueue(q) \/ RequeueFailed(q) => Kept
  BY <1>1, StatementEffects
<1> QED
  BY <1>2, <1>3, <1>4, <1>5, <1>6, <1>7, <1>8, <1>9 DEF Kept

(* A step of tick t that knows no new run and logs nothing.                 *)
LEMMA QuietStep ==
    ASSUME LoggingInv, TypeInv', NEW t \in Ticks, RunsKeepRows, UNCHANGED iters,
           tick' = [tick EXCEPT ![t] = tick'[t]],
           \/ tick'[t].pc \notin RunSteps
           \/ /\ tick[t].pc \in RunSteps /\ tick'[t].pc # "log"
              /\ tick'[t].run = tick[t].run /\ tick'[t].row = tick[t].row,
           \A q \in Rows : queue'[q].active \in {queue[q].active, Null},
           tick'[t].pc = "resume" => tick'[t].run = queue'[tick'[t].row].active,
           \A u \in Ticks \ {t} : tick[u].pc = "resume" =>
              queue'[tick[u].row].active = queue[tick[u].row].active
    PROVE  Owned'
<1>1. \A u \in Ticks : u # t => tick'[u] = tick[u]
  BY DEF LoggingInv, ExclusionInv, TypeInv, TypeOK
<1>4. \A u \in Ticks : tick'[u].pc = "resume" =>
        tick'[u].run = queue'[tick'[u].row].active
  BY <1>1 DEF LoggingInv, Owned
<1>2. \A u \in Ticks : tick'[u].pc \in RunSteps =>
        tick[u].pc \in RunSteps /\ tick'[u].run = tick[u].run /\ tick'[u].row = tick[u].row
  BY <1>1
<1>3. \A u \in Ticks : tick'[u].pc = "log" => tick[u].pc = "log" /\ tick'[u].run = tick[u].run
  BY <1>1 DEF RunSteps
<1> QED
  BY <1>2, <1>3, <1>4, OwnershipKept

(* A step of tick t leaves the pointer on the row of any other tick alone.  *)
LEMMA OtherPointersKept ==
    ASSUME ExclusionInv, NEW t \in Ticks, TickStep(t) \/ Mishap(t),
           NEW u \in Ticks \ {t}, tick[u].pc = "resume"
    PROVE  queue'[tick[u].row].active = queue[tick[u].row].active
<1> DEFINE k == tick[t]
           p == tick[u].row
<1>1. /\ queue \in [Rows -> QueueRow] /\ p \in Rows
      /\ k.pc \notin {"idle", "claim"} => k.row \in Rows
      /\ InFlight(t) => k.row # p
  BY DEF ExclusionInv, TypeInv, TypeOK, Known, Exclusive, OneTickPerRow, InFlight,
     ClaimedSteps
<1>2. CASE k.pc \in {"idle", "claim"}
  <2>1. Recover(t) \/ Claim(t) \/ EmptyQueue(t)
    BY <1>2 DEF TickStep, Mishap, Resume, Exhausted, RecordTrial, SubmitAccepted,
       StoreActiveRun, PollCompleted, PollDead, PollCapExpires, FindIteration, LogEvidence,
       Attach, DecideNextState, Reply, Rollback, ConfigError, SubmitUnanswered, TickFails,
       RollbackFails, ClaimedSteps
  <2>2. CASE Recover(t)
    BY <1>1, <2>2 DEF Recover, RecoverStuck, Recovered, QueueRow
  <2>3. CASE Claim(t)
    <3>1. PICK q \in Rows, now \in Fences : ClaimRow(q, now)
      BY <2>3 DEF Claim, FirstPending
    <3>2. Becomes(q, "RUNNING", now, FALSE, queue[q].active)
      BY <1>1, <3>1, StatementEffects
    <3> QED
      BY <1>1, <3>2 DEF Becomes, Shows
  <2>4. CASE EmptyQueue(t)
    BY <2>4 DEF EmptyQueue
  <2> QED
    BY <2>1, <2>2, <2>3, <2>4
<1>3. CASE k.pc \notin {"idle", "claim"}
  <2>1. \/ UNCHANGED queue
        \/ /\ InFlight(t)
           /\ \/ RollbackIter(k.row) \/ ResetToPending(k.row)
              \/ ParkExhausted(k.row) \/ FailQueue(k.row)
              \/ \E final : CompleteQueue(k.row, final)
              \/ SetActiveRun(k.row, k.run)
              \/ AttachIteration(k.row, k.iter, k.fence)
    BY <1>3 DEF TickStep, Mishap, Recover, Claim, EmptyQueue, Resume, Exhausted,
       RecordTrial, SubmitAccepted, StoreActiveRun, PollCompleted, PollDead, PollCapExpires,
       FindIteration, LogEvidence, Attach, DecideNextState, Reply, Rollback, ConfigError,
       SubmitUnanswered, TickFails, RollbackFails, InFlight, ClaimedSteps
  <2>2. CASE UNCHANGED queue
    BY <2>2
  <2>3. CASE InFlight(t) /\ ~UNCHANGED queue
    <3>1. k.row \in Rows /\ k.row # p
      BY <1>1, <1>3, <2>3
    <3>2. \A status, started, overdue, active :
            \/ Becomes(k.row, status, started, overdue, active)
            \/ BecomesIfRunning(k.row, status, started, overdue, active)
            => queue'[p] = queue[p]
      BY <1>1, <3>1 DEF Becomes, BecomesIfRunning
    <3>3. CASE RollbackIter(k.row) \/ ResetToPending(k.row)
      BY <1>1, <3>1, <3>2, <3>3, StatementEffects
    <3>4. CASE ParkExhausted(k.row) \/ FailQueue(k.row)
      BY <1>1, <3>1, <3>2, <3>4, StatementEffects
    <3>5. CASE \E final : CompleteQueue(k.row, final)
      BY <1>1, <3>1, <3>2, <3>5, StatementEffects
    <3>6. CASE SetActiveRun(k.row, k.run)
      BY <1>1, <3>1, <3>2, <3>6, StatementEffects
    <3>7. CASE AttachIteration(k.row, k.iter, k.fence)
      BY <1>1, <2>3, <3>1, <3>2, <3>7, StatementEffects
    <3> QED
      BY <2>1, <2>3, <3>3, <3>4, <3>5, <3>6, <3>7
  <2> QED
    BY <2>1, <2>2, <2>3
<1> QED
  BY <1>2, <1>3

(* The steps of a tick that let it know a run, and the one that logs it.    *)
LEMMA OwnedTickStep ==
    ASSUME LoggingInv, TypeInv', NEW t \in Ticks, TickStep(t) \/ Mishap(t)
    PROVE  Owned'
<1> DEFINE k == tick[t]
<1>1. /\ TypeInv
      /\ tick \in [Ticks -> TickLocals] /\ k \in TickLocals
      /\ queue \in [Rows -> QueueRow]
      /\ runs \in Seq(Run) /\ iters \in Seq(Iteration) /\ audits \in Seq(Audit)
      /\ Len(runs) \in Nat /\ Len(iters) \in Nat
      /\ k.pc \notin {"idle", "claim"} => k.row \in Rows
      /\ k.pc \in RunSteps => k.run \in 1..Len(runs)
  BY DEF LoggingInv, ExclusionInv, TypeInv, TypeOK, Known
<1>2. \A l : tick' = [tick EXCEPT ![t] = l] =>
        /\ tick' = [tick EXCEPT ![t] = tick'[t]] /\ tick'[t] = l
        /\ \A u \in Ticks : u # t => tick'[u] = tick[u]
  BY <1>1
<1>3. UNCHANGED runs => RunsKeepRows
  BY <1>1 DEF RunsKeepRows
<1>4. \A q \in Rows : UNCHANGED queue => queue'[q].active \in {queue[q].active, Null}
  OBVIOUS
<1>19. \A u \in Ticks \ {t} : tick[u].pc = "resume" =>
         queue'[tick[u].row].active = queue[tick[u].row].active
  BY OtherPointersKept DEF LoggingInv
<1>20. ASSUME tick'[t].pc # "resume", \A u \in Ticks : u # t => tick'[u] = tick[u]
       PROVE  \A u \in Ticks : tick'[u].pc = "resume" =>
                tick'[u].run = queue'[tick'[u].row].active
  BY <1>19, <1>20 DEF LoggingInv, Owned
<1>5. ASSUME runs' = Append(runs, NewRun(t))
      PROVE  RunsKeepRows /\ Len(runs') = Len(runs) + 1 /\ runs'[Len(runs) + 1].row = k.row
  BY <1>1, <1>5 DEF RunsKeepRows, NewRun
<1>6. CASE Resume(t)
  <2> DEFINE q == k.row
             r == k.run
             a == LatestUnattached(q)
             pc == IF runs[r].state = "COMPLETED" THEN "find" ELSE "poll"
             cell == IF a = Null THEN Null ELSE audits[a].cell
             m == CountTrials(k.row)
             l == [k EXCEPT !.pc = pc, !.audit = a, !.trials = m, !.cell = cell]
  <2>4. k \in TickLocals
    BY <1>1
  <2>1. UNCHANGED <<queue, runs, iters>> /\ q \in Rows /\ k.run = queue[q].active
    BY <1>1, <1>6 DEF Resume, LoggingInv, Owned
  <2>2. CASE ~Resumable(q, r)
    <3>1. Goto(t, "derive")
      BY <1>6, <2>2 DEF Resume
    <3>2. tick' = [tick EXCEPT ![t] = tick'[t]] /\ tick'[t].pc = "derive"
      BY <1>1, <3>1, GotoMoves DEF ClaimedSteps
    <3> QED
      BY <1>3, <1>4, <1>19, <2>1, <3>2, QuietStep DEF RunSteps
  <2>3. CASE Resumable(q, r)
    <3>1. tick' = [tick EXCEPT ![t] = l]
      BY <1>1, <1>6, <2>3 DEF Resume
    <3>2. l.pc = pc /\ l.row = q /\ l.run = r
      <4> HIDE DEF k, pc, a, m, cell
      <4> QED
        BY <2>4, SMTT(40) DEF TickLocals
    <3>3. pc \in {"find", "poll"} /\ runs[r].row = q
      BY <2>1, <2>3 DEF Resumable, LoggingInv, Owned
    <3> HIDE DEF l, pc, r
    <3>4. /\ \A u \in Ticks : u # t => tick'[u] = tick[u]
          /\ tick'[t].pc \in {"find", "poll"} /\ runs[tick'[t].run].row = tick'[t].row
      BY <1>2, <3>1, <3>2, <3>3
    <3>5. \A u \in Ticks : tick'[u].pc \in RunSteps =>
            \/ /\ tick[u].pc \in RunSteps
               /\ tick'[u].run = tick[u].run /\ tick'[u].row = tick[u].row
            \/ runs'[tick'[u].run].row = tick'[u].row
      BY <2>1, <3>4
    <3>6. \A u \in Ticks : tick'[u].pc = "log" => tick[u].pc = "log" /\ tick'[u].run = tick[u].run
      BY <3>4
    <3>7. \A u \in Ticks : tick'[u].pc = "resume" => tick'[u].run = queue'[tick'[u].row].active
      BY <1>20, <3>4
    <3> QED
      BY <1>3, <2>1, <3>5, <3>6, <3>7, OwnershipKept
  <2> QED
    BY <2>2, <2>3
<1>7. CASE SubmitAccepted(t)
  <2> DEFINE r == Len(runs) + 1
             l == [k EXCEPT !.pc = "store", !.run = r]
  <2>1. /\ UNCHANGED <<queue, iters>> /\ RunsKeepRows /\ runs'[r].row = k.row
        /\ tick' = [tick EXCEPT ![t] = l]
    BY <1>1, <1>5, <1>7 DEF SubmitAccepted
  <2>2. l.pc = "store" /\ l.row = k.row /\ l.run = r
    <3> HIDE DEF k, r
    <3> QED
      BY <1>1 DEF TickLocals
  <2> HIDE DEF l, r
  <2>3. /\ \A u \in Ticks : u # t => tick'[u] = tick[u]
        /\ tick'[t].pc = "store" /\ runs'[tick'[t].run].row = tick'[t].row
    BY <1>2, <2>1, <2>2
  <2>4. \A u \in Ticks : tick'[u].pc \in RunSteps =>
          \/ /\ tick[u].pc \in RunSteps
             /\ tick'[u].run = tick[u].run /\ tick'[u].row = tick[u].row
          \/ runs'[tick'[u].run].row = tick'[u].row
    BY <2>3
  <2>5. \A u \in Ticks : tick'[u].pc = "log" => tick[u].pc = "log" /\ tick'[u].run = tick[u].run
    BY <2>3
  <2>6. \A u \in Ticks : tick'[u].pc = "resume" => tick'[u].run = queue'[tick'[u].row].active
    BY <1>20, <2>3
  <2> QED
    BY <2>1, <2>4, <2>5, <2>6, OwnershipKept
<1>8. CASE StoreActiveRun(t)
  <2>1. /\ UNCHANGED <<runs, iters>> /\ k.pc = "store" /\ k.row \in Rows
        /\ SetActiveRun(k.row, k.run) /\ Goto(t, "poll")
    BY <1>1, <1>8 DEF StoreActiveRun
  <2>2. /\ \A u \in Ticks : u # t => tick'[u] = tick[u]
        /\ tick'[t].pc = "poll" /\ tick'[t].run = k.run /\ tick'[t].row = k.row
    BY <1>1, <2>1, GotoMoves DEF ClaimedSteps
  <2>3. runs[k.run].row = k.row
    BY <2>1 DEF LoggingInv, Owned, RunSteps
  <2>4. \A q \in Rows : queue'[q].active # Null =>
          queue'[q].active = queue[q].active \/ runs'[queue'[q].active].row = q
    <3>1. BecomesIfRunning(k.row, queue[k.row].status, queue[k.row].started,
                           queue[k.row].overdue, k.run)
      BY <1>1, <2>1, StatementEffects
    <3>2. \A q \in Rows : q # k.row => queue'[q] = queue[q]
      BY <3>1 DEF BecomesIfRunning, Becomes
    <3>3. queue'[k.row].active = k.run \/ queue'[k.row].active = queue[k.row].active
      BY <3>1 DEF BecomesIfRunning, Becomes, Shows
    <3> QED
      BY <2>1, <2>3, <3>2, <3>3
  <2>5. \A u \in Ticks : tick'[u].pc \in RunSteps =>
          tick[u].pc \in RunSteps /\ tick'[u].run = tick[u].run /\ tick'[u].row = tick[u].row
    BY <2>1, <2>2 DEF RunSteps
  <2>6. \A u \in Ticks : tick'[u].pc = "log" => tick[u].pc = "log" /\ tick'[u].run = tick[u].run
    BY <2>2
  <2>7. \A u \in Ticks : tick'[u].pc = "resume" => tick'[u].run = queue'[tick'[u].row].active
    BY <1>20, <2>2
  <2> QED
    BY <1>3, <2>1, <2>4, <2>5, <2>6, <2>7, OwnershipKept
<1>9. CASE FindIteration(t)
  <2> DEFINE i == FindIterationForRun(k.run)
             pc == IF i = Null THEN "log" ELSE "attach"
             l == [k EXCEPT !.pc = pc, !.iter = i]
  <2>1. /\ UNCHANGED <<queue, runs, iters>> /\ k.pc = "find"
        /\ tick' = [tick EXCEPT ![t] = l]
    BY <1>1, <1>9 DEF FindIteration
  <2>2. l.pc = pc /\ l.row = k.row /\ l.run = k.run
    <3> HIDE DEF k, pc, i
    <3> QED
      BY <1>1 DEF TickLocals
  <2>3. pc \in {"log", "attach"} /\ (pc = "log" => k.run \notin LoggedRuns)
    BY <1>1, FoundIteration
  <2> HIDE DEF l, pc
  <2>4. /\ \A u \in Ticks : u # t => tick'[u] = tick[u]
        /\ tick'[t].run = k.run /\ tick'[t].row = k.row
        /\ tick'[t].pc = "log" => k.run \notin LoggedRuns
        /\ tick'[t].pc \in {"log", "attach"}
    BY <1>2, <2>1, <2>2, <2>3
  <2>5. \A u \in Ticks : tick'[u].pc \in RunSteps =>
          tick[u].pc \in RunSteps /\ tick'[u].run = tick[u].run /\ tick'[u].row = tick[u].row
    BY <2>1, <2>4 DEF RunSteps
  <2>6. \A u \in Ticks : tick'[u].pc = "log" =>
          \/ tick[u].pc = "log" /\ tick'[u].run = tick[u].run
          \/ tick'[u].run \notin LoggedRuns
    BY <2>4
  <2>7. \A u \in Ticks : tick'[u].pc = "resume" => tick'[u].run = queue'[tick'[u].row].active
    BY <1>20, <2>4
  <2> QED
    BY <1>3, <2>1, <2>5, <2>6, <2>7, OwnershipKept
<1>10. CASE LogEvidence(t)
  <2> DEFINE n == Len(iters) + 1
             l == [k EXCEPT !.pc = "attach", !.iter = n]
  <2>1. /\ UNCHANGED <<queue, runs>> /\ k.pc = "log" /\ k.row \in Rows
        /\ k.run \in 1..Len(runs) /\ k.run \notin LoggedRuns /\ runs[k.run].row = k.row
    BY <1>1, <1>10 DEF LogEvidence, LoggingInv, Owned, RunSteps
  <2>2. tick' = [tick EXCEPT ![t] = l]
    BY <1>1, <1>10 DEF LogEvidence
  <2>3. l.pc = "attach" /\ l.row = k.row /\ l.run = k.run
    <3> HIDE DEF k, n
    <3> QED
      BY <1>1 DEF TickLocals
  <2>4. PICK e : iters' = Append(iters, e) /\ e.run = k.run
    BY <1>10 DEF LogEvidence
  <2>5. /\ Len(iters') = n /\ iters'[n].run = k.run
        /\ \A i \in 1..Len(iters) : iters'[i] = iters[i]
    BY <1>1, <2>4
  <2>6. \A i \in 1..Len(iters) : iters[i].run # k.run
    BY <2>1 DEF LoggedRuns
  <2>7. \A r : r \in LoggedRuns' => r \in LoggedRuns \/ r = k.run
    BY <1>1, <2>5 DEF LoggedRuns
  <2> HIDE DEF l
  <2>8. /\ \A u \in Ticks : u # t => tick'[u] = tick[u]
        /\ tick'[t].pc = "attach" /\ tick'[t].run = k.run /\ tick'[t].row = k.row
    BY <1>2, <2>2, <2>3
  <2>9. \A u \in Ticks : tick'[u].pc \in RunSteps => runs'[tick'[u].run].row = tick'[u].row
    BY <2>1, <2>8 DEF LoggingInv, Owned
  <2>10. ASSUME NEW u \in Ticks, tick'[u].pc = "log"
         PROVE  tick'[u].run \notin LoggedRuns'
    <3>1. u # t /\ tick'[u] = tick[u] /\ tick[u].pc = "log"
      BY <2>8, <2>10
    <3>2. tick[u].run \notin LoggedRuns /\ runs[tick[u].run].row = tick[u].row
      BY <3>1 DEF LoggingInv, Owned, RunSteps
    <3>3. tick[u].row # k.row
      BY <2>1, <3>1 DEF LoggingInv, ExclusionInv, Exclusive, OneTickPerRow, InFlight,
         ClaimedSteps
    <3> QED
      BY <2>1, <2>7, <3>1, <3>2, <3>3
  <2>11. \A i \in 1..Len(iters') : iters'[i].run \in 1..Len(runs')
    BY <1>1, <2>1, <2>5 DEF LoggingInv, Owned
  <2>12. RunLoggedOnce'
    BY <1>1, <2>5, <2>6 DEF LoggingInv, Owned, RunLoggedOnce
  <2>13. \A q \in Rows : queue'[q].active # Null => runs'[queue'[q].active].row = q
    BY <2>1 DEF LoggingInv, Owned
  <2>14. \A u \in Ticks : tick'[u].pc = "resume" => tick'[u].run = queue'[tick'[u].row].active
    BY <1>20, <2>8
  <2> QED
    BY <2>9, <2>10, <2>11, <2>12, <2>13, <2>14 DEF Owned
<1>11. CASE RecordTrial(t)
  <2>1. PICK c : tick' = [tick EXCEPT ![t] = [k EXCEPT !.pc = "submit", !.cell = c,
                                                       !.trials = CountTrials(k.row),
                                                       !.audit = Len(audits) + 1]]
    BY <1>1, <1>11 DEF RecordTrial
  <2> DEFINE a == Len(audits) + 1
             m == CountTrials(k.row)
             l == [k EXCEPT !.pc = "submit", !.cell = c, !.trials = m, !.audit = a]
  <2>2. l.pc = "submit"
    <3> HIDE DEF k, a, m
    <3> QED
      BY <1>1 DEF TickLocals
  <2>3. tick' = [tick EXCEPT ![t] = l] /\ UNCHANGED <<queue, runs, iters>>
    BY <1>11, <2>1 DEF RecordTrial
  <2> HIDE DEF l
  <2>4. tick' = [tick EXCEPT ![t] = tick'[t]] /\ tick'[t].pc = "submit"
    BY <1>2, <2>2, <2>3
  <2> QED
    BY <1>3, <1>4, <1>19, <2>3, <2>4, QuietStep DEF RunSteps
<1>12. CASE PollCompleted(t) \/ EmptyQueue(t)
  <2>1. /\ UNCHANGED <<queue, runs, iters>>
        /\ \/ Goto(t, "find") /\ k.pc = "poll"
           \/ Goto(t, "idle")
    BY <1>12 DEF PollCompleted, EmptyQueue
  <2>2. /\ tick' = [tick EXCEPT ![t] = tick'[t]]
        /\ \/ tick'[t].pc = "idle"
           \/ /\ tick'[t].pc = "find" /\ k.pc = "poll"
              /\ tick'[t].run = k.run /\ tick'[t].row = k.row
    BY <1>1, <2>1, GotoMoves DEF ClaimedSteps
  <2> QED
    BY <1>3, <1>4, <1>19, <2>1, <2>2, QuietStep DEF RunSteps
<1>13. CASE Recover(t)
  <2>1. UNCHANGED <<runs, iters>> /\ Goto(t, "claim") /\ RecoverStuck
    BY <1>13 DEF Recover
  <2>2. tick' = [tick EXCEPT ![t] = tick'[t]] /\ tick'[t].pc = "claim"
    BY <1>1, <2>1, GotoMoves
  <2>3. \A q \in Rows : queue'[q].active \in {queue[q].active, Null}
    BY <1>1, <2>1, StatementsKeepActive
  <2> QED
    BY <1>3, <1>19, <2>1, <2>2, <2>3, QuietStep DEF RunSteps
<1>14. CASE Claim(t)
  <2>1. PICK q \in Rows, now \in Fences :
          /\ ClaimRow(q, now)
          /\ tick' = [tick EXCEPT ![t] =
                [IdleTick EXCEPT !.pc = "resume", !.row = q, !.fence = now,
                                 !.prior = queue[q].iter, !.run = queue[q].active]]
    BY <1>14 DEF Claim, FirstPending
  <2>2. /\ tick' = [tick EXCEPT ![t] = tick'[t]] /\ tick'[t].pc = "resume"
        /\ tick'[t].row = q /\ tick'[t].run = queue[q].active
    BY <1>1, <2>1 DEF IdleTick
  <2>3. \A p \in Rows : queue'[p].active \in {queue[p].active, Null}
    BY <1>1, <2>1, StatementsKeepActive
  <2>5. queue'[q].active = queue[q].active
    <3>1. Becomes(q, "RUNNING", now, FALSE, queue[q].active)
      BY <1>1, <2>1, StatementEffects
    <3> QED
      BY <3>1 DEF Becomes, Shows
  <2>4. UNCHANGED <<runs, iters>>
    BY <1>14 DEF Claim
  <2> QED
    BY <1>3, <1>19, <2>2, <2>3, <2>4, <2>5, QuietStep DEF RunSteps
<1>15. CASE Attach(t)
  <2>1. /\ UNCHANGED <<runs, iters>> /\ k.row \in Rows /\ k.pc = "attach"
        /\ AttachIteration(k.row, k.iter, k.fence)
        /\ Goto(t, "decide") \/ tick' = [tick EXCEPT ![t] = Left(t, "reply")]
    BY <1>1, <1>15 DEF Attach
  <2>2. \A q \in Rows : queue'[q].active \in {queue[q].active, Null}
    BY <1>1, <2>1, StatementsKeepActive
  <2>3. CASE Goto(t, "decide")
    <3>1. /\ tick' = [tick EXCEPT ![t] = tick'[t]] /\ tick'[t].pc = "decide"
          /\ tick'[t].run = k.run /\ tick'[t].row = k.row
      BY <1>1, <2>3, GotoMoves DEF ClaimedSteps
    <3> QED
      BY <1>3, <1>19, <2>1, <2>2, <3>1, QuietStep DEF RunSteps
  <2>4. CASE tick' = [tick EXCEPT ![t] = Left(t, "reply")]
    BY <1>1, <1>3, <1>19, <2>1, <2>2, <2>4, LeftMoves, QuietStep DEF RunSteps
  <2> QED
    BY <2>1, <2>3, <2>4
<1>16. CASE Exhausted(t) \/ PollDead(t) \/ PollCapExpires(t) \/ DecideNextState(t)
            \/ Rollback(t) \/ ConfigError(t)
  <2>1. /\ k.row \in Rows /\ UNCHANGED <<runs, iters>>
        /\ \/ RollbackIter(k.row) \/ ResetToPending(k.row)
           \/ ParkExhausted(k.row) \/ FailQueue(k.row)
           \/ \E final : CompleteQueue(k.row, final)
    BY <1>1, <1>16 DEF Exhausted, PollDead, PollCapExpires, DecideNextState, Rollback,
       ConfigError
  <2>2. \A q \in Rows : queue'[q].active \in {queue[q].active, Null}
    BY <1>1, <2>1, StatementsKeepActive
  <2>3. LetsGo(t)
    BY <1>1, <1>16, GoesOnOrLetsGo
  <2> QED
    BY <1>3, <1>19, <2>1, <2>2, <2>3, QuietStep DEF LetsGo, RunSteps
<1>17. CASE Reply(t) \/ RollbackFails(t)
  <2>1. UNCHANGED <<queue, runs, iters>> /\ LetsGo(t)
    BY <1>1, <1>17, GoesOnOrLetsGo DEF Reply, RollbackFails
  <2> QED
    BY <1>3, <1>4, <1>19, <2>1, QuietStep DEF LetsGo, RunSteps
<1>18. CASE SubmitUnanswered(t) \/ TickFails(t)
  <2>1. /\ UNCHANGED <<queue, iters>>
        /\ runs' = Append(runs, NewRun(t)) \/ UNCHANGED runs
        /\ tick' = [tick EXCEPT ![t] = Left(t, "rollback")]
    BY <1>18 DEF SubmitUnanswered, TickFails
  <2> QED
    BY <1>1, <1>3, <1>4, <1>5, <1>19, <2>1, LeftMoves, QuietStep DEF RunSteps
<1> QED
  BY <1>6, <1>7, <1>8, <1>9, <1>10, <1>11, <1>12, <1>13, <1>14, <1>15, <1>16, <1>17, <1>18
  DEF TickStep, Mishap

LEMMA LoggingStep ==
    ASSUME ~SlowTicks, ~LateCancel
    PROVE  LoggingInv /\ [Next]_vars => LoggingInv'
<1> SUFFICES ASSUME LoggingInv, [Next]_vars
             PROVE  LoggingInv'
  OBVIOUS
<1>1. ExclusionInv' /\ TypeInv'
  BY ExclusionStep DEF LoggingInv, ExclusionInv
<1> SUFFICES Owned'
  BY <1>1 DEF LoggingInv
<1>2. /\ queue \in [Rows -> QueueRow] /\ runs \in Seq(Run) /\ Len(runs) \in Nat
      /\ UNCHANGED runs => RunsKeepRows
  BY DEF LoggingInv, ExclusionInv, TypeInv, TypeOK, RunsKeepRows
<1>3. ASSUME UNCHANGED <<tick, iters>>, RunsKeepRows,
             \A p \in Rows : queue'[p].active \in {queue[p].active, Null},
             \A u \in Ticks : tick[u].pc = "resume" =>
                queue'[tick[u].row].active = queue[tick[u].row].active
      PROVE  Owned'
  <2>1. \A u \in Ticks : tick'[u].pc = "resume" => tick'[u].run = queue'[tick'[u].row].active
    BY <1>3 DEF LoggingInv, Owned
  <2> QED
    BY <1>1, <1>3, <2>1, OwnershipKept
<1>4. CASE UNCHANGED vars
  BY <1>2, <1>3, <1>4 DEF vars
<1>5. ASSUME NEW q \in Rows, OperatorStep(q)
      PROVE  Owned'
  <2>1. /\ UNCHANGED <<tick, runs, iters>>
        /\ InsertQueue(q) \/ CancelQueue(q) \/ RequeueFailed(q)
    BY <1>5 DEF OperatorStep, Enqueue, Cancel, Requeue
  <2>2. \A p \in Rows : queue'[p].active \in {queue[p].active, Null}
    BY <1>2, <2>1, StatementsKeepActive
  <2>3. queue'[q].active = queue[q].active /\ \A p \in Rows \ {q} : queue'[p] = queue[p]
    BY <1>2, <2>1, StatementEffects DEF Becomes, Shows
  <2>4. \A u \in Ticks : tick[u].pc = "resume" => tick[u].row \in Rows
    BY DEF LoggingInv, ExclusionInv, TypeInv, Known
  <2> QED
    BY <1>2, <1>3, <2>1, <2>2, <2>3, <2>4
<1>6. ASSUME NEW q \in Rows, ClaimAges(q)
      PROVE  Owned'
  <2>1. UNCHANGED <<tick, runs, iters>>
    BY <1>6 DEF ClaimAges
  <2>2. \A p \in Rows : queue'[p].active = queue[p].active
    BY <1>2, <1>6 DEF ClaimAges, QueueRow
  <2>3. \A u \in Ticks : tick[u].pc = "resume" => tick[u].row \in Rows
    BY DEF LoggingInv, ExclusionInv, TypeInv, Known
  <2> QED
    BY <1>2, <1>3, <2>1, <2>2, <2>3
<1>7. ASSUME NEW r \in 1..Len(runs), RunCompletes(r) \/ RunFails(r)
      PROVE  Owned'
  <2>1. UNCHANGED <<queue, tick, iters>>
    BY <1>7 DEF RunCompletes, RunFails
  <2>2. RunsKeepRows
    <3>1. PICK state : runs' = [runs EXCEPT ![r] = [runs[r] EXCEPT !.state = state]]
      BY <1>2, <1>7 DEF RunCompletes, RunFails
    <3>2. /\ [runs[r] EXCEPT !.state = state].row = runs[r].row
          /\ [runs[r] EXCEPT !.state = state] \in [row : Rows, cell : Nat, state : {state}]
      <4>1. runs[r] \in Run
        BY <1>2, ElementOfSeq
      <4> QED
        BY <4>1 DEF Run
    <3>3. /\ Len(runs') = Len(runs)
          /\ \A j \in 1..Len(runs) : j # r => runs'[j] = runs[j]
          /\ runs'[r] = [runs[r] EXCEPT !.state = state]
      BY <1>2, <3>1
    <3> QED
      BY <1>2, <3>2, <3>3 DEF RunsKeepRows
  <2> QED
    BY <1>3, <2>1, <2>2
<1>8. CASE ProcessDies
  <2>1. UNCHANGED <<queue, runs, iters>> /\ tick' = [t \in Ticks |-> IdleTick]
    BY <1>8 DEF ProcessDies
  <2>2. \A t \in Ticks : tick'[t].pc \notin RunSteps /\ tick'[t].pc # "resume"
    BY <2>1 DEF IdleTick, RunSteps
  <2> QED
    BY <1>1, <1>2, <2>1, <2>2, OwnershipKept DEF RunSteps
<1>9. CASE \E t \in Ticks : TickStep(t) \/ Mishap(t)
  BY <1>1, <1>9, OwnedTickStep
<1> QED
  BY <1>4, <1>5, <1>6, <1>7, <1>8, <1>9 DEF Next

LEMMA LoggingStart == TickInit => LoggingInv
<1> SUFFICES ASSUME TickInit
             PROVE  LoggingInv
  OBVIOUS
<1>1. \A t \in Ticks : tick[t].pc \notin RunSteps /\ tick[t].pc # "resume"
  BY DEF TickInit, IdleTick, RunSteps
<1>2. \A q \in Rows : queue[q].active = Null
  BY DEF TickInit, QueueInit, NoRow
<1>3. iters = <<>> /\ Len(iters) = 0
  BY DEF TickInit
<1> QED
  BY <1>1, <1>2, <1>3, ExclusionStart DEF LoggingInv, Owned, RunLoggedOnce, RunSteps

(* No run is logged twice, although nothing in the schema forbids it: the   *)
(* lookup and the insert of an iteration are separate transactions, and it  *)
(* is the exclusion on the row that keeps a second tick from between them.  *)
THEOREM LoggedOnce ==
    ASSUME ~SlowTicks, ~LateCancel
    PROVE  Spec => []RunLoggedOnce
<1>1. LoggingInv => RunLoggedOnce
  BY DEF LoggingInv, Owned
<1> QED
  BY <1>1, LoggingStart, LoggingStep, PTL DEF Spec

============================================================================
