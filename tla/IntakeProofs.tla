---------------------------- MODULE IntakeProofs ----------------------------
(***************************************************************************)
(* What an agent has to go through, for any number of agents, targets,     *)
(* calls in flight, crashes and retries: the tables stay well formed, an   *)
(* answered call is never carried out again where the idempotency store is *)
(* durable, reviews can be trusted where a client waits for its answer,    *)
(* and the gates hold whatever overlaps.                                   *)
(*                                                                         *)
(* Every handler reads first and writes later.  The invariants say what is *)
(* still true at the write of what was read before it.                     *)
(***************************************************************************)
EXTENDS Intake, TLAPS, FiniteSetTheorems, SequenceTheorems, WellFoundedInduction

(* Where a call is in its handler tells which handler it is.                *)
Stage(k) ==
    /\ k.pc = "check" => k.intent.op \in {"verdict", "auto"}
    /\ k.pc = "judge" => k.intent.op = "auto"
    /\ k.pc = "review" => k.intent.op \in {"queue", "walk"}
    /\ k.pc = "discard" => k.intent.op = "queue"
    /\ k.pc = "store" => k.row # 0
    /\ k.began <= Len(journal)

InFlight(c) == calls[c] # Idle

TypeInv == TypeOK /\ \A c \in Calls : InFlight(c) => Stage(calls[c])

(* The server answers only what the cache holds, so a call that repeats an  *)
(* answered one goes no further than its look-up.                          *)
CacheInv ==
    /\ \A s \in answered : s[3] # NoKey /\ cache[s] # 0
    /\ \A c \in Calls : InFlight(c) /\ calls[c].late =>
          calls[c].pc = "lookup" /\ Slot(calls[c].intent) \in answered

(* One call of an agent at a time.                                          *)
Alone ==
    \A c, d \in Calls :
        InFlight(c) /\ InFlight(d) /\ calls[c].intent.agent = calls[d].intent.agent => c = d

(* What a reviewer found when it looked is so when its verdict is written.  *)
Reviewed(k) ==
    /\ k.pc = "insert" /\ k.intent.op = "verdict" =>
          ~RequestedBy(journal, k.intent.target, k.intent.agent)
    /\ k.pc \in {"judge", "insert"} /\ k.intent.op = "auto" =>
          HasRequest(journal, k.intent.target)
    /\ k.pc = "insert" /\ k.intent.op = "auto" =>
          k.failed \in PossibleFindings(k.intent.target)

ReviewInv ==
    /\ Alone
    /\ \A c \in Calls : InFlight(c) => Reviewed(calls[c])
    /\ \A n \in DOMAIN journal : journal[n].kind = "request" => journal[n].by # AutoReviewer

(* A verdict on t lets work through that is no older than any of the first  *)
(* n rows.                                                                 *)
Governs(t, n) ==
    \E v \in RowsOf(journal, "verdict", t) :
        /\ journal[v].verdict \in PassingGate
        /\ \A m \in RowsOf(journal, "verdict", t) : m <= n => m <= v

(* What a gate found holds until the insertion, for the rows and discards   *)
(* that were there when the call arrived.                                  *)
Gated(k) ==
    /\ k.barred => AxisHasDiscard(k.intent.target, k.intent.track)
    /\ k.intent.op \in {"queue", "walk"} /\ k.pc \in {"discard", "insert"} =>
          "review" \in k.intent.bypass \/ Governs(k.intent.target, k.began)
    /\ k.intent.op = "queue" /\ k.pc = "insert" /\ k.barred => "discard" \in k.intent.bypass

GateInv ==
    /\ \A c \in Calls : InFlight(c) => Gated(calls[c])
    /\ \A w \in DOMAIN work : work[w].began <= Len(journal)

---------------------------------------------------------------------------
(* The journal *)

(* The UPDATE of insert_review_verdict touches nothing but active, and that *)
(* of the requests on its target only.                                     *)
LEMMA RequestsClosed ==
    ASSUME journal \in Seq(JournalRow), NEW t
    PROVE  /\ CloseRequests(journal, t) \in Seq(JournalRow)
           /\ Len(CloseRequests(journal, t)) = Len(journal)
           /\ \A n \in 1..Len(journal) :
                /\ CloseRequests(journal, t)[n].kind = journal[n].kind
                /\ CloseRequests(journal, t)[n].target = journal[n].target
                /\ CloseRequests(journal, t)[n].by = journal[n].by
                /\ CloseRequests(journal, t)[n].verdict = journal[n].verdict
                /\ CloseRequests(journal, t)[n].failed = journal[n].failed
                /\ CloseRequests(journal, t)[n].late = journal[n].late
                /\ CloseRequests(journal, t)[n].active =
                     (journal[n].active /\ ~(journal[n].kind = "request" /\ journal[n].target = t))
<1> DEFINE new == CloseRequests(journal, t)
           hit(n) == n \in RowsOf(journal, "request", t)
<1>1. Len(journal) \in Nat /\ \A n \in 1..Len(journal) : journal[n] \in JournalRow
  BY ElementOfSeq
<1>2. new = [n \in 1..Len(journal) |->
               IF hit(n) THEN [journal[n] EXCEPT !.active = FALSE] ELSE journal[n]]
  BY DEF CloseRequests
<1>3. \A n \in 1..Len(journal) :
        hit(n) <=> journal[n].kind = "request" /\ journal[n].target = t
  BY DEF RowsOf
<1>4. ASSUME NEW n \in 1..Len(journal)
      PROVE  /\ new[n] \in JournalRow
             /\ new[n].kind = journal[n].kind /\ new[n].target = journal[n].target
             /\ new[n].by = journal[n].by /\ new[n].verdict = journal[n].verdict
             /\ new[n].failed = journal[n].failed /\ new[n].late = journal[n].late
             /\ new[n].active = (journal[n].active /\ ~hit(n))
  <2> PICK r \in JournalRow : r = journal[n]
    BY <1>1
  <2> DEFINE closed == [r EXCEPT !.active = FALSE]
  <2>1. /\ closed \in JournalRow /\ closed.active = FALSE
        /\ closed.kind = r.kind /\ closed.target = r.target /\ closed.by = r.by
        /\ closed.verdict = r.verdict /\ closed.failed = r.failed /\ closed.late = r.late
    BY DEF JournalRow
  <2>2. r.active \in BOOLEAN
    BY DEF JournalRow
  <2>3. CASE hit(n)
    <3>1. new[n] = closed
      BY <1>2, <2>3
    <3> HIDE DEF closed, new, hit
    <3> QED
      BY <2>1, <2>3, <3>1
  <2>4. CASE ~hit(n)
    <3>1. new[n] = r
      BY <1>2, <2>4
    <3> HIDE DEF new, hit
    <3> QED
      BY <2>2, <2>4, <3>1
  <2> QED
    BY <2>3, <2>4
<1>5. new \in [1..Len(journal) -> JournalRow]
  BY <1>2, <1>4
<1>6. new \in Seq(JournalRow) /\ Len(new) = Len(journal)
  <2> HIDE DEF new
  <2> QED
    BY <1>1, <1>5, SeqDef, LenProperties
<1> QED
  BY <1>3, <1>4, <1>6

(* The journal with one more row, and the requests on C closed.             *)
Extended(row, C) ==
    /\ journal' \in Seq(JournalRow)
    /\ Len(journal') = Len(journal) + 1
    /\ journal'[Len(journal) + 1] = row
    /\ \A n \in 1..Len(journal) :
        /\ journal'[n].kind = journal[n].kind
        /\ journal'[n].target = journal[n].target
        /\ journal'[n].by = journal[n].by
        /\ journal'[n].verdict = journal[n].verdict
        /\ journal'[n].failed = journal[n].failed
        /\ journal'[n].late = journal[n].late
        /\ journal'[n].active =
             (journal[n].active /\ ~(journal[n].kind = "request" /\ journal[n].target \in C))

(* A request is one more row, and closes none.                             *)
LEMMA RequestExtends ==
    ASSUME journal \in Seq(JournalRow), NEW row \in JournalRow,
           journal' = InsertReviewRequest(journal, row)
    PROVE  Extended(row, {})
<1>1. /\ journal' = Append(journal, row) /\ Len(journal) \in Nat
      /\ \A n \in 1..Len(journal) : journal[n] \in JournalRow
  BY ElementOfSeq DEF InsertReviewRequest
<1>2. /\ journal' \in Seq(JournalRow) /\ Len(journal') = Len(journal) + 1
      /\ journal'[Len(journal) + 1] = row
      /\ \A n \in 1..Len(journal) : journal'[n] = journal[n]
  BY <1>1, AppendProperties
<1>3. \A n \in 1..Len(journal) : journal[n].active \in BOOLEAN
  BY <1>1 DEF JournalRow
<1> QED
  BY <1>2, <1>3 DEF Extended

(* A verdict is one more row, and closes the requests on its target.       *)
LEMMA VerdictExtends ==
    ASSUME journal \in Seq(JournalRow), NEW row \in JournalRow,
           journal' = InsertReviewVerdict(journal, row)
    PROVE  Extended(row, {row.target})
<1> DEFINE new == CloseRequests(journal, row.target)
<1>1. journal' = Append(new, row)
  BY DEF InsertReviewVerdict
<1>2. new \in Seq(JournalRow) /\ Len(new) = Len(journal) /\ Len(journal) \in Nat
  BY RequestsClosed
<1>3. /\ journal' \in Seq(JournalRow) /\ Len(journal') = Len(journal) + 1
      /\ journal'[Len(journal) + 1] = row
      /\ \A n \in 1..Len(journal) : journal'[n] = new[n]
  <2> HIDE DEF new
  <2> QED
    BY <1>1, <1>2, AppendProperties
<1>4. \A n \in 1..Len(journal) :
        /\ new[n].kind = journal[n].kind
        /\ new[n].target = journal[n].target
        /\ new[n].by = journal[n].by
        /\ new[n].verdict = journal[n].verdict
        /\ new[n].failed = journal[n].failed
        /\ new[n].late = journal[n].late
        /\ new[n].active =
             (journal[n].active /\ ~(journal[n].kind = "request" /\ journal[n].target = row.target))
  BY RequestsClosed
<1> HIDE DEF new
<1> QED
  BY <1>3, <1>4 DEF Extended

(* A longer journal has the rows it had, and one more.                      *)
LEMMA RowsExtended ==
    ASSUME journal \in Seq(JournalRow), NEW row, NEW C, Extended(row, C), NEW kind, NEW t
    PROVE  RowsOf(journal', kind, t) =
             RowsOf(journal, kind, t) \cup
               (IF row.kind = kind /\ row.target = t THEN {Len(journal) + 1} ELSE {})
<1>1. Len(journal) \in Nat
  OBVIOUS
<1> QED
  BY <1>1 DEF RowsOf, Extended

---------------------------------------------------------------------------
(* Calls *)

(* A call that is anywhere in its handler is a well-formed call.           *)
LEMMA CallFacts ==
    ASSUME TypeInv, NEW c \in Calls
    PROVE  /\ calls \in [Calls -> Call \cup {Idle}]
           /\ InFlight(c) => /\ calls[c] \in Call /\ calls[c].intent \in Intents
                             /\ calls[c].intent \in Intent /\ Stage(calls[c])
           /\ \A p : At(c, p) /\ p # "idle" => InFlight(c)
<1>1. calls \in [Calls -> Call \cup {Idle}]
  BY DEF TypeInv, TypeOK
<1>2. ASSUME InFlight(c)
      PROVE  /\ calls[c] \in Call /\ calls[c].intent \in Intents
             /\ calls[c].intent \in Intent /\ Stage(calls[c])
  BY <1>1, <1>2, IntakeAssumption DEF TypeInv, Call, InFlight
<1>3. \A p : At(c, p) /\ p # "idle" => InFlight(c)
  BY DEF At, InFlight, Idle
<1> QED
  BY <1>1, <1>2, <1>3

(* The call l is the call k one step on.                                    *)
Continues(k, l) ==
    /\ k \in Call /\ l \in Call
    /\ l.intent = k.intent /\ l.began = k.began /\ l.late = k.late /\ l.barred = k.barred

(* How a call gets from k to l, and what it has just read.                  *)
StepsTo(k, l) ==
    LET i == k.intent
    IN  \/ k.pc = "lookup" /\ l.pc = FirstStep(i) /\ Cached(i) = 0
        \/ /\ k.pc = "check" /\ l.pc = "insert" /\ i.op = "verdict"
           /\ ~RequestedBy(journal, i.target, i.agent)
        \/ k.pc = "check" /\ l.pc = "judge" /\ i.op = "auto" /\ HasRequest(journal, i.target)
        \/ k.pc = "judge" /\ l.pc = "insert" /\ l.failed \in PossibleFindings(i.target)
        \/ k.pc = "review" /\ l.pc = AfterReview(i) /\ PassesReviewGate(i)
        \/ k.pc = "discard" /\ l.pc = "insert" /\ PassesDiscardGate(i)
        \/ k.pc = "insert" /\ l.pc = "store" /\ l.row # 0

(* Every step of a call that is not its first or its last reads something   *)
(* and goes on, or writes and goes on to store.                            *)
LEMMA CallMoves ==
    ASSUME TypeInv, NEW c \in Calls, Handle(c)
    PROVE  /\ calls' = [calls EXCEPT ![c] = calls'[c]]
           /\ \/ calls'[c] = Idle
              \/ \E i \in Intents : Arrive(c, i)
              \/ Continues(calls[c], calls'[c]) /\ StepsTo(calls[c], calls'[c])
<1> DEFINE k == calls[c]
           i == k.intent
           Moves == /\ calls' = [calls EXCEPT ![c] = calls'[c]]
                    /\ \/ calls'[c] = Idle
                       \/ \E j \in Intents : Arrive(c, j)
                       \/ Continues(k, calls'[c]) /\ StepsTo(k, calls'[c])
<1>1. calls \in [Calls -> Call \cup {Idle}]
  BY CallFacts
<1>2. ASSUME NEW p, At(c, p), p # "idle"
      PROVE  k \in Call /\ i \in Intents /\ i \in Intent /\ Stage(k) /\ k.pc = p
  BY <1>2, CallFacts DEF At
<1>3. ASSUME Close(c)
      PROVE  Moves
  BY <1>1, <1>3 DEF Close
<1>4. ASSUME NEW j \in Intents, Arrive(c, j)
      PROVE  Moves
  BY <1>1, <1>4 DEF Arrive
<1>5. ASSUME NEW p \in {"check", "judge", "review", "discard", "insert"}, k \in Call, Goto(c, p)
      PROVE  /\ calls' = [calls EXCEPT ![c] = calls'[c]]
             /\ Continues(k, calls'[c]) /\ calls'[c].pc = p
  <2>1. calls' = [calls EXCEPT ![c] = [k EXCEPT !.pc = p]]
    BY <1>1, <1>5 DEF Goto
  <2>2. /\ [k EXCEPT !.pc = p] \in Call /\ [k EXCEPT !.pc = p].pc = p
        /\ Continues(k, [k EXCEPT !.pc = p])
    <3> HIDE DEF k
    <3> QED
      BY <1>5 DEF Call, Continues
  <2> QED
    BY <1>1, <2>1, <2>2
<1>6. CASE ReplayCachedResponse(c)
  <2>1. k \in Call /\ i \in Intent /\ k.pc = "lookup"
    BY <1>2, <1>6 DEF ReplayCachedResponse
  <2>2. CASE Cached(i) # 0
    BY <1>3, <1>6, <2>2 DEF ReplayCachedResponse, Answer
  <2>3. CASE Cached(i) = 0
    <3>1. Goto(c, FirstStep(i))
      BY <1>6, <2>3 DEF ReplayCachedResponse
    <3>2. FirstStep(i) \in {"check", "judge", "review", "discard", "insert"}
      BY <2>1 DEF FirstStep, Intent, Operations
    <3> QED
      BY <1>5, <2>1, <2>3, <3>1, <3>2 DEF StepsTo
  <2> QED
    BY <2>2, <2>3
<1>7. CASE CacheResponse(c) \/ SelfReviewForbidden(c) \/ RequestNotFound(c) \/ ReviewRequired(c)
              \/ AxisPreviouslyDiscarded(c)
  <2>1. Close(c)
    BY <1>7 DEF CacheResponse, SelfReviewForbidden, RequestNotFound, ReviewRequired,
                AxisPreviouslyDiscarded, Answer, Refuse
  <2> QED
    BY <1>3, <2>1
<1>8. CASE CheckReviewer(c)
  <2>1. /\ k \in Call /\ k.pc = "check" /\ Goto(c, "insert") /\ i.op = "verdict"
        /\ ~RequestedBy(journal, i.target, i.agent)
    BY <1>2, <1>8 DEF CheckReviewer, Proceed, Does
  <2> QED
    BY <1>5, <2>1 DEF StepsTo
<1>9. CASE FetchRequest(c)
  <2>1. /\ k \in Call /\ k.pc = "check" /\ Goto(c, "judge") /\ i.op = "auto"
        /\ HasRequest(journal, i.target)
    BY <1>2, <1>9 DEF FetchRequest, Proceed, Does
  <2> QED
    BY <1>5, <2>1 DEF StepsTo
<1>10. CASE ReviewGate(c)
  <2>1. k \in Call /\ k.pc = "review" /\ Goto(c, AfterReview(i)) /\ PassesReviewGate(i)
    BY <1>2, <1>10 DEF ReviewGate, Proceed
  <2>2. AfterReview(i) \in {"check", "judge", "review", "discard", "insert"}
    BY DEF AfterReview
  <2> QED
    BY <1>5, <2>1, <2>2 DEF StepsTo
<1>11. CASE DiscardGate(c)
  <2>1. k \in Call /\ k.pc = "discard" /\ Goto(c, "insert") /\ PassesDiscardGate(i)
    BY <1>2, <1>11 DEF DiscardGate, Proceed
  <2> QED
    BY <1>5, <2>1 DEF StepsTo
<1>12. CASE RunChecklist(c)
  <2>1. k \in Call /\ k.pc = "judge" /\ i \in Intent
    BY <1>2, <1>12 DEF RunChecklist
  <2>2. PICK failed \in PossibleFindings(i.target) :
          calls' = [calls EXCEPT ![c].pc = "insert", ![c].failed = failed]
    BY <1>12 DEF RunChecklist
  <2> DEFINE l == [k EXCEPT !.pc = "insert", !.failed = failed]
  <2>3. calls' = [calls EXCEPT ![c] = l]
    BY <1>1, <2>2
  <2>4. failed \subseteq PlanChecks \cup GraduationChecks
    BY <2>2, IntakeAssumption DEF PossibleFindings, FailedPlanChecks
  <2>5. Continues(k, l) /\ l.pc = "insert" /\ l.failed = failed
    <3> HIDE DEF k
    <3> QED
      BY <2>1, <2>4 DEF Call, Continues
  <2> HIDE DEF l
  <2>6. calls' = [calls EXCEPT ![c] = calls'[c]] /\ calls'[c] = l
    BY <1>1, <2>3
  <2> QED
    BY <2>1, <2>2, <2>5, <2>6 DEF StepsTo
<1>13. ASSUME NEW n \in Nat \ {0}, k \in Call, k.pc = "insert", Inserted(c, n)
       PROVE  Moves
  <2> DEFINE l == [k EXCEPT !.pc = "store", !.row = n]
  <2>1. calls' = [calls EXCEPT ![c] = l]
    BY <1>1, <1>13 DEF Inserted
  <2>2. Continues(k, l) /\ l.pc = "store" /\ l.row = n
    <3> HIDE DEF k
    <3> QED
      BY <1>13 DEF Call, Continues
  <2> HIDE DEF l
  <2>3. calls' = [calls EXCEPT ![c] = calls'[c]] /\ calls'[c] = l
    BY <1>1, <2>1
  <2> QED
    BY <1>13, <2>2, <2>3 DEF StepsTo
<1>14. CASE SubmitReviewRequest(c) \/ SubmitReviewVerdict(c) \/ SubmitAutoVerdict(c) \/ Admit(c)
  <2>1. k \in Call /\ k.pc = "insert"
    <3>1. At(c, "insert")
      BY <1>14 DEF SubmitReviewRequest, SubmitReviewVerdict, SubmitAutoVerdict, Admit
    <3> QED
      BY <1>2, <3>1
  <2>2. journal \in Seq(JournalRow) /\ work \in Seq(WorkRow)
    BY DEF TypeInv, TypeOK
  <2>3. PICK n \in Nat \ {0} : Inserted(c, n)
    <3>1. CASE Admit(c)
      <4>1. Inserted(c, Len(work) + 1)
        BY <3>1 DEF Admit
      <4> QED
        BY <2>2, <4>1
    <3>2. ASSUME NEW table, NEW row, WriteJournal(c, Append(table, row)), table \in Seq(JournalRow)
          PROVE  \E n \in Nat \ {0} : Inserted(c, n)
      <4>1. Inserted(c, Len(Append(table, row)))
        BY <3>2 DEF WriteJournal
      <4>2. Len(Append(table, row)) = Len(table) + 1 /\ Len(table) \in Nat
        BY <3>2
      <4> QED
        BY <4>1, <4>2
    <3>3. \A t : CloseRequests(journal, t) \in Seq(JournalRow)
      BY <2>2, RequestsClosed
    <3> QED
      BY <1>14, <2>2, <3>1, <3>2, <3>3
      DEF SubmitReviewRequest, SubmitReviewVerdict, SubmitAutoVerdict, InsertReviewRequest,
          InsertReviewVerdict
  <2> QED
    BY <1>13, <2>1, <2>3
<1> QED
  BY <1>3, <1>4, <1>6, <1>7, <1>8, <1>9, <1>10, <1>11, <1>12, <1>14 DEF Handle

---------------------------------------------------------------------------
(* Tables *)

(* What a call appends to the journal, and which requests that closes.      *)
Submits(k) ==
    LET i == k.intent
    IN  \/ i.op = "request" /\ Extended(Request(i.target, i.agent, k.late), {})
        \/ /\ i.op = "verdict"
           /\ Extended(Verdict(i.target, i.agent, i.choice, {}, k.late), {i.target})
        \/ /\ i.op = "auto"
           /\ Extended(Verdict(i.target, AutoReviewer,
                               AggregateVerdict(k.failed, Blockers(i.target)), k.failed, k.late),
                       {i.target})

(* Only a call at its insertion appends to the journal.                    *)
LEMMA JournalWrites ==
    ASSUME TypeInv, NEW c \in Calls, Handle(c)
    PROVE  /\ journal' \in Seq(JournalRow)
           /\ \/ UNCHANGED journal
              \/ calls[c] \in Call /\ calls[c].pc = "insert" /\ Submits(calls[c])
<1> DEFINE k == calls[c]
           i == k.intent
<1>1. journal \in Seq(JournalRow)
  BY DEF TypeInv, TypeOK
<1>2. At(c, "insert") => /\ k \in Call /\ k.pc = "insert" /\ i \in Intent
                         /\ i.agent \in Agents /\ i.target \in Targets /\ i.choice \in Verdicts
                         /\ k.late \in BOOLEAN
                         /\ k.failed \subseteq PlanChecks \cup GraduationChecks
  BY CallFacts DEF At, Call, Intent
<1>3. CASE SubmitReviewRequest(c)
  <2>1. /\ At(c, "insert") /\ i.op = "request"
        /\ journal' = InsertReviewRequest(journal, Request(i.target, i.agent, k.late))
    BY <1>3 DEF SubmitReviewRequest, WriteJournal, Does
  <2>2. Request(i.target, i.agent, k.late) \in JournalRow
    BY <1>2, <2>1 DEF Request, JournalRow
  <2>3. Extended(Request(i.target, i.agent, k.late), {})
    BY <1>1, <2>1, <2>2, RequestExtends
  <2> QED
    BY <1>2, <2>1, <2>3 DEF Submits, Extended
<1>4. CASE SubmitReviewVerdict(c)
  <2> DEFINE row == Verdict(i.target, i.agent, i.choice, {}, k.late)
  <2>1. At(c, "insert") /\ i.op = "verdict" /\ journal' = InsertReviewVerdict(journal, row)
    BY <1>4 DEF SubmitReviewVerdict, WriteJournal, Does
  <2>2. row \in JournalRow /\ row.target = i.target
    BY <1>2, <2>1 DEF Verdict, JournalRow
  <2>3. Extended(row, {i.target})
    <3> HIDE DEF row
    <3> QED
      BY <1>1, <2>1, <2>2, VerdictExtends
  <2> QED
    BY <1>2, <2>1, <2>3 DEF Submits, Extended
<1>5. CASE SubmitAutoVerdict(c)
  <2> DEFINE v == AggregateVerdict(k.failed, Blockers(i.target))
             row == Verdict(i.target, AutoReviewer, v, k.failed, k.late)
  <2>1. At(c, "insert") /\ i.op = "auto" /\ journal' = InsertReviewVerdict(journal, row)
    BY <1>5 DEF SubmitAutoVerdict, WriteJournal, Does
  <2>2. v \in Verdicts
    BY DEF AggregateVerdict, Verdicts
  <2>3. row \in JournalRow /\ row.target = i.target
    <3> HIDE DEF v
    <3> QED
      BY <1>2, <2>1, <2>2 DEF Verdict, JournalRow
  <2>4. Extended(row, {i.target})
    <3> HIDE DEF row
    <3> QED
      BY <1>1, <2>1, <2>3, VerdictExtends
  <2> QED
    BY <1>2, <2>1, <2>4 DEF Submits, Extended
<1>6. CASE UNCHANGED journal
  BY <1>1, <1>6
<1>7. CASE \/ \E j \in Intents : Arrive(c, j)
           \/ ReplayCachedResponse(c) \/ CacheResponse(c) \/ CheckReviewer(c)
           \/ SelfReviewForbidden(c) \/ FetchRequest(c) \/ RequestNotFound(c) \/ RunChecklist(c)
           \/ ReviewGate(c) \/ ReviewRequired(c) \/ DiscardGate(c) \/ AxisPreviouslyDiscarded(c)
           \/ Admit(c)
  <2>1. UNCHANGED journal
    BY <1>7 DEF Arrive, ReplayCachedResponse, CacheResponse, CheckReviewer, SelfReviewForbidden,
       FetchRequest, RequestNotFound, RunChecklist, ReviewGate, ReviewRequired, DiscardGate,
       AxisPreviouslyDiscarded, Admit, Refuse, Proceed, tables
  <2> QED
    BY <1>6, <2>1
<1> QED
  BY <1>3, <1>4, <1>5, <1>7 DEF Handle

(* The row of an admitted call.                                             *)
WorkOf(k) == [intent |-> k.intent, began |-> k.began, late |-> k.late, barred |-> k.barred]

(* Only an admitted call appends to the work; no call discards axes.       *)
LEMMA WorkWrites ==
    ASSUME TypeInv, NEW c \in Calls, Handle(c)
    PROVE  /\ UNCHANGED discards
           /\ work' \in Seq(WorkRow)
           /\ \/ UNCHANGED work
              \/ /\ calls[c] \in Call /\ calls[c].pc = "insert"
                 /\ calls[c].intent.op \in {"queue", "walk"}
                 /\ UNCHANGED journal
                 /\ Len(work') = Len(work) + 1 /\ work'[Len(work) + 1] = WorkOf(calls[c])
                 /\ \A n \in 1..Len(work) : work'[n] = work[n]
<1> DEFINE k == calls[c]
<1>1. work \in Seq(WorkRow)
  BY DEF TypeInv, TypeOK
<1>2. CASE Admit(c)
  <2>1. /\ At(c, "insert") /\ k.intent.op \in {"queue", "walk"}
        /\ work' = Append(work, WorkOf(k)) /\ UNCHANGED <<journal, discards>>
    BY <1>2 DEF Admit, Does, WorkOf
  <2>2. k \in Call /\ k.pc = "insert"
    BY <2>1, CallFacts DEF At
  <2>3. WorkOf(k) \in WorkRow
    BY <2>2 DEF WorkOf, WorkRow, Call
  <2>4. /\ work' \in Seq(WorkRow) /\ Len(work') = Len(work) + 1
        /\ work'[Len(work) + 1] = WorkOf(k) /\ \A n \in 1..Len(work) : work'[n] = work[n]
    BY <1>1, <2>1, <2>3, AppendProperties
  <2> QED
    BY <2>1, <2>2, <2>4
<1>3. CASE ~Admit(c)
  <2>1. UNCHANGED <<work, discards>>
    BY <1>3 DEF Handle, Arrive, ReplayCachedResponse, CacheResponse, SubmitReviewRequest,
       CheckReviewer, SelfReviewForbidden, SubmitReviewVerdict, FetchRequest, RequestNotFound,
       RunChecklist, SubmitAutoVerdict, ReviewGate, ReviewRequired, DiscardGate,
       AxisPreviouslyDiscarded, WriteJournal, Refuse, Proceed, tables
  <2> QED
    BY <1>1, <2>1
<1> QED
  BY <1>2, <1>3

(* The cache forgets nothing, and what is answered is cached.               *)
LEMMA CacheWrites ==
    ASSUME TypeInv, NEW c \in Calls, Handle(c)
    PROVE  /\ cache' \in [Slots -> Nat]
           /\ \A s \in Slots : cache[s] # 0 => cache'[s] # 0
           /\ \/ UNCHANGED answered
              \/ \E s \in Slots :
                    answered' = answered \cup {s} /\ s[3] # NoKey /\ cache'[s] # 0
<1> DEFINE k == calls[c]
           i == k.intent
<1>1. cache \in [Slots -> Nat]
  BY DEF TypeInv, TypeOK
<1>2. \A p : At(c, p) /\ p # "idle" => /\ k \in Call /\ Stage(k) /\ k.pc = p
                                       /\ Slot(i) \in Slots /\ Slot(i)[3] = i.key
  BY CallFacts DEF At, Slots, Slot
<1>3. CASE ReplayCachedResponse(c)
  <2>1. UNCHANGED cache /\ At(c, "lookup")
    BY <1>3 DEF ReplayCachedResponse
  <2>2. CASE Cached(i) = 0
    BY <1>1, <1>3, <2>1, <2>2 DEF ReplayCachedResponse
  <2>3. CASE Cached(i) # 0
    <3>1. i.key # NoKey /\ cache[Slot(i)] # 0
      BY <2>3 DEF Cached
    <3>2. answered' = answered \cup {Slot(i)}
      BY <1>3, <2>3, <3>1 DEF ReplayCachedResponse, Answer
    <3> QED
      BY <1>1, <1>2, <2>1, <3>1, <3>2
  <2> QED
    BY <2>2, <2>3
<1>4. CASE CacheResponse(c)
  <2>1. /\ At(c, "store") /\ Answer(c)
        /\ cache' = IF i.key = NoKey THEN cache ELSE [cache EXCEPT ![Slot(i)] = k.row]
    BY <1>4 DEF CacheResponse
  <2>2. k.row \in Nat /\ k.row # 0 /\ Slot(i) \in Slots /\ Slot(i)[3] = i.key
    BY <1>2, <2>1 DEF Stage, Call
  <2> PICK s, n : s = Slot(i) /\ n = k.row
    OBVIOUS
  <2>3. CASE i.key = NoKey
    BY <1>1, <2>1, <2>3 DEF Answer
  <2>4. CASE i.key # NoKey
    <3>1. cache' = [cache EXCEPT ![s] = n] /\ answered' = answered \cup {s}
      BY <2>1, <2>4 DEF Answer
    <3>2. s \in Slots /\ s[3] # NoKey /\ n \in Nat /\ n # 0
      BY <2>2, <2>4
    <3> QED
      BY <1>1, <3>1, <3>2
  <2> QED
    BY <2>3, <2>4
<1>5. CASE ~ReplayCachedResponse(c) /\ ~CacheResponse(c)
  <2>1. UNCHANGED <<cache, answered>>
    BY <1>5 DEF Handle, Arrive, SubmitReviewRequest,
       CheckReviewer, SelfReviewForbidden, SubmitReviewVerdict, FetchRequest, RequestNotFound,
       RunChecklist, SubmitAutoVerdict, ReviewGate, ReviewRequired, DiscardGate,
       AxisPreviouslyDiscarded, Admit, WriteJournal, Refuse, Proceed, tables
  <2> QED
    BY <1>1, <2>1
<1> QED
  BY <1>3, <1>4, <1>5

(* The call that arrives.                                                   *)
LEMMA CallArrives ==
    ASSUME TypeInv, NEW c \in Calls, NEW i \in Intents, Arrive(c, i)
    PROVE  /\ calls'[c] \in Call
           /\ calls'[c].pc = "lookup" /\ calls'[c].intent = i /\ calls'[c].began = Len(journal)
           /\ calls'[c].late = (Slot(i) \in answered)
           /\ calls'[c].barred = AxisHasDiscard(i.target, i.track)
           /\ ClientIsFree(i.agent)
           /\ UNCHANGED <<journal, work, discards, cache, answered>>
           /\ begun' \in 0..MaxCalls
<1>1. calls \in [Calls -> Call \cup {Idle}] /\ Len(journal) \in Nat /\ begun \in 0..MaxCalls
  BY DEF TypeInv, TypeOK
<1> DEFINE l == [pc |-> "lookup", intent |-> i, failed |-> {}, row |-> 0,
                 began |-> Len(journal), late |-> Slot(i) \in answered,
                 barred |-> AxisHasDiscard(i.target, i.track)]
<1>2. calls'[c] = l
  BY <1>1 DEF Arrive
<1>3. AxisHasDiscard(i.target, i.track) \in BOOLEAN
  BY DEF AxisHasDiscard
<1>4. l \in Call
  BY <1>1, <1>3 DEF Call
<1>5. begun' \in 0..MaxCalls
  BY <1>1, IntakeAssumption DEF Arrive
<1> QED
  BY <1>2, <1>4, <1>5 DEF Arrive, tables

---------------------------------------------------------------------------
(* Types *)

(* Nothing is on file and no call in flight at the start.                  *)
LEMMA TypeInvInit == Init => TypeInv
<1> SUFFICES ASSUME Init
             PROVE  TypeInv
  OBVIOUS
<1>1. journal = <<>> /\ work = <<>> /\ <<>> \in Seq(JournalRow) /\ <<>> \in Seq(WorkRow)
  BY DEF Init
<1>2. TypeOK
  BY <1>1, IntakeAssumption DEF Init, TypeOK
<1>3. \A c \in Calls : ~InFlight(c)
  BY DEF Init, InFlight
<1> QED
  BY <1>2, <1>3 DEF TypeInv

(* The journal only grows, and the other calls stay where they are.         *)
LEMMA HandleGrows ==
    ASSUME TypeInv, NEW c \in Calls, Handle(c)
    PROVE  /\ Len(journal) \in Nat /\ Len(journal') \in Nat /\ Len(journal) <= Len(journal')
           /\ \A d \in Calls \ {c} : calls'[d] = calls[d]
           /\ calls' \in [Calls -> Call \cup {Idle}]
<1>1. journal \in Seq(JournalRow) /\ calls \in [Calls -> Call \cup {Idle}]
  BY DEF TypeInv, TypeOK
<1>2. /\ journal' \in Seq(JournalRow)
      /\ UNCHANGED journal \/ Submits(calls[c])
  BY JournalWrites
<1>3. Len(journal') = Len(journal) \/ Len(journal') = Len(journal) + 1
  BY <1>2 DEF Submits, Extended
<1>4. /\ calls' = [calls EXCEPT ![c] = calls'[c]]
      /\ calls'[c] \in Call \cup {Idle}
  <2>1. ASSUME NEW i \in Intents, Arrive(c, i)
        PROVE  calls'[c] \in Call
    BY <2>1, CallArrives
  <2> QED
    BY <2>1, CallMoves DEF Continues
<1> QED
  BY <1>1, <1>2, <1>3, <1>4

(* The call that moves is where its kind may be.                            *)
LEMMA MovedStage ==
    ASSUME TypeInv, NEW c \in Calls, Handle(c), InFlight(c)'
    PROVE  Stage(calls[c])'
<1>1. Len(journal) \in Nat /\ Len(journal') \in Nat /\ Len(journal) <= Len(journal')
  BY HandleGrows
<1>2. CASE \E i \in Intents : Arrive(c, i)
  BY <1>1, <1>2, CallArrives DEF Stage
<1>3. CASE Continues(calls[c], calls'[c]) /\ StepsTo(calls[c], calls'[c])
  <2> PICK k, l : k = calls[c] /\ l = calls'[c]
    OBVIOUS
  <2>1. k \in Call /\ Stage(k) /\ Continues(k, l) /\ StepsTo(k, l)
    <3>1. k \in Call
      BY <1>3 DEF Continues
    <3>2. k # Idle
      BY <3>1 DEF Call, Idle
    <3> QED
      BY <1>3, <3>1, <3>2, CallFacts DEF InFlight
  <2>2. /\ k.began \in Nat /\ k.began <= Len(journal) /\ l.began = k.began /\ l.intent = k.intent
        /\ l.intent \in Intents /\ l.intent.op \in Operations
    BY <2>1, IntakeAssumption DEF Continues, Call, Stage, Intent
  <2>3. /\ l.pc = "check" => l.intent.op \in {"verdict", "auto"}
        /\ l.pc = "judge" => l.intent.op = "auto"
        /\ l.pc = "review" => l.intent.op \in {"queue", "walk"}
        /\ l.pc = "discard" => l.intent.op = "queue"
        /\ l.pc = "store" => l.row # 0
    BY <2>1, <2>2 DEF StepsTo, Stage, FirstStep, AfterReview, Operations
  <2>4. l.began <= Len(journal')
    BY <1>1, <2>2
  <2> QED
    BY <2>3, <2>4 DEF Stage
<1> QED
  BY <1>2, <1>3, CallMoves DEF InFlight

(* A step of a call keeps the types.                                       *)
LEMMA HandleKeepsTypes ==
    ASSUME TypeInv, NEW c \in Calls, Handle(c)
    PROVE  TypeInv'
<1>1. /\ journal' \in Seq(JournalRow) /\ work' \in Seq(WorkRow)
      /\ UNCHANGED discards /\ cache' \in [Slots -> Nat]
      /\ calls' \in [Calls -> Call \cup {Idle}]
  BY JournalWrites, WorkWrites, CacheWrites, HandleGrows
<1>2. answered' \subseteq Slots
  BY CacheWrites DEF TypeInv, TypeOK
<1>3. begun' \in 0..MaxCalls
  <2>1. ASSUME NEW i \in Intents, Arrive(c, i)
        PROVE  begun' \in 0..MaxCalls
    BY <2>1, CallArrives
  <2>2. CASE ~\E i \in Intents : Arrive(c, i)
    BY <2>2 DEF TypeInv, TypeOK, Handle, ReplayCachedResponse, CacheResponse, SubmitReviewRequest,
       CheckReviewer, SelfReviewForbidden, SubmitReviewVerdict, FetchRequest, RequestNotFound,
       RunChecklist, SubmitAutoVerdict, ReviewGate, ReviewRequired, DiscardGate,
       AxisPreviouslyDiscarded, Admit, WriteJournal, Refuse, Proceed
  <2> QED
    BY <2>1, <2>2
<1>4. UNCHANGED crashes
  BY DEF Handle, Arrive, ReplayCachedResponse, CacheResponse, SubmitReviewRequest,
       CheckReviewer, SelfReviewForbidden, SubmitReviewVerdict, FetchRequest, RequestNotFound,
       RunChecklist, SubmitAutoVerdict, ReviewGate, ReviewRequired, DiscardGate,
       AxisPreviouslyDiscarded, Admit, WriteJournal, Refuse, Proceed
<1>5. TypeOK'
  BY <1>1, <1>2, <1>3, <1>4 DEF TypeInv, TypeOK
<1>6. ASSUME NEW d \in Calls, InFlight(d)'
      PROVE  Stage(calls[d])'
  <2>1. CASE d = c
    BY <1>6, <2>1, MovedStage
  <2>2. CASE d # c
    <3>1. /\ calls'[d] = calls[d]
          /\ Len(journal) \in Nat /\ Len(journal') \in Nat /\ Len(journal) <= Len(journal')
      BY <2>2, HandleGrows
    <3>2. InFlight(d)
      BY <1>6, <3>1 DEF InFlight
    <3>3. Stage(calls[d]) /\ calls[d].began \in Nat
      BY <3>2, CallFacts DEF Call
    <3> QED
      BY <3>1, <3>3 DEF Stage
  <2> QED
    BY <2>1, <2>2
<1> QED
  BY <1>5, <1>6 DEF TypeInv

(* What a tick writes off has the axes and the track of a sweep.           *)
LEMMA DiscardKeepsTypes ==
    ASSUME TypeInv, NEW n \in DOMAIN work, SweepDiscarded(n)
    PROVE  TypeInv'
<1> DEFINE i == work[n].intent
<1>1. work[n] \in WorkRow
  BY ElementOfSeq DEF TypeInv, TypeOK
<1>2. i.target \in Targets /\ i.track \in Tracks
  BY <1>1, IntakeAssumption DEF WorkRow, Intent
<1>3. AxesOf[i.target] \in Axes
  BY <1>2, IntakeAssumption
<1>4. discards' \subseteq [axes : Axes, track : Tracks]
  BY <1>2, <1>3 DEF SweepDiscarded, TypeInv, TypeOK
<1>5. UNCHANGED <<journal, work, cache, answered, calls, begun, crashes>>
  BY DEF SweepDiscarded, tables
<1> QED
  BY <1>4, <1>5 DEF TypeInv, TypeOK, Stage, InFlight

(* A crash leaves well-formed tables and no call.                          *)
LEMMA CrashKeepsTypes ==
    ASSUME TypeInv, Crash
    PROVE  TypeInv'
<1>1. crashes' \in 0..MaxCrashes
  BY IntakeAssumption DEF TypeInv, TypeOK, Crash
<1>2. cache' \in [Slots -> Nat]
  BY DEF TypeInv, TypeOK, Crash
<1>3. /\ UNCHANGED <<journal, work, discards, answered, begun>>
      /\ calls' = [c \in Calls |-> Idle]
  BY DEF Crash, tables
<1> QED
  BY <1>1, <1>2, <1>3 DEF TypeInv, TypeOK, InFlight

(* TypeInv is inductive.                                                   *)
LEMMA TypeInvStep == TypeInv /\ [Next]_vars => TypeInv'
<1> SUFFICES ASSUME TypeInv, [Next]_vars
             PROVE  TypeInv'
  OBVIOUS
<1>1. CASE UNCHANGED vars
  BY <1>1 DEF vars, tables, TypeInv, TypeOK, Stage, InFlight
<1> QED
  BY <1>1, HandleKeepsTypes, DiscardKeepsTypes, CrashKeepsTypes DEF Next

(* The tables, the cache and the calls in flight stay well formed           *)
(* (repo/reviews.py, services/idempotency.py).                             *)
THEOREM TypeCorrect == Spec => []TypeOK
<1>1. TypeInv => TypeOK
  BY DEF TypeInv
<1> QED
  BY <1>1, TypeInvInit, TypeInvStep, PTL DEF Spec

---------------------------------------------------------------------------
(* Answered calls *)

(* A step of a call keeps answers cached and repeated calls out.           *)
LEMMA CacheInvHandled ==
    ASSUME TypeInv, CacheInv, NEW c \in Calls, Handle(c)
    PROVE  CacheInv'
<1>1. answered \subseteq Slots
  BY DEF TypeInv, TypeOK
<1>2. answered \subseteq answered'
  BY CacheWrites
<1>3. ASSUME NEW s \in answered'
      PROVE  s[3] # NoKey /\ cache'[s] # 0
  <2>1. CASE s \in answered
    BY <1>1, <2>1, CacheWrites DEF CacheInv
  <2>2. CASE s \notin answered
    BY <1>3, <2>2, CacheWrites
  <2> QED
    BY <2>1, <2>2
<1>4. ASSUME NEW d \in Calls, InFlight(d)', calls'[d].late
      PROVE  calls'[d].pc = "lookup" /\ Slot(calls'[d].intent) \in answered'
  <2>1. CASE d # c
    <3>1. calls'[d] = calls[d]
      BY <2>1, HandleGrows
    <3> QED
      BY <1>2, <1>4, <3>1 DEF CacheInv, InFlight
  <2>2. CASE d = c /\ \E i \in Intents : Arrive(c, i)
    <3>1. PICK i \in Intents : Arrive(c, i)
      BY <2>2
    <3>2. /\ calls'[c].pc = "lookup" /\ calls'[c].intent = i
          /\ calls'[c].late = (Slot(i) \in answered) /\ UNCHANGED answered
      BY <3>1, CallArrives
    <3> QED
      BY <1>4, <2>2, <3>2
  <2>3. CASE d = c /\ Continues(calls[c], calls'[c]) /\ StepsTo(calls[c], calls'[c])
    <3> DEFINE i == calls[c].intent
    <3>1. calls[c] \in Call /\ calls[c].late
      BY <1>4, <2>3 DEF Continues
    <3>2. InFlight(c)
      BY <3>1 DEF InFlight, Call, Idle
    <3>3. calls[c].pc = "lookup" /\ Slot(i) \in answered
      BY <3>1, <3>2 DEF CacheInv
    <3>4. Slot(i)[3] # NoKey /\ cache[Slot(i)] # 0
      BY <3>3 DEF CacheInv
    <3>5. Cached(i) # 0
      BY <3>4 DEF Cached, Slot
    <3> QED
      BY <2>3, <3>3, <3>5 DEF StepsTo
  <2> QED
    BY <1>4, <2>1, <2>2, <2>3, CallMoves DEF InFlight
<1> QED
  BY <1>3, <1>4 DEF CacheInv, InFlight

(* A call that writes has been through the look-up.                         *)
LEMMA WritersAreNotLate ==
    ASSUME TypeInv, CacheInv, AnsweredStaysAnswered, NEW c \in Calls, Handle(c)
    PROVE  AnsweredStaysAnswered'
<1>1. journal \in Seq(JournalRow) /\ work \in Seq(WorkRow)
  BY DEF TypeInv, TypeOK
<1>2. calls[c] \in Call /\ calls[c].pc = "insert" => ~calls[c].late
  BY DEF CacheInv, InFlight, Idle, Call
<1>3. \A n \in DOMAIN journal' : ~journal'[n].late
  <2>1. CASE UNCHANGED journal
    BY <2>1 DEF AnsweredStaysAnswered
  <2>2. CASE calls[c] \in Call /\ calls[c].pc = "insert" /\ Submits(calls[c])
    <3>1. PICK row, C : Extended(row, C) /\ row.late = FALSE
      <4>1. calls[c].late = FALSE
        BY <1>2, <2>2 DEF Call
      <4> QED
        BY <2>2, <4>1 DEF Submits, Request, Verdict
    <3>2. DOMAIN journal' = 1..(Len(journal) + 1) /\ DOMAIN journal = 1..Len(journal)
          /\ Len(journal) \in Nat
      BY <1>1, <3>1 DEF Extended
    <3> QED
      BY <3>1, <3>2 DEF Extended, AnsweredStaysAnswered
  <2> QED
    BY <2>1, <2>2, JournalWrites
<1>4. \A n \in DOMAIN work' : ~work'[n].late
  <2>1. CASE UNCHANGED work
    BY <2>1 DEF AnsweredStaysAnswered
  <2>2. CASE /\ calls[c] \in Call /\ calls[c].pc = "insert"
             /\ Len(work') = Len(work) + 1 /\ work'[Len(work) + 1] = WorkOf(calls[c])
             /\ \A n \in 1..Len(work) : work'[n] = work[n]
    <3>1. work' \in Seq(WorkRow)
      BY WorkWrites
    <3>2. DOMAIN work' = 1..(Len(work) + 1) /\ DOMAIN work = 1..Len(work) /\ Len(work) \in Nat
      BY <1>1, <2>2, <3>1
    <3>3. ~WorkOf(calls[c]).late
      BY <1>2, <2>2 DEF WorkOf
    <3> QED
      BY <2>2, <3>2, <3>3 DEF AnsweredStaysAnswered
  <2> QED
    BY <2>1, <2>2, WorkWrites
<1> QED
  BY <1>3, <1>4 DEF AnsweredStaysAnswered

(* Where the store is the table of the prod profile, a retry that starts    *)
(* after the answer to its key inserts nothing, whatever else runs and      *)
(* however often the server dies (services/idempotency.py,                  *)
(* PostgresIdempotencyStore).                                              *)
THEOREM AnsweredCallsAreNotRepeated ==
    ASSUME Durable
    PROVE  Spec => []AnsweredStaysAnswered
<1> DEFINE Inv == TypeInv /\ CacheInv /\ AnsweredStaysAnswered
<1>1. Init => Inv
  BY TypeInvInit DEF Init, CacheInv, AnsweredStaysAnswered, InFlight
<1>2. Inv /\ [Next]_vars => Inv'
  <2> SUFFICES ASSUME Inv, [Next]_vars
               PROVE  Inv'
    OBVIOUS
  <2>1. TypeInv'
    BY TypeInvStep
  <2>2. CASE \E c \in Calls : Handle(c)
    BY <2>1, <2>2, CacheInvHandled, WritersAreNotLate
  <2>3. CASE \E n \in DOMAIN work : SweepDiscarded(n)
    BY <2>1, <2>3 DEF SweepDiscarded, tables, CacheInv, AnsweredStaysAnswered, InFlight
  <2>4. CASE Crash
    <3>1. /\ UNCHANGED <<journal, work, cache, answered>>
          /\ \A c \in Calls : ~InFlight(c)'
      BY <2>4 DEF Crash, tables, InFlight
    <3> QED
      BY <2>1, <3>1 DEF CacheInv, AnsweredStaysAnswered
  <2>5. CASE UNCHANGED vars
    BY <2>1, <2>5 DEF vars, tables, CacheInv, AnsweredStaysAnswered, InFlight
  <2> QED
    BY <2>2, <2>3, <2>4, <2>5 DEF Next
<1>3. Inv => AnsweredStaysAnswered
  OBVIOUS
<1> QED
  BY <1>1, <1>2, <1>3, PTL DEF Spec

---------------------------------------------------------------------------
(* Reviews *)

(* The latest of some rows is one of them, and none of them is later.       *)
LEMMA LatestRow ==
    ASSUME NEW n \in Nat, NEW S \in SUBSET (1..n), S # {}
    PROVE  Latest(S) \in S /\ \A m \in S : m <= Latest(S)
<1> DEFINE Later(i) == {m \in 1..n : i < m}
           Laters == {Later(i) : i \in S}
           Smaller == StrictSubsetOrdering(1..n)
<1>1. \A i \in S : Later(i) \in FiniteSubsetsOf(1..n)
  <2>1. IsFiniteSet(1..n)
    BY FS_Interval
  <2>2. \A i \in S : IsFiniteSet(Later(i))
    BY <2>1, FS_Subset
  <2> QED
    BY <2>2 DEF FiniteSubsetsOf
<1>2. PICK least \in Laters : \A other \in Laters : <<other, least>> \notin Smaller
  <2>1. IsWellFoundedOn(Smaller, FiniteSubsetsOf(1..n))
    BY FS_StrictSubsetOrderingWellFounded
  <2>2. Laters # {} /\ Laters \subseteq FiniteSubsetsOf(1..n)
    BY <1>1
  <2> HIDE DEF Laters, Smaller
  <2> QED
    BY <2>1, <2>2, WFMin
<1>3. PICK i \in S : least = Later(i)
  BY <1>2
<1>4. ASSUME NEW m \in S
      PROVE  m <= i
  <2>1. ~(Later(m) \subseteq Later(i) /\ Later(m) # Later(i))
    <3>1. <<Later(m), Later(i)>> \notin Smaller
      BY <1>2, <1>3
    <3>2. Later(m) \subseteq 1..n /\ Later(i) \subseteq 1..n
      OBVIOUS
    <3> QED
      BY <1>1, <3>1, <3>2 DEF StrictSubsetOrdering, FiniteSubsetsOf
  <2>2. m \in 1..n /\ i \in 1..n
    OBVIOUS
  <2>3. CASE i < m
    <3>1. Later(m) \subseteq Later(i) /\ m \in Later(i) /\ m \notin Later(m)
      BY <2>2, <2>3
    <3> HIDE DEF Later
    <3> QED
      BY <2>1, <3>1
  <2> QED
    BY <2>2, <2>3
<1> QED
  BY <1>4 DEF Latest

(* A request stays the latest one on its target until another agent asks.   *)
LEMMA RequesterStays ==
    ASSUME journal \in Seq(JournalRow), NEW row, NEW C, Extended(row, C), NEW t, NEW a,
           ~RequestedBy(journal, t, a),
           row.kind = "request" /\ row.target = t => row.by # a
    PROVE  ~RequestedBy(journal', t, a)
<1> DEFINE old == RowsOf(journal, "request", t)
           new == RowsOf(journal', "request", t)
<1>1. Len(journal) \in Nat /\ old \in SUBSET (1..Len(journal))
  BY DEF RowsOf
<1>2. \A n \in 1..Len(journal) : journal'[n].by = journal[n].by
  BY DEF Extended
<1>3. CASE row.kind = "request" /\ row.target = t
  <2>1. new = old \cup {Len(journal) + 1}
    BY <1>3, RowsExtended
  <2>2. Latest(new) \in new /\ \A m \in new : m <= Latest(new)
    <3>1. new \in SUBSET (1..(Len(journal) + 1)) /\ new # {} /\ Len(journal) + 1 \in Nat
      BY <1>1, <2>1
    <3> HIDE DEF new
    <3> QED
      BY <3>1, LatestRow
  <2>3. Latest(new) = Len(journal) + 1
    <3> PICK last : last = Latest(new)
      OBVIOUS
    <3>1. last \in old \cup {Len(journal) + 1} /\ Len(journal) + 1 <= last
      BY <2>1, <2>2
    <3> HIDE DEF old, new
    <3>2. last = Len(journal) + 1
      BY <1>1, <3>1
    <3> QED
      BY <3>2
  <2>4. journal'[Latest(new)] = row
    BY <2>3 DEF Extended
  <2> QED
    BY <1>3, <2>4 DEF RequestedBy
<1>4. CASE ~(row.kind = "request" /\ row.target = t)
  <2>1. new = old
    <3>1. new = old \cup (IF row.kind = "request" /\ row.target = t
                          THEN {Len(journal) + 1} ELSE {})
      BY RowsExtended
    <3> HIDE DEF old, new
    <3> QED
      BY <1>4, <3>1
  <2>2. CASE old = {}
    BY <2>1, <2>2 DEF RequestedBy
  <2>3. CASE old # {}
    <3>1. Latest(old) \in 1..Len(journal)
      <4> HIDE DEF old
      <4> QED
        BY <1>1, <2>3, LatestRow
    <3> QED
      BY <1>2, <2>1, <2>3, <3>1 DEF RequestedBy
  <2> QED
    BY <2>2, <2>3
<1> QED
  BY <1>3, <1>4

(* An agent has one call in flight where clients wait for their answers.    *)
LEMMA AloneHandled ==
    ASSUME TypeInv, Alone, ~ClientTimesOut, NEW c \in Calls, Handle(c)
    PROVE  Alone'
<1>1. \A d \in Calls \ {c} : calls'[d] = calls[d]
  BY HandleGrows
<1>2. CASE calls'[c] = Idle
  BY <1>1, <1>2 DEF Alone, InFlight
<1>3. CASE \E i \in Intents : Arrive(c, i)
  <2>1. PICK i \in Intents : Arrive(c, i)
    BY <1>3
  <2>2. calls'[c].intent = i
    BY <2>1, CallArrives
  <2>3. \A d \in Calls : InFlight(d) => calls[d].intent.agent # i.agent
    BY <2>1, CallArrives DEF ClientIsFree, InFlight
  <2> QED
    BY <1>1, <2>2, <2>3 DEF Alone, InFlight
<1>4. CASE Continues(calls[c], calls'[c])
  <2>1. calls[c] \in Call /\ calls'[c].intent = calls[c].intent
    BY <1>4 DEF Continues
  <2>2. InFlight(c)
    BY <2>1 DEF InFlight, Call, Idle
  <2> QED
    BY <1>1, <2>1, <2>2 DEF Alone, InFlight
<1> QED
  BY <1>2, <1>3, <1>4, CallMoves

(* What a reviewer has found outlives the row another agent writes.         *)
LEMMA FindingsStay ==
    ASSUME TypeInv, NEW c \in Calls, calls[c] \in Call, Submits(calls[c]),
           NEW k \in Call, Reviewed(k), k.intent.agent # calls[c].intent.agent
    PROVE  Reviewed(k)'
<1> DEFINE t == k.intent.target
           a == k.intent.agent
           j == calls[c].intent
<1>1. PICK row, C : /\ Extended(row, C)
                    /\ row.kind = "request" => row.by = j.agent
  BY DEF Submits, Request, Verdict
<1>2. journal \in Seq(JournalRow)
  BY DEF TypeInv, TypeOK
<1>3. ~RequestedBy(journal, t, a) => ~RequestedBy(journal', t, a)
  <2>1. row.kind = "request" /\ row.target = t => row.by # a
    BY <1>1
  <2> HIDE DEF t, a
  <2> QED
    BY <1>1, <1>2, <2>1, RequesterStays
<1>4. HasRequest(journal, t) => HasRequest(journal', t)
  <2> HIDE DEF t
  <2>1. RowsOf(journal, "request", t) \subseteq RowsOf(journal', "request", t)
    BY <1>1, <1>2, RowsExtended
  <2> QED
    BY <2>1 DEF HasRequest
<1> QED
  BY <1>3, <1>4 DEF Reviewed

(* What a reviewer found survives any step of any call.                    *)
LEMMA ReviewedHandled ==
    ASSUME TypeInv, ReviewInv, NEW c \in Calls, Handle(c), NEW d \in Calls, InFlight(d)'
    PROVE  Reviewed(calls[d])'
<1> DEFINE k == calls[c]
           l == calls'[c]
<1>1. /\ journal' \in Seq(JournalRow)
      /\ UNCHANGED journal \/ (k \in Call /\ k.pc = "insert" /\ Submits(k))
  BY JournalWrites
<1>2. CASE d # c
  <2>1. calls'[d] = calls[d] /\ InFlight(d)
    BY <1>2, HandleGrows DEF InFlight
  <2>2. Reviewed(calls[d]) /\ calls[d] \in Call
    BY <2>1, CallFacts DEF ReviewInv
  <2>3. CASE UNCHANGED journal
    BY <2>1, <2>2, <2>3 DEF Reviewed
  <2>4. CASE k \in Call /\ Submits(k)
    <3>1. InFlight(c)
      BY <2>4 DEF InFlight, Call, Idle
    <3>2. calls[d].intent.agent # k.intent.agent
      BY <1>2, <2>1, <3>1 DEF ReviewInv, Alone
    <3> PICK e : e = calls[d]
      OBVIOUS
    <3>3. Reviewed(e)'
      <4>1. e \in Call /\ Reviewed(e) /\ e.intent.agent # calls[c].intent.agent
        BY <2>2, <3>2
      <4> QED
        BY <2>4, <4>1, FindingsStay
    <3> QED
      BY <2>1, <3>3 DEF Reviewed
  <2> QED
    BY <1>1, <2>3, <2>4
<1>3. CASE d = c /\ \E i \in Intents : Arrive(c, i)
  <2>1. calls'[c].pc = "lookup"
    BY <1>3, CallArrives
  <2> QED
    BY <1>3, <2>1 DEF Reviewed
<1>4. CASE d = c /\ Continues(k, l) /\ StepsTo(k, l)
  <2>1. k \in Call /\ l.intent = k.intent
    BY <1>4 DEF Continues
  <2>2. InFlight(c)
    BY <2>1 DEF InFlight, Call, Idle
  <2>3. Reviewed(k) /\ Stage(k) /\ k.intent.op \in Operations
    BY <2>2, CallFacts, IntakeAssumption DEF ReviewInv, Intent
  <2>4. CASE k.pc = "insert"
    <3>1. l.pc = "store"
      BY <1>4, <2>4 DEF StepsTo
    <3> QED
      BY <1>4, <3>1 DEF Reviewed
  <2>5. CASE k.pc # "insert"
    <3>1. UNCHANGED journal
      BY <1>1, <2>5
    <3>2. Reviewed(l)
      <4> PICK e, f : e = k /\ f = l
        OBVIOUS
      <4>1. /\ StepsTo(e, f) /\ Reviewed(e) /\ Stage(e) /\ e.intent.op \in Operations
            /\ f.intent = e.intent /\ e.pc # "insert"
        BY <1>4, <2>1, <2>3, <2>5
      <4>2. Reviewed(f)
        BY <4>1 DEF StepsTo, Reviewed, Stage, FirstStep, AfterReview, Operations
      <4> QED
        BY <4>2
    <3> QED
      BY <1>4, <3>1, <3>2 DEF Reviewed
  <2> QED
    BY <2>4, <2>5
<1> QED
  BY <1>2, <1>3, <1>4, CallMoves DEF InFlight

(* ReviewInv survives a step of a call where clients wait for answers.     *)
LEMMA ReviewInvHandled ==
    ASSUME TypeInv, ReviewInv, ~ClientTimesOut, NEW c \in Calls, Handle(c)
    PROVE  ReviewInv'
<1>1. Alone'
  BY AloneHandled DEF ReviewInv
<1>2. \A n \in DOMAIN journal' : journal'[n].kind = "request" => journal'[n].by # AutoReviewer
  <2>1. CASE UNCHANGED journal
    BY <2>1 DEF ReviewInv
  <2>2. CASE calls[c] \in Call /\ Submits(calls[c])
    <3>1. calls[c].intent.agent # AutoReviewer
      BY <2>2, IntakeAssumption DEF Call, Intent
    <3>2. PICK row, C : Extended(row, C) /\ (row.kind = "request" => row.by # AutoReviewer)
      BY <2>2, <3>1 DEF Submits, Request, Verdict
    <3>3. journal \in Seq(JournalRow)
      BY DEF TypeInv, TypeOK
    <3>4. DOMAIN journal' = 1..(Len(journal) + 1) /\ DOMAIN journal = 1..Len(journal)
          /\ Len(journal) \in Nat
      BY <3>2, <3>3 DEF Extended
    <3> QED
      BY <3>2, <3>4 DEF Extended, ReviewInv
  <2> QED
    BY <2>1, <2>2, JournalWrites
<1> QED
  BY <1>1, <1>2, ReviewedHandled DEF ReviewInv

(* The row a call at its insertion appends, and what it found before that.  *)
LEMMA RowSubmitted ==
    ASSUME TypeInv, ReviewInv, NEW c \in Calls, calls[c] \in Call, calls[c].pc = "insert",
           Submits(calls[c])
    PROVE  \E row \in JournalRow, C \in SUBSET Targets :
              /\ Extended(row, C)
              /\ row.kind = "request" => row.active /\ C = {}
              /\ row.kind = "verdict" =>
                    /\ C = {row.target}
                    /\ ~RequestedBy(journal, row.target, row.by)
                    /\ row.by = AutoReviewer =>
                          /\ HasRequest(journal, row.target)
                          /\ row.failed \in PossibleFindings(row.target)
                          /\ row.verdict = AggregateVerdict(row.failed, Blockers(row.target))
<1> DEFINE k == calls[c]
           i == k.intent
           t == i.target
<1>1. /\ i.agent \in Agents /\ i.agent # AutoReviewer /\ t \in Targets /\ i.choice \in Verdicts
      /\ k.late \in BOOLEAN /\ k.failed \subseteq PlanChecks \cup GraduationChecks
  BY IntakeAssumption DEF Call, Intent
<1>2. Reviewed(k)
  BY DEF ReviewInv, InFlight, Call, Idle
<1>3. CASE i.op = "request" /\ Extended(Request(t, i.agent, k.late), {})
  <2>1. /\ Request(t, i.agent, k.late) \in JournalRow
        /\ Request(t, i.agent, k.late).kind = "request" /\ Request(t, i.agent, k.late).active
    BY <1>1 DEF Request, JournalRow
  <2> QED
    BY <1>3, <2>1
<1>4. CASE i.op = "verdict" /\ Extended(Verdict(t, i.agent, i.choice, {}, k.late), {t})
  <2> DEFINE row == Verdict(t, i.agent, i.choice, {}, k.late)
  <2>1. row \in JournalRow /\ row.kind = "verdict" /\ row.target = t /\ row.by = i.agent
    BY <1>1 DEF Verdict, JournalRow
  <2>2. ~RequestedBy(journal, t, i.agent)
    BY <1>2, <1>4 DEF Reviewed
  <2>3. Extended(row, {row.target}) /\ ~RequestedBy(journal, row.target, row.by)
    BY <1>4, <2>1, <2>2
  <2>4. row.by # AutoReviewer
    BY <1>1, <2>1
  <2>5. {row.target} \in SUBSET Targets
    BY <1>1, <2>1
  <2> HIDE DEF row
  <2> QED
    BY <2>1, <2>3, <2>4, <2>5
<1>5. CASE /\ i.op = "auto"
           /\ Extended(Verdict(t, AutoReviewer, AggregateVerdict(k.failed, Blockers(t)),
                               k.failed, k.late), {t})
  <2> DEFINE v == AggregateVerdict(k.failed, Blockers(t))
             row == Verdict(t, AutoReviewer, v, k.failed, k.late)
  <2>1. v \in Verdicts
    BY DEF AggregateVerdict, Verdicts
  <2>2. /\ row \in JournalRow /\ row.kind = "verdict" /\ row.target = t
        /\ row.by = AutoReviewer /\ row.failed = k.failed /\ row.verdict = v
    <3> HIDE DEF v, t
    <3> QED
      BY <1>1, <2>1 DEF Verdict, JournalRow
  <2>3. HasRequest(journal, t) /\ k.failed \in PossibleFindings(t)
    BY <1>2, <1>5 DEF Reviewed
  <2>4. ~RequestedBy(journal, t, AutoReviewer)
    <3> DEFINE asked == RowsOf(journal, "request", t)
    <3>1. Len(journal) \in Nat /\ DOMAIN journal = 1..Len(journal)
      BY DEF TypeInv, TypeOK
    <3>2. asked \in SUBSET (1..Len(journal)) /\ asked # {}
      BY <2>3 DEF RowsOf, HasRequest
    <3>3. Latest(asked) \in asked
      <4> HIDE DEF asked
      <4> QED
        BY <3>1, <3>2, LatestRow
    <3>4. Latest(asked) \in DOMAIN journal /\ journal[Latest(asked)].kind = "request"
      BY <3>1, <3>3 DEF RowsOf
    <3> QED
      BY <3>4 DEF ReviewInv, RequestedBy
  <2>5. Extended(row, {row.target})
    BY <1>5, <2>2
  <2> HIDE DEF row, v, t
  <2>6. row.verdict = AggregateVerdict(row.failed, Blockers(row.target))
    BY <2>2 DEF v
  <2>7. {row.target} \in SUBSET Targets
    BY <1>1, <2>2 DEF t
  <2> QED
    BY <2>2, <2>3, <2>4, <2>5, <2>6, <2>7
<1> QED
  BY <1>3, <1>4, <1>5 DEF Submits

(* What the rows on file say of each other is not changed by a new one.     *)
LEMMA OldRows ==
    ASSUME journal \in Seq(JournalRow), NEW row, NEW C, Extended(row, C), NEW kind, NEW t,
           NEW n \in 1..Len(journal)
    PROVE  /\ {m \in RowsOf(journal', kind, t) : m < n} = {m \in RowsOf(journal, kind, t) : m < n}
           /\ DOMAIN journal' = 1..(Len(journal) + 1) /\ DOMAIN journal = 1..Len(journal)
           /\ Len(journal) \in Nat
           /\ n \in DOMAIN journal /\ n \in DOMAIN journal'
<1>1. /\ Len(journal) \in Nat /\ DOMAIN journal = 1..Len(journal)
      /\ DOMAIN journal' = 1..(Len(journal) + 1)
  BY DEF Extended
<1>2. RowsOf(journal', kind, t) =
         RowsOf(journal, kind, t) \cup
           (IF row.kind = kind /\ row.target = t THEN {Len(journal) + 1} ELSE {})
  BY RowsExtended
<1> PICK old, new : old = RowsOf(journal, kind, t) /\ new = RowsOf(journal', kind, t)
  OBVIOUS
<1>3. {m \in new : m < n} = {m \in old : m < n}
  BY <1>1, <1>2
<1> QED
  BY <1>1, <1>3

(* A new row leaves pending what it does not answer.                       *)
LEMMA PendingKept ==
    ASSUME TypeInv, PendingIsUnanswered, NEW row \in JournalRow, NEW C, Extended(row, C),
           row.kind = "request" => row.active /\ C = {},
           row.kind = "verdict" => C = {row.target}
    PROVE  PendingIsUnanswered'
<1> SUFFICES ASSUME NEW n \in DOMAIN journal', journal'[n].kind = "request"
             PROVE  journal'[n].active <=>
                       \A m \in RowsOf(journal', "verdict", journal'[n].target) : m < n
  BY DEF PendingIsUnanswered
<1>1. journal \in Seq(JournalRow)
  BY DEF TypeInv, TypeOK
<1>2. /\ Len(journal) \in Nat /\ DOMAIN journal = 1..Len(journal)
      /\ DOMAIN journal' = 1..(Len(journal) + 1)
  BY <1>1 DEF Extended
<1> PICK t : t = journal'[n].target
  OBVIOUS
<1> DEFINE old == RowsOf(journal, "verdict", t)
           new == RowsOf(journal', "verdict", t)
<1>3. new = old \cup (IF row.kind = "verdict" /\ row.target = t THEN {Len(journal) + 1} ELSE {})
  BY <1>1, RowsExtended
<1>4. old \subseteq 1..Len(journal)
  BY DEF RowsOf
<1>5. CASE n = Len(journal) + 1
  <2>1. row.kind = "request" /\ journal'[n].active = row.active
    BY <1>5 DEF Extended
  <2>2. new = old
    BY <1>3, <2>1
  <2>3. \A m \in new : m < n
    <3> HIDE DEF old, new
    <3> QED
      BY <1>2, <1>4, <1>5, <2>2
  <2> QED
    BY <2>1, <2>3
<1>6. CASE n \in 1..Len(journal)
  <2>1. /\ journal[n].kind = "request" /\ journal[n].target = t
        /\ journal'[n].active = (journal[n].active /\ t \notin C)
    BY <1>6 DEF Extended
  <2>2. journal[n].active <=> \A m \in old : m < n
    BY <1>2, <1>6, <2>1 DEF PendingIsUnanswered
  <2>3. row.kind \in {"request", "verdict"}
    BY DEF JournalRow
  <2>4. CASE row.kind = "verdict" /\ row.target = t
    <3>1. t \in C /\ Len(journal) + 1 \in new
      BY <1>3, <2>4
    <3>2. ~(Len(journal) + 1 < n)
      BY <1>2, <1>6
    <3> HIDE DEF old, new
    <3>3. ~\A m \in new : m < n
      BY <3>1, <3>2
    <3>4. ~journal'[n].active
      BY <2>1, <3>1
    <3> QED
      BY <3>3, <3>4 DEF new
  <2>5. CASE ~(row.kind = "verdict" /\ row.target = t)
    <3>1. t \notin C /\ new = old
      BY <1>3, <2>3, <2>5
    <3> HIDE DEF old, new
    <3>2. journal'[n].active <=> \A m \in new : m < n
      BY <2>1, <2>2, <3>1
    <3> QED
      BY <3>2 DEF new
  <2> QED
    BY <2>4, <2>5
<1> QED
  BY <1>2, <1>5, <1>6

(* A new verdict is not its requester's, and those on file stay so.        *)
LEMMA SelfReviewKept ==
    ASSUME TypeInv, NoSelfReview, NEW row \in JournalRow, NEW C, Extended(row, C),
           row.kind = "verdict" => ~RequestedBy(journal, row.target, row.by)
    PROVE  NoSelfReview'
<1>1. journal \in Seq(JournalRow)
  BY DEF TypeInv, TypeOK
<1>2. /\ Len(journal) \in Nat /\ DOMAIN journal = 1..Len(journal)
      /\ DOMAIN journal' = 1..(Len(journal) + 1)
  BY <1>1 DEF Extended
<1>3. ASSUME NEW S \in SUBSET (1..Len(journal)), S # {}
      PROVE  journal'[Latest(S)].by = journal[Latest(S)].by
  <2>1. Latest(S) \in 1..Len(journal)
    BY <1>2, <1>3, LatestRow
  <2> QED
    BY <2>1 DEF Extended
<1> SUFFICES ASSUME NEW n \in DOMAIN journal', NEW asked,
                    asked = {m \in RowsOf(journal', "request", journal'[n].target) : m < n},
                    journal'[n].kind = "verdict", asked # {}
             PROVE  journal'[Latest(asked)].by # journal'[n].by
  BY DEF NoSelfReview
<1> PICK t : t = journal'[n].target
  OBVIOUS
<1>4. CASE n = Len(journal) + 1
  <2>1. row.kind = "verdict" /\ row.target = t /\ journal'[n].by = row.by
    BY <1>4 DEF Extended
  <2> PICK old, new : old = RowsOf(journal, "request", t) /\ new = RowsOf(journal', "request", t)
    OBVIOUS
  <2>2. new = old
    <3>1. new = old \cup (IF row.kind = "request" /\ row.target = t
                          THEN {Len(journal) + 1} ELSE {})
      BY <1>1, RowsExtended
    <3> QED
      BY <2>1, <3>1
  <2>3. old \subseteq 1..Len(journal)
    BY DEF RowsOf
  <2>4. asked = old
    BY <1>2, <1>4, <2>2, <2>3
  <2>5. journal[Latest(asked)].by # row.by
    BY <2>1, <2>4 DEF RequestedBy
  <2> QED
    BY <1>3, <2>1, <2>3, <2>4, <2>5
<1>5. CASE n \in 1..Len(journal)
  <2>1. /\ journal[n].kind = "verdict" /\ journal[n].target = t
        /\ journal'[n].by = journal[n].by
    BY <1>5 DEF Extended
  <2>2. asked = {m \in RowsOf(journal, "request", t) : m < n}
    BY <1>1, <1>5, OldRows
  <2>3. journal[Latest(asked)].by # journal[n].by
    BY <1>2, <1>5, <2>1, <2>2 DEF NoSelfReview
  <2>4. asked \subseteq 1..Len(journal)
    BY <2>2 DEF RowsOf
  <2> QED
    BY <1>3, <2>1, <2>3, <2>4
<1> QED
  BY <1>2, <1>4, <1>5

(* A passing verdict of the checklist failed nothing that blocks.           *)
LEMMA PassingIsEarned ==
    ASSUME NEW t \in Targets, NEW failed \in PossibleFindings(t),
           AggregateVerdict(failed, Blockers(t)) \in PassingGate
    PROVE  /\ TargetKind[t] = "plan" => Hypothesis[t] # "none"
           /\ TargetTrack[t] = "hedging" => failed \cap HedgingBlockers = {}
<1>1. failed \cap Blockers(t) = {}
  BY DEF AggregateVerdict, PassingGate
<1>2. CASE TargetKind[t] = "plan"
  <2>1. PICK recentlyFailed \in BOOLEAN : failed = FailedPlanChecks(Hypothesis[t], recentlyFailed)
    BY <1>2 DEF PossibleFindings
  <2>2. "pre_registration" \notin failed
    BY <1>1, <1>2 DEF Blockers
  <2>3. Hypothesis[t] # "none"
    BY <2>1, <2>2 DEF FailedPlanChecks, PlanChecks
  <2>4. failed \cap HedgingBlockers = {}
    BY <2>1 DEF FailedPlanChecks, PlanChecks, HedgingBlockers
  <2> QED
    BY <2>3, <2>4
<1>3. CASE TargetKind[t] # "plan"
  BY <1>1, <1>3 DEF Blockers
<1> QED
  BY <1>2, <1>3

(* A new verdict of the automatic reviewer is earned; the others stay so.  *)
LEMMA EarnedKept ==
    ASSUME TypeInv, AutoVerdictIsEarned, NEW row \in JournalRow, NEW C, Extended(row, C),
           row.kind = "request" => row.by # AutoReviewer,
           row.kind = "verdict" /\ row.by = AutoReviewer =>
              /\ HasRequest(journal, row.target)
              /\ row.failed \in PossibleFindings(row.target)
              /\ row.verdict = AggregateVerdict(row.failed, Blockers(row.target))
    PROVE  AutoVerdictIsEarned'
<1>1. journal \in Seq(JournalRow)
  BY DEF TypeInv, TypeOK
<1>2. /\ Len(journal) \in Nat /\ DOMAIN journal = 1..Len(journal)
      /\ DOMAIN journal' = 1..(Len(journal) + 1)
  BY <1>1 DEF Extended
<1> SUFFICES ASSUME NEW n \in DOMAIN journal', NEW v, v = journal'[n],
                    v.by = AutoReviewer, v.verdict \in PassingGate
             PROVE  /\ \E m \in RowsOf(journal', "request", v.target) : m < n
                    /\ TargetKind[v.target] = "plan" => Hypothesis[v.target] # "none"
                    /\ TargetTrack[v.target] = "hedging" => v.failed \cap HedgingBlockers = {}
  BY DEF AutoVerdictIsEarned
<1>3. RowsOf(journal, "request", v.target) \subseteq RowsOf(journal', "request", v.target)
  BY <1>1, RowsExtended
<1>4. CASE n = Len(journal) + 1
  <2>1. v = row
    BY <1>4 DEF Extended
  <2>2. /\ row.kind = "verdict" /\ row.target \in Targets
    BY <2>1 DEF JournalRow
  <2>3. \E m \in RowsOf(journal, "request", v.target) : m < n
    <3>1. PICK m : m \in RowsOf(journal, "request", v.target)
      BY <2>1, <2>2 DEF HasRequest
    <3>2. m \in 1..Len(journal)
      BY <3>1 DEF RowsOf
    <3>3. m < n
      BY <1>2, <1>4, <3>2
    <3> QED
      BY <3>1, <3>3
  <2> QED
    BY <1>3, <2>1, <2>2, <2>3, PassingIsEarned
<1>5. CASE n \in 1..Len(journal)
  <2> PICK u : u = journal[n]
    OBVIOUS
  <2>1. /\ u.by = v.by /\ u.verdict = v.verdict /\ u.target = v.target /\ u.failed = v.failed
    BY <1>5 DEF Extended
  <2>2. /\ \E m \in RowsOf(journal, "request", u.target) : m < n
        /\ TargetKind[u.target] = "plan" => Hypothesis[u.target] # "none"
        /\ TargetTrack[u.target] = "hedging" => u.failed \cap HedgingBlockers = {}
    BY <1>2, <1>5, <2>1 DEF AutoVerdictIsEarned
  <2> QED
    BY <1>3, <2>1, <2>2
<1> QED
  BY <1>2, <1>4, <1>5

(* What is pending is open, no agent judges its own latest request, and the *)
(* automatic reviewer approves only what it may, where a client waits for   *)
(* the answer to one call before it makes the next (repo/reviews.py,        *)
(* api/reviews.py, services/review.py).                                    *)
THEOREM ReviewsCanBeTrusted ==
    ASSUME ~ClientTimesOut
    PROVE  Spec => []ReviewsAreSound
<1> DEFINE Inv == TypeInv /\ ReviewInv /\ ReviewsAreSound
<1>1. Init => Inv
  BY TypeInvInit DEF Init, ReviewInv, Alone, InFlight, ReviewsAreSound, PendingIsUnanswered,
     NoSelfReview, AutoVerdictIsEarned
<1>2. Inv /\ [Next]_vars => Inv'
  <2> SUFFICES ASSUME Inv, [Next]_vars
               PROVE  Inv'
    OBVIOUS
  <2>1. TypeInv'
    BY TypeInvStep
  <2>2. ASSUME NEW c \in Calls, Handle(c)
        PROVE  ReviewsAreSound'
    <3>1. CASE UNCHANGED journal
      BY <3>1 DEF ReviewsAreSound, PendingIsUnanswered, NoSelfReview, AutoVerdictIsEarned
    <3>2. CASE calls[c] \in Call /\ calls[c].pc = "insert" /\ Submits(calls[c])
      <4>1. PICK row \in JournalRow, C \in SUBSET Targets :
               /\ Extended(row, C)
               /\ row.kind = "request" => row.active /\ C = {}
               /\ row.kind = "verdict" =>
                     /\ C = {row.target}
                     /\ ~RequestedBy(journal, row.target, row.by)
                     /\ row.by = AutoReviewer =>
                           /\ HasRequest(journal, row.target)
                           /\ row.failed \in PossibleFindings(row.target)
                           /\ row.verdict = AggregateVerdict(row.failed, Blockers(row.target))
        BY <2>2, <3>2, RowSubmitted
      <4>2. row.kind = "request" => row.by # AutoReviewer
        <5>1. ReviewInv'
          BY <2>2, ReviewInvHandled
        <5>2. Len(journal) + 1 \in DOMAIN journal'
          <6>1. Len(journal) \in Nat
            BY DEF TypeInv, TypeOK
          <6> QED
            BY <4>1, <6>1 DEF Extended
        <5> QED
          BY <4>1, <5>1, <5>2 DEF ReviewInv, Extended
      <4>3. PendingIsUnanswered'
        BY <4>1, PendingKept DEF ReviewsAreSound
      <4>4. NoSelfReview'
        BY <4>1, SelfReviewKept DEF ReviewsAreSound
      <4>5. AutoVerdictIsEarned'
        BY <4>1, <4>2, EarnedKept DEF ReviewsAreSound
      <4> QED
        BY <4>3, <4>4, <4>5 DEF ReviewsAreSound
    <3> QED
      BY <2>2, <3>1, <3>2, JournalWrites
  <2>3. CASE \E c \in Calls : Handle(c)
    BY <2>1, <2>2, <2>3, ReviewInvHandled
  <2>4. CASE \E n \in DOMAIN work : SweepDiscarded(n)
    BY <2>1, <2>4 DEF SweepDiscarded, tables, ReviewInv, Alone, InFlight, Reviewed,
       ReviewsAreSound, PendingIsUnanswered, NoSelfReview, AutoVerdictIsEarned
  <2>5. CASE Crash
    <3>1. /\ UNCHANGED journal
          /\ \A c \in Calls : ~InFlight(c)'
      BY <2>5 DEF Crash, tables, InFlight
    <3> QED
      BY <2>1, <3>1 DEF ReviewInv, Alone, ReviewsAreSound, PendingIsUnanswered, NoSelfReview,
         AutoVerdictIsEarned
  <2>6. CASE UNCHANGED vars
    BY <2>1, <2>6 DEF vars, tables, ReviewInv, Alone, InFlight, Reviewed,
       ReviewsAreSound, PendingIsUnanswered, NoSelfReview, AutoVerdictIsEarned
  <2> QED
    BY <2>3, <2>4, <2>5, <2>6 DEF Next
<1>3. Inv => ReviewsAreSound
  OBVIOUS
<1> QED
  BY <1>1, <1>2, <1>3, PTL DEF Spec

---------------------------------------------------------------------------
(* Gates *)

(* A verdict that governs the rows up to n keeps governing them.            *)
LEMMA GovernsStays ==
    ASSUME TypeInv, NEW c \in Calls, Handle(c), NEW t, NEW n \in Nat, n <= Len(journal),
           Governs(t, n)
    PROVE  Governs(t, n)'
<1>1. CASE UNCHANGED journal
  BY <1>1 DEF Governs
<1>2. CASE Submits(calls[c])
  <2>1. journal \in Seq(JournalRow) /\ Len(journal) \in Nat
    BY DEF TypeInv, TypeOK
  <2>2. PICK row, C : Extended(row, C)
    BY <1>2 DEF Submits
  <2> PICK old, new : old = RowsOf(journal, "verdict", t) /\ new = RowsOf(journal', "verdict", t)
    OBVIOUS
  <2>3. new = old \cup (IF row.kind = "verdict" /\ row.target = t THEN {Len(journal) + 1} ELSE {})
    BY <2>1, <2>2, RowsExtended
  <2>4. PICK v \in old : journal[v].verdict \in PassingGate /\ \A m \in old : m <= n => m <= v
    BY DEF Governs
  <2>5. v \in 1..Len(journal) /\ journal'[v].verdict = journal[v].verdict
    BY <2>2, <2>4 DEF RowsOf, Extended
  <2>6. \A m \in new : m <= n => m <= v
    BY <2>1, <2>3, <2>4
  <2> QED
    BY <2>3, <2>4, <2>5, <2>6 DEF Governs
<1> QED
  BY <1>1, <1>2, JournalWrites

(* The gate lets a call through on the latest verdict there is.             *)
LEMMA GateFindsVerdict ==
    ASSUME TypeInv, NEW i, PassesReviewGate(i), NEW n
    PROVE  "review" \in i.bypass \/ Governs(i.target, n)
<1> SUFFICES ASSUME "review" \notin i.bypass
             PROVE  Governs(i.target, n)
  OBVIOUS
<1> PICK on : on = RowsOf(journal, "verdict", i.target)
  OBVIOUS
<1>1. on # {} /\ journal[Latest(on)].verdict \in PassingGate
  BY DEF PassesReviewGate, LatestVerdict, PassingGate
<1>2. Len(journal) \in Nat /\ on \in SUBSET (1..Len(journal))
  BY DEF TypeInv, TypeOK, RowsOf
<1>3. Latest(on) \in on /\ \A m \in on : m <= Latest(on)
  BY <1>1, <1>2, LatestRow
<1> QED
  BY <1>1, <1>3 DEF Governs

(* What the gates found is still so after any step of a call.               *)
LEMMA GatedHandled ==
    ASSUME TypeInv, GateInv, NEW c \in Calls, Handle(c), NEW d \in Calls, InFlight(d)'
    PROVE  Gated(calls[d])'
<1> DEFINE k == calls[c]
           l == calls'[c]
<1>1. UNCHANGED discards
  BY WorkWrites
<1>2. ASSUME NEW e \in Call, Gated(e), Stage(e)
      PROVE  Gated(e)'
  <2>1. e.began \in Nat /\ e.began <= Len(journal)
    BY <1>2 DEF Call, Stage
  <2>2. Governs(e.intent.target, e.began) => Governs(e.intent.target, e.began)'
    <3> PICK t, n : t = e.intent.target /\ n = e.began
      OBVIOUS
    <3>1. Governs(t, n) => Governs(t, n)'
      BY <2>1, GovernsStays
    <3> QED
      BY <3>1
  <2> QED
    BY <1>1, <1>2, <2>2 DEF Gated, AxisHasDiscard
<1>3. CASE d # c
  <2>1. calls'[d] = calls[d] /\ InFlight(d)
    BY <1>3, HandleGrows DEF InFlight
  <2>2. Gated(calls[d]) /\ calls[d] \in Call /\ Stage(calls[d])
    BY <2>1, CallFacts DEF GateInv
  <2> PICK e : e = calls[d]
    OBVIOUS
  <2>3. Gated(e)'
    BY <1>2, <2>2
  <2> QED
    BY <2>1, <2>3 DEF Gated
<1>4. CASE d = c /\ \E i \in Intents : Arrive(c, i)
  <2>1. PICK i \in Intents : Arrive(c, i)
    BY <1>4
  <2>2. /\ l.pc = "lookup" /\ l.intent = i
        /\ l.barred = AxisHasDiscard(i.target, i.track)
    BY <2>1, CallArrives
  <2> QED
    BY <1>1, <1>4, <2>2 DEF Gated, AxisHasDiscard
<1>5. CASE d = c /\ Continues(k, l) /\ StepsTo(k, l)
  <2>1. k \in Call /\ l.intent = k.intent /\ l.began = k.began /\ l.barred = k.barred
    BY <1>5 DEF Continues
  <2>2. InFlight(c)
    BY <2>1 DEF InFlight, Call, Idle
  <2>3. Gated(k) /\ Stage(k) /\ k.intent.op \in Operations
    BY <2>2, CallFacts, IntakeAssumption DEF GateInv, Intent
  <2>4. Gated(l) /\ Stage(l)
    <3> PICK e, f : e = k /\ f = l
      OBVIOUS
    <3>1. /\ StepsTo(e, f) /\ Gated(e) /\ Stage(e) /\ e.intent.op \in Operations
          /\ f.intent = e.intent /\ f.began = e.began /\ f.barred = e.barred
      BY <1>5, <2>1, <2>3
    <3>2. e.pc = "review" /\ PassesReviewGate(e.intent) =>
             "review" \in e.intent.bypass \/ Governs(e.intent.target, e.began)
      BY GateFindsVerdict
    <3>3. f.intent.op \in {"queue", "walk"} /\ f.pc \in {"discard", "insert"} =>
             "review" \in f.intent.bypass \/ Governs(f.intent.target, f.began)
      BY <3>1, <3>2 DEF StepsTo, Gated, Stage, FirstStep, Operations
    <3>4. f.intent.op = "queue" /\ f.pc = "insert" /\ f.barred => "discard" \in f.intent.bypass
      BY <3>1 DEF StepsTo, Gated, Stage, FirstStep, AfterReview, PassesDiscardGate, Operations
    <3>5. f.barred => AxisHasDiscard(f.intent.target, f.intent.track)
      BY <3>1 DEF Gated
    <3>6. Gated(f)
      BY <3>3, <3>4, <3>5 DEF Gated
    <3>7. Stage(f)
      BY <3>1 DEF StepsTo, Stage, FirstStep, AfterReview, Operations
    <3> QED
      BY <3>6, <3>7
  <2> PICK f : f = l
    OBVIOUS
  <2>5. Gated(f)'
    BY <1>2, <1>5, <2>4 DEF Continues
  <2> QED
    BY <1>5, <2>5 DEF Gated
<1> QED
  BY <1>3, <1>4, <1>5, CallMoves DEF InFlight

(* A row of admitted work that got past the gates of its time.              *)
Justified(row) ==
    /\ row.began <= Len(journal)
    /\ "review" \notin row.intent.bypass => Governs(row.intent.target, row.began)
    /\ row.intent.op = "queue" /\ row.barred => "discard" \in row.intent.bypass

(* The gates are a property of every row of work by itself.                 *)
LEMMA GatesAreRows ==
    ASSUME GateInv, GatesHold
    PROVE  \A w \in DOMAIN work : Justified(work[w])
  BY DEF GateInv, GatesHold, LatestVerdictGoverns, DiscardedAxesStayOut, Justified, Governs

(* Every row of work after a step of a call got past its gates.            *)
LEMMA AdmittedAreJustified ==
    ASSUME TypeInv, GateInv, GatesHold, NEW c \in Calls, Handle(c), NEW w \in DOMAIN work'
    PROVE  Justified(work[w])'
<1>1. /\ work \in Seq(WorkRow) /\ work' \in Seq(WorkRow)
      /\ \A n \in DOMAIN work : Justified(work[n])
  BY WorkWrites, GatesAreRows DEF TypeInv, TypeOK
<1>2. Len(journal) \in Nat /\ Len(journal') \in Nat /\ Len(journal) <= Len(journal')
  BY HandleGrows
<1>3. ASSUME NEW row \in WorkRow, Justified(row)
      PROVE  Justified(row)'
  <2>1. row.began \in Nat /\ row.began <= Len(journal)
    BY <1>3 DEF WorkRow, Justified
  <2> PICK t, n : t = row.intent.target /\ n = row.began
    OBVIOUS
  <2>2. Governs(t, n) => Governs(t, n)'
    BY <2>1, GovernsStays
  <2>3. row.began <= Len(journal')
    BY <1>2, <2>1
  <2> QED
    BY <1>3, <2>2, <2>3 DEF Justified
<1>4. CASE w \in DOMAIN work /\ work'[w] = work[w]
  <2> PICK row : row = work[w]
    OBVIOUS
  <2>1. row \in WorkRow /\ Justified(row)
    BY <1>1, <1>4, ElementOfSeq
  <2>2. Justified(row)'
    BY <1>3, <2>1
  <2> QED
    BY <1>4, <2>2 DEF Justified
<1>5. CASE /\ calls[c] \in Call /\ calls[c].pc = "insert"
           /\ calls[c].intent.op \in {"queue", "walk"}
           /\ work'[w] = WorkOf(calls[c])
  <2> PICK k : k = calls[c]
    OBVIOUS
  <2>1. k \in Call /\ k.pc = "insert" /\ k.intent.op \in {"queue", "walk"}
    BY <1>5
  <2>2. Gated(k) /\ Stage(k)
    <3>1. InFlight(c)
      BY <2>1 DEF InFlight, Call, Idle
    <3> QED
      BY <3>1, CallFacts DEF GateInv
  <2> PICK row : row = WorkOf(k)
    OBVIOUS
  <2>3. row \in WorkRow
    BY <2>1 DEF WorkOf, WorkRow, Call
  <2>4. Justified(row)
    BY <2>1, <2>2 DEF WorkOf, Justified, Gated, Stage
  <2>5. Justified(row)'
    BY <1>3, <2>3, <2>4
  <2> QED
    BY <1>5, <2>5 DEF Justified
<1>6. DOMAIN work = 1..Len(work) /\ DOMAIN work' = 1..Len(work') /\ Len(work) \in Nat
  BY <1>1
<1>7. CASE UNCHANGED work
  BY <1>4, <1>7
<1>8. CASE /\ calls[c] \in Call /\ calls[c].pc = "insert"
           /\ calls[c].intent.op \in {"queue", "walk"}
           /\ Len(work') = Len(work) + 1 /\ work'[Len(work) + 1] = WorkOf(calls[c])
           /\ \A n \in 1..Len(work) : work'[n] = work[n]
  <2>1. w \in 1..Len(work) \/ w = Len(work) + 1
    BY <1>6, <1>8
  <2> QED
    BY <1>4, <1>5, <1>6, <1>8, <2>1
<1> QED
  BY <1>7, <1>8, WorkWrites

(* No gate forgets, and nothing that is discarded comes back.               *)
LEMMA DiscardKeepsGates ==
    ASSUME TypeInv, GateInv, GatesHold, NEW n \in DOMAIN work, SweepDiscarded(n)
    PROVE  GateInv' /\ GatesHold'
<1>1. UNCHANGED <<journal, work, calls>> /\ discards \subseteq discards'
  BY DEF SweepDiscarded, tables
<1>2. \A t, track : AxisHasDiscard(t, track) => AxisHasDiscard(t, track)'
  BY <1>1 DEF AxisHasDiscard
<1>3. \A c \in Calls : InFlight(c)' => Gated(calls[c])'
  BY <1>1, <1>2 DEF GateInv, Gated, Governs, InFlight
<1> QED
  BY <1>1, <1>3 DEF GateInv, GatesHold, LatestVerdictGoverns, DiscardedAxesStayOut

(* Work that was not forced through rests on a passing verdict that no      *)
(* verdict on record at its arrival comes after, and on axes that were not  *)
(* written off by then, however calls overlap, clients retry and the server *)
(* restarts (api/queue.py, enqueue; api/walk_forward.py).                   *)
THEOREM GatesAlwaysHold == Spec => []GatesHold
<1> DEFINE Inv == TypeInv /\ GateInv /\ GatesHold
<1>1. Init => Inv
  BY TypeInvInit DEF Init, GateInv, InFlight, GatesHold, LatestVerdictGoverns, DiscardedAxesStayOut
<1>2. Inv /\ [Next]_vars => Inv'
  <2> SUFFICES ASSUME Inv, [Next]_vars
               PROVE  Inv'
    OBVIOUS
  <2>1. TypeInv'
    BY TypeInvStep
  <2>2. ASSUME NEW c \in Calls, Handle(c)
        PROVE  GateInv' /\ GatesHold'
    <3>1. \A d \in Calls : InFlight(d)' => Gated(calls[d])'
      BY <2>2, GatedHandled
    <3>2. \A w \in DOMAIN work' : Justified(work[w])'
      BY <2>2, AdmittedAreJustified
    <3> QED
      BY <3>1, <3>2 DEF GateInv, GatesHold, LatestVerdictGoverns, DiscardedAxesStayOut,
         Justified, Governs
  <2>3. CASE \E c \in Calls : Handle(c)
    BY <2>1, <2>2, <2>3
  <2>4. CASE \E n \in DOMAIN work : SweepDiscarded(n)
    BY <2>1, <2>4, DiscardKeepsGates
  <2>5. CASE Crash
    <3>1. /\ UNCHANGED <<journal, work>>
          /\ \A c \in Calls : ~InFlight(c)'
      BY <2>5 DEF Crash, tables, InFlight
    <3> QED
      BY <2>1, <3>1 DEF GateInv, GatesHold, LatestVerdictGoverns, DiscardedAxesStayOut
  <2>6. CASE UNCHANGED vars
    BY <2>1, <2>6 DEF vars, tables, GateInv, InFlight, Gated, Governs, AxisHasDiscard,
       GatesHold, LatestVerdictGoverns, DiscardedAxesStayOut
  <2> QED
    BY <2>3, <2>4, <2>5, <2>6 DEF Next
<1>3. Inv => GatesHold
  OBVIOUS
<1> QED
  BY <1>1, <1>2, <1>3, PTL DEF Spec
=============================================================================
