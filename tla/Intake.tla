------------------------------- MODULE Intake -------------------------------
(***************************************************************************)
(* What an agent has to go through before the orchestrator spends backtest *)
(* time: POST /reviews/request, POST /reviews, POST                        *)
(* /reviews/auto-run-checklist, POST /queue and POST /walk-forward, each   *)
(* behind the Idempotency-Key cache of services/idempotency.py.            *)
(*                                                                         *)
(* A call is a coroutine of the single-worker server: every await of the   *)
(* handler (the cache, each query) is a step, and the steps of concurrent  *)
(* calls interleave.  The server may die between any two of them.          *)
(***************************************************************************)
EXTENDS Reviews

CONSTANTS
    Agents,         \* the identities that X-Agent-Name carries
    AutoReviewer,   \* AUTO_REVIEWER_AGENT
    Axes,           \* axis sets (strategy and parameter names, hashed)
    AxesOf,         \* the axis set of a plan; a graduation has none that matters
    Keys, NoKey,    \* Idempotency-Key values, and its absence
    Intents,        \* the calls agents make; a retry is the same intent again
    GraduationFails,\* the findings the statistics of an iteration may come to
    Calls,          \* slots for calls in flight
    ClientTimesOut, \* may a client start over while its call is still running?
    Durable,        \* PostgresIdempotencyStore (prod), else the in-memory one
    MaxCalls,       \* bound on the number of calls
    MaxCrashes      \* bound on the number of crashes

Operations == {"request", "verdict", "auto", "queue", "walk"}
Gates == {"review", "discard"}

(* choice is the verdict in the body of POST /reviews; bypass names the    *)
(* gates that an override flag of POST /queue or POST /walk-forward turns  *)
(* off, both of them for a sweep without parameters and the review gate    *)
(* for a pool candidate, which the code does not hold to them either.      *)
Intent == [agent : Agents, op : Operations, target : Targets, key : Keys \cup {NoKey},
           track : Tracks, choice : Verdicts, bypass : SUBSET Gates]

ASSUME IntakeAssumption ==
    /\ AutoReviewer \notin Agents
    /\ AxesOf \in [Targets -> Axes]
    /\ NoKey \notin Keys
    /\ Intents \subseteq Intent
    /\ \A i \in Intents : /\ i.op = "queue" => TargetKind[i.target] = "plan"
                          /\ i.op = "walk" => TargetKind[i.target] = "graduation"
    /\ GraduationFails \subseteq SUBSET GraduationChecks
    /\ ClientTimesOut \in BOOLEAN
    /\ Durable \in BOOLEAN
    /\ MaxCalls \in Nat
    /\ MaxCrashes \in Nat

VARIABLES
    journal,    \* review rows of research_journal
    work,       \* what was admitted: research_queue rows and walk-forwards begun
    discards,   \* DISCARD rows of hypothesis_audit, as [axes, track]
    cache,      \* idempotency records: agent, route and key to the row answered
    answered,   \* the records whose answer the server has sent (history)
    calls,      \* the calls in flight
    begun, crashes  \* counters behind the bounds

tables == <<journal, work>>
vars == <<tables, discards, cache, answered, calls, begun, crashes>>

(* The cache key: the route prefix keeps endpoints apart.                  *)
Slot(i) == <<i.agent, i.op, i.key>>
Slots == {Slot(i) : i \in Intents}

(* row is the place of the row the call inserted; began is the length of   *)
(* the journal when the call arrived, late whether its intent had been     *)
(* answered by then, barred whether its axes had been discarded (history). *)
Call == [pc : {"lookup", "check", "judge", "review", "discard", "insert", "store"},
         intent : Intents, failed : SUBSET (PlanChecks \cup GraduationChecks),
         row : Nat, began : Nat, late : BOOLEAN, barred : BOOLEAN]

Idle == [pc |-> "idle"]

WorkRow == [intent : Intents, began : Nat, late : BOOLEAN, barred : BOOLEAN]

JournalRow == [kind : {"request", "verdict"}, target : Targets,
               by : Agents \cup {AutoReviewer}, active : BOOLEAN,
               verdict : Verdicts \cup {"NONE"},
               failed : SUBSET (PlanChecks \cup GraduationChecks), late : BOOLEAN]

Init ==
    /\ journal = <<>>
    /\ work = <<>>
    /\ discards = {}
    /\ cache = [s \in Slots |-> 0]
    /\ answered = {}
    /\ calls = [c \in Calls |-> Idle]
    /\ begun = 0
    /\ crashes = 0

---------------------------------------------------------------------------
At(c, p) == calls[c].pc = p
Does(c, op) == calls[c].intent.op = op
Goto(c, p) == calls' = [calls EXCEPT ![c].pc = p]
Close(c) == calls' = [calls EXCEPT ![c] = Idle]

(* axis_has_discard: a discard of one track does not bar the other, an     *)
(* untracked one bars every track, and an untracked sweep heeds them all.  *)
AxisHasDiscard(t, track) ==
    \E d \in discards : /\ d.axes = AxesOf[t]
                        /\ track = "none" \/ d.track \in {"none", track}

(* A client waits for the answer to one call before it makes the next,     *)
(* unless it timed out on it.                                              *)
ClientIsFree(agent) ==
    ClientTimesOut \/ \A c \in Calls : calls[c] # Idle => calls[c].intent.agent # agent

Arrive(c, i) ==
    /\ calls[c] = Idle
    /\ begun < MaxCalls
    /\ ClientIsFree(i.agent)
    /\ begun' = begun + 1
    /\ calls' = [calls EXCEPT ![c] =
           [pc |-> "lookup", intent |-> i, failed |-> {}, row |-> 0,
            began |-> Len(journal), late |-> Slot(i) \in answered,
            barred |-> AxisHasDiscard(i.target, i.track)]]
    /\ UNCHANGED <<tables, discards, cache, answered, crashes>>

(* replay_cached_response: without a key there is nothing to look up.      *)
Cached(i) == IF i.key = NoKey THEN 0 ELSE cache[Slot(i)]

FirstStep(i) ==
    CASE i.op = "request" -> "insert"
      [] i.op = "verdict" -> "check"
      [] i.op = "auto"    -> "check"
      [] i.op \in {"queue", "walk"} -> "review"

Answer(c) ==
    /\ answered' = answered \cup
           (IF calls[c].intent.key = NoKey THEN {} ELSE {Slot(calls[c].intent)})
    /\ Close(c)

ReplayCachedResponse(c) ==
    /\ At(c, "lookup")
    /\ IF Cached(calls[c].intent) # 0
       THEN Answer(c)
       ELSE Goto(c, FirstStep(calls[c].intent)) /\ UNCHANGED answered
    /\ UNCHANGED <<tables, discards, cache, begun, crashes>>

(* Mutant: the response is never stored.                                   *)
AnswerWithoutCaching(c) ==
    /\ At(c, "store")
    /\ Answer(c)
    /\ UNCHANGED <<tables, discards, cache, begun, crashes>>

(* cache_response, and the answer that follows it.                         *)
CacheResponse(c) ==
    LET i == calls[c].intent
    IN  /\ At(c, "store")
        /\ cache' = IF i.key = NoKey THEN cache ELSE [cache EXCEPT ![Slot(i)] = calls[c].row]
        /\ Answer(c)
        /\ UNCHANGED <<tables, discards, begun, crashes>>

(* Every 4xx answer leaves without storing anything.                       *)
Refuse(c) == Close(c) /\ UNCHANGED <<tables, discards, cache, answered, begun, crashes>>

Proceed(c, p) == Goto(c, p) /\ UNCHANGED <<tables, discards, cache, answered, begun, crashes>>

---------------------------------------------------------------------------
Inserted(c, n) == calls' = [calls EXCEPT ![c].pc = "store", ![c].row = n]

WriteJournal(c, table) ==
    /\ journal' = table
    /\ Inserted(c, Len(table))
    /\ UNCHANGED <<work, discards, cache, answered, begun, crashes>>

SubmitReviewRequest(c) ==
    LET i == calls[c].intent
    IN  /\ At(c, "insert") /\ Does(c, "request")
        /\ WriteJournal(c, InsertReviewRequest(journal,
               Request(i.target, i.agent, calls[c].late)))

(* POST /reviews: the requester is read first, the verdict written after.  *)
CheckReviewer(c) ==
    /\ At(c, "check") /\ Does(c, "verdict")
    /\ ~RequestedBy(journal, calls[c].intent.target, calls[c].intent.agent)
    /\ Proceed(c, "insert")

SelfReviewForbidden(c) ==
    /\ At(c, "check") /\ Does(c, "verdict")
    /\ RequestedBy(journal, calls[c].intent.target, calls[c].intent.agent)
    /\ Refuse(c)

SubmitReviewVerdict(c) ==
    LET i == calls[c].intent
    IN  /\ At(c, "insert") /\ Does(c, "verdict")
        /\ WriteJournal(c, InsertReviewVerdict(journal,
               Verdict(i.target, i.agent, i.choice, {}, calls[c].late)))

(* POST /reviews/auto-run-checklist: the request is fetched, then the      *)
(* artifacts the checks look at, then the verdict is written.              *)
FetchRequest(c) ==
    /\ At(c, "check") /\ Does(c, "auto")
    /\ HasRequest(journal, calls[c].intent.target)
    /\ Proceed(c, "judge")

RequestNotFound(c) ==
    /\ At(c, "check") /\ Does(c, "auto")
    /\ ~HasRequest(journal, calls[c].intent.target)
    /\ Refuse(c)

(* Whether a STRATEGY_OUTCOME on the same axes was journaled in the last   *)
(* fourteen days is up to the agents and the calendar.                     *)
PossibleFindings(t) ==
    IF TargetKind[t] = "plan"
    THEN {FailedPlanChecks(Hypothesis[t], recentlyFailed) : recentlyFailed \in BOOLEAN}
    ELSE GraduationFails

RunChecklist(c) ==
    /\ At(c, "judge")
    /\ \E failed \in PossibleFindings(calls[c].intent.target) :
           calls' = [calls EXCEPT ![c].pc = "insert", ![c].failed = failed]
    /\ UNCHANGED <<tables, discards, cache, answered, begun, crashes>>

SubmitAutoVerdict(c) ==
    LET t == calls[c].intent.target
        failed == calls[c].failed
    IN  /\ At(c, "insert") /\ Does(c, "auto")
        /\ WriteJournal(c, InsertReviewVerdict(journal,
               Verdict(t, AutoReviewer, AggregateVerdict(failed, Blockers(t)),
                       failed, calls[c].late)))

---------------------------------------------------------------------------
(* POST /queue and POST /walk-forward.  The gates are queries of their own *)
(* before the insertion; a walk-forward has no discard gate.               *)
PassesReviewGate(i) ==
    "review" \in i.bypass \/ LatestVerdict(journal, i.target) \in PassingGate

AfterReview(i) == IF i.op = "queue" THEN "discard" ELSE "insert"

ReviewGate(c) ==
    /\ At(c, "review")
    /\ PassesReviewGate(calls[c].intent)
    /\ Proceed(c, AfterReview(calls[c].intent))

ReviewRequired(c) ==
    /\ At(c, "review")
    /\ ~PassesReviewGate(calls[c].intent)
    /\ Refuse(c)

(* Mutant: the flag of the other gate opens this one.                      *)
PassesOnReviewFlag(i) == "review" \in i.bypass \/ ~AxisHasDiscard(i.target, i.track)

PassesDiscardGate(i) == "discard" \in i.bypass \/ ~AxisHasDiscard(i.target, i.track)

DiscardGate(c) ==
    /\ At(c, "discard")
    /\ PassesDiscardGate(calls[c].intent)
    /\ Proceed(c, "insert")

AxisPreviouslyDiscarded(c) ==
    /\ At(c, "discard")
    /\ ~PassesDiscardGate(calls[c].intent)
    /\ Refuse(c)

(* The account_strategy row is there before a strategy is proposed, so its *)
(* check refuses nothing here.                                             *)
Admit(c) ==
    /\ At(c, "insert") /\ (Does(c, "queue") \/ Does(c, "walk"))
    /\ work' = Append(work, [intent |-> calls[c].intent, began |-> calls[c].began,
                             late |-> calls[c].late, barred |-> calls[c].barred])
    /\ Inserted(c, Len(work) + 1)
    /\ UNCHANGED <<journal, discards, cache, answered, begun, crashes>>

---------------------------------------------------------------------------
(* A tick logs a DISCARD against a sweep: the audit row carries the axes,  *)
(* the queue row the track.                                                *)
SweepDiscarded(n) ==
    LET i == work[n].intent
    IN  /\ i.op = "queue"
        /\ discards' = discards \cup {[axes |-> AxesOf[i.target], track |-> i.track]}
        /\ UNCHANGED <<tables, cache, answered, calls, begun, crashes>>

(* The server dies with every call in flight.  The in-memory store goes    *)
(* with it; the table of the prod profile stays.                           *)
Crash ==
    /\ crashes < MaxCrashes
    /\ crashes' = crashes + 1
    /\ calls' = [c \in Calls |-> Idle]
    /\ cache' = IF Durable THEN cache ELSE [s \in Slots |-> 0]
    /\ UNCHANGED <<tables, discards, answered, begun>>

Handle(c) ==
    \/ \E i \in Intents : Arrive(c, i)
    \/ ReplayCachedResponse(c)
    \/ CacheResponse(c)
    \/ SubmitReviewRequest(c)
    \/ CheckReviewer(c)
    \/ SelfReviewForbidden(c)
    \/ SubmitReviewVerdict(c)
    \/ FetchRequest(c)
    \/ RequestNotFound(c)
    \/ RunChecklist(c)
    \/ SubmitAutoVerdict(c)
    \/ ReviewGate(c)
    \/ ReviewRequired(c)
    \/ DiscardGate(c)
    \/ AxisPreviouslyDiscarded(c)
    \/ Admit(c)

Next ==
    \/ \E c \in Calls : Handle(c)
    \/ \E n \in DOMAIN work : SweepDiscarded(n)
    \/ Crash

Spec == Init /\ [][Next]_vars

---------------------------------------------------------------------------
(* Types of the tables, the cache and the calls in flight.                 *)
TypeOK ==
    /\ journal \in Seq(JournalRow)
    /\ work \in Seq(WorkRow)
    /\ discards \subseteq [axes : Axes, track : Tracks]
    /\ cache \in [Slots -> Nat]
    /\ answered \subseteq Slots
    /\ calls \in [Calls -> Call \cup {Idle}]
    /\ begun \in 0..MaxCalls
    /\ crashes \in 0..MaxCrashes

(* A retry that starts after the server answered the same key changes      *)
(* nothing: neither a review row nor a queue row comes from it, restarts   *)
(* of a prod server included (services/idempotency.py).                    *)
AnsweredStaysAnswered ==
    /\ \A n \in DOMAIN journal : ~journal[n].late
    /\ \A n \in DOMAIN work : ~work[n].late

(* GET /reviews/pending is exactly the work that is left: a request is open *)
(* until a verdict on its target comes after it, and closed from then on    *)
(* (repo/reviews.py, insert_review_verdict and fetch_pending_requests).     *)
PendingIsUnanswered ==
    \A n \in DOMAIN journal :
        journal[n].kind = "request" =>
            (journal[n].active <=>
                \A m \in RowsOf(journal, "verdict", journal[n].target) : m < n)

(* No agent's verdict follows its own request as the latest one: reading   *)
(* the requester and writing the verdict are two steps, but only a call of *)
(* the same agent could come between (api/reviews.py,                      *)
(* submit_review_verdict).                                                 *)
NoSelfReview ==
    \A n \in DOMAIN journal :
        LET asked == {m \in RowsOf(journal, "request", journal[n].target) : m < n}
        IN  /\ journal[n].kind = "verdict"
            /\ asked # {}
            => journal[Latest(asked)].by # journal[n].by

(* The automatic reviewer approves only what was asked of it, never a plan *)
(* without a registered hypothesis and never a hedge that bleeds in one    *)
(* regime or sits on a parameter cliff (services/review.py,                *)
(* services/review_runner.py).                                             *)
AutoVerdictIsEarned ==
    \A n \in DOMAIN journal :
        LET v == journal[n]
            asked == RowsOf(journal, "request", v.target)
        IN  v.by = AutoReviewer /\ v.verdict \in PassingGate =>
                /\ \E m \in asked : m < n
                /\ TargetKind[v.target] = "plan" => Hypothesis[v.target] # "none"
                /\ TargetTrack[v.target] = "hedging" => v.failed \cap HedgingBlockers = {}

(* The journal of reviews can be trusted: what is pending is open, and     *)
(* verdicts are given by others and on what was asked.                     *)
ReviewsAreSound == PendingIsUnanswered /\ NoSelfReview /\ AutoVerdictIsEarned

(* Work that was not forced through rests on a passing verdict at least as  *)
(* recent as any on record when its call arrived: a rejection cannot be     *)
(* outrun by an older approval (api/queue.py, enqueue; api/walk_forward.py).*)
LatestVerdictGoverns ==
    \A w \in DOMAIN work :
        "review" \notin work[w].intent.bypass =>
            \E n \in RowsOf(journal, "verdict", work[w].intent.target) :
                /\ journal[n].verdict \in PassingGate
                /\ \A m \in RowsOf(journal, "verdict", work[w].intent.target) :
                       m <= work[w].began => m <= n

(* A dimension that was written off before a call arrived is not swept     *)
(* again under another hypothesis, unless the caller overrides the gate    *)
(* (api/queue.py, the re-discovery gate).                                  *)
DiscardedAxesStayOut ==
    \A w \in DOMAIN work :
        LET i == work[w].intent
        IN  i.op = "queue" /\ work[w].barred => "discard" \in i.bypass

(* No work gets past the gates of its time, however calls overlap and the  *)
(* server restarts.                                                        *)
GatesHold == LatestVerdictGoverns /\ DiscardedAxesStayOut

(* README.md: "Idempotency-Key makes retries safe": one key, one row.      *)
OneRowPerKey ==
    \A v, w \in DOMAIN work :
        Slot(work[v].intent) = Slot(work[w].intent) /\ work[v].intent.key # NoKey => v = w
============================================================================
