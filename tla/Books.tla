------------------------------- MODULE Books -------------------------------
(***************************************************************************)
(* The signal pool and the live weights that follow it: admission,         *)
(* pool rebalance, eviction (api/pool.py, services/pool.py), the sync of   *)
(* the House Book account (services/house_book.py), the rebalance of the   *)
(* protected strategies of the same account (services/rebalance.py), which *)
(* the nightly cron also runs (tasks/rebalance_cron.py), and the operator. *)
(*                                                                         *)
(* No handler holds a lock.  Each computes a plan from what it read and    *)
(* then writes it one autocommitted row at a time, except the rebalance of *)
(* the account, whose rows and journal entry are one transaction.          *)
(*                                                                         *)
(* A weight is the number of the computation that produced it: weights of  *)
(* one computation sum to 1, and what can go wrong here is that weights of *)
(* several are live together.  0 is a weight of zero, or NULL in the pool. *)
(* How a computation splits the book is in module Weights.                 *)
(***************************************************************************)
EXTENDS Integers, Sequences, FiniteSets

CONSTANTS
    Surfaces,     \* strategy:symbol:interval, each with its one candidate
    Histories,    \* what may be on file of runs, trades and funding
    Listed,       \* Listed[h]: the surfaces whose member has a return series
    Marginal,     \* Marginal[h][s][S]: the Sharpe that s adds to members S
    Unmeasured,   \* what Marginal is without enough days in common
    Thetas,       \* the thresholds that callers ask for
    Trades,       \* candidates that pass the validity bar of evaluate_admission
    Streams,      \* the ones that pass the bar of evaluate_stream_admission
    Provisioned,  \* surfaces with an account_strategy row on the account
    Protected,    \* of these, the ones of PROTECTED_STRATEGY_CODES
    Slots,        \* slots for calls in flight
    MaxCalls,     \* bound on the number of calls that may overlap
    MaxSerial,    \* bound on the number of calls made one after the other
    MaxMishaps    \* bound on crashes, operator overrides and changed returns

ASSUME BooksAssumption ==
    /\ IsFiniteSet(Surfaces)
    /\ Trades \subseteq Surfaces /\ Streams \subseteq Surfaces
    /\ Provisioned \subseteq Surfaces /\ Protected \subseteq Provisioned
    /\ MaxCalls \in Nat /\ MaxSerial \in Nat /\ MaxMishaps \in Nat

(* The contributions are whatever the series make them.  A member alone is  *)
(* always measured.                                                        *)
ASSUME ReturnsAssumption ==
    /\ IsFiniteSet(Thetas) /\ Thetas \subseteq Int
    /\ Unmeasured \notin Int
    /\ Listed \in [Histories -> SUBSET Surfaces]
    /\ Marginal \in [Histories -> [Surfaces -> [SUBSET Surfaces -> Int \cup {Unmeasured}]]]
    /\ \A h \in Histories, s \in Surfaces : Marginal[h][s][{}] # Unmeasured

VARIABLES
    pool,     \* signal_pool, in order of admission
    live,     \* weight and weight_source of the account_strategy rows
    journal,  \* audit entries: which rows a computation moved
    stamp,    \* computations of weights so far
    calls,    \* the calls in flight
    begun, mishaps,
    returns,  \* the history that the return series are computed from
    serial,   \* whether one call ends before the next begins
    booked,   \* history: rows the sync ever wrote
    last      \* history: what wrote last

vars == <<pool, live, journal, stamp, calls, begun, mishaps, returns, serial, booked, last>>

BookSources == {"HOUSE_BOOK", "HOUSE_BOOK_EVICTED"}
Sources == BookSources \cup {"EQUAL_WEIGHT", "HRP", "MANUAL"}

PoolRow == [surface : Surfaces, status : {"active", "evicted"}, weight : Nat]
LiveRow == [weight : Nat, source : Sources]
JournalEntry == [weight : Nat \ {0}, rows : SUBSET Provisioned, blocked : BOOLEAN]

Active == {i \in 1..Len(pool) : pool[i].status = "active"}
ActiveSurfaces == {pool[i].surface : i \in Active}

Idle == [pc |-> "idle"]

(* todo are the rows still to write, with the weight for each; seen the    *)
(* pool rows that the first of two reads returned; view the history that   *)
(* the second read its series from, and left the members that a reconcile  *)
(* has not evicted.                                                        *)
Call == [op : {"evaluate", "stream", "rebalance", "reconcile", "sync", "account"},
         on : Surfaces, theta : Thetas,
         pc : {"gate", "read", "plan", "score", "insert", "write", "commit"},
         seen : SUBSET (Nat \ {0}), view : Histories, left : SUBSET Surfaces,
         todo : Seq([row : (Nat \ {0}) \cup Surfaces, weight : Nat])]

Begin(op, s, theta) ==
    [op |-> op, on |-> s, theta |-> theta, seen |-> {}, todo |-> <<>>,
     view |-> CHOOSE h \in Histories : TRUE, left |-> {},
     pc |-> IF op \in {"evaluate", "stream"} THEN "gate" ELSE "read"]

Init ==
    /\ pool = <<>>
    /\ live = [s \in Provisioned |-> [weight |-> 1, source |-> "EQUAL_WEIGHT"]]
    /\ journal = {}
    /\ stamp = 1
    /\ calls = [c \in Slots |-> Idle]
    /\ begun = 0 /\ mishaps = 0
    /\ returns \in Histories
    /\ serial \in BOOLEAN
    /\ booked = {}
    /\ last = "none"

(* The active members that _active_members_returns finds a series for.     *)
Priced(h) == ActiveSurfaces \cap Listed[h]

(* marginal_sharpe_contribution against a threshold of at least 0: what    *)
(* cannot be measured counts as 0 here.                                    *)
Adds(s, S, theta) == Marginal[returns][s][S] # Unmeasured /\ Marginal[returns][s][S] > theta

(* Whom a round of _greedy_evictions may take from the members R: nobody   *)
(* if one is left, and no one whose contribution cannot be measured.       *)
Evictable(h, R, theta) ==
    {s \in R : R # {s} /\ Marginal[h][s][R \ {s}] # Unmeasured /\ Marginal[h][s][R \ {s}] <= theta}
Lowest(h, R, theta) ==
    {s \in Evictable(h, R, theta) : \A t \in Evictable(h, R, theta) :
        Marginal[h][s][R \ {s}] <= Marginal[h][t][R \ {t}]}

(* The rows of a plan, in whatever order the query returned them.          *)
Orders(R, weights) ==
    {q \in [1..Cardinality(R) -> [row : R, weight : {weights[r] : r \in R}]] :
        /\ \A r \in R : \E n \in DOMAIN q : q[n].row = r
        /\ \A n \in DOMAIN q : q[n].weight = weights[q[n].row]}

Goto(c, pc) == calls' = [calls EXCEPT ![c].pc = pc]
Answer(c) == calls' = [calls EXCEPT ![c] = Idle]
Write(c, todo) ==
    calls' = [calls EXCEPT ![c].pc = "write", ![c].todo = todo]

At(c, ops, pc) == calls[c] # Idle /\ calls[c].op \in ops /\ calls[c].pc = pc

(* A caller sends a request.  Every call carries an idempotency key of its *)
(* own, so the replay of a cached answer finds none.                       *)
Start(c, op, s, theta) ==
    /\ calls[c] = Idle
    /\ begun < IF serial THEN MaxSerial ELSE MaxCalls
    /\ serial => \A d \in Slots : calls[d] = Idle
    /\ op \notin {"evaluate", "stream"} => s = CHOOSE t \in Surfaces : TRUE
    /\ op \in {"rebalance", "sync", "account"} => theta = CHOOSE t \in Thetas : TRUE
    /\ op \in {"evaluate", "stream"} => theta >= 0
    /\ calls' = [calls EXCEPT ![c] = Begin(op, s, theta)]
    /\ begun' = begun + 1
    /\ UNCHANGED <<pool, live, journal, stamp, mishaps, returns, serial, booked, last>>
-----------------------------------------------------------------------------
(* evaluate: the validity bar, which for a stream is one of its series,    *)
(* then the marginal test against the members of that moment, then the     *)
(* insert.                                                                 *)
Gate(c) ==
    /\ \/ At(c, {"evaluate"}, "gate") /\ calls[c].on \in Trades
       \/ At(c, {"stream"}, "gate") /\ calls[c].on \in Streams \cap Listed[returns]
    /\ Goto(c, "read")
    /\ UNCHANGED <<pool, live, journal, stamp, begun, mishaps, returns, serial, booked, last>>

GateRefuses(c) ==
    /\ \/ At(c, {"evaluate"}, "gate") /\ calls[c].on \notin Trades
       \/ At(c, {"stream"}, "gate") /\ calls[c].on \notin Streams \cap Listed[returns]
    /\ Answer(c)
    /\ UNCHANGED <<pool, live, journal, stamp, begun, mishaps, returns, serial, booked, last>>

(* The candidate's own row, if it is pooled already, is left out of the    *)
(* comparison.                                                             *)
EvaluateAdmission(c) ==
    /\ At(c, {"evaluate", "stream"}, "read")
    /\ IF Adds(calls[c].on, Priced(returns) \ {calls[c].on}, calls[c].theta)
       THEN Goto(c, "insert") ELSE Answer(c)
    /\ UNCHANGED <<pool, live, journal, stamp, begun, mishaps, returns, serial, booked, last>>

(* Mutant: a plain INSERT.                                                 *)
InsertMemberAgain(c) ==
    /\ At(c, {"evaluate", "stream"}, "insert")
    /\ pool' = Append(pool, [surface |-> calls[c].on, status |-> "active", weight |-> 0])
    /\ last' = "pool"
    /\ Answer(c)
    /\ UNCHANGED <<live, journal, stamp, begun, mishaps, returns, serial, booked>>

(* ON CONFLICT DO NOTHING: one active row for a surface.                   *)
InsertMember(c) ==
    /\ At(c, {"evaluate", "stream"}, "insert")
    /\ pool' = IF calls[c].on \in ActiveSurfaces THEN pool
               ELSE Append(pool, [surface |-> calls[c].on, status |-> "active", weight |-> 0])
    /\ last' = "pool"
    /\ Answer(c)
    /\ UNCHANGED <<live, journal, stamp, begun, mishaps, returns, serial, booked>>
-----------------------------------------------------------------------------
(* rebalance and reconcile read the members twice: their ids, then their   *)
(* return series.                                                          *)
ReadMembers(c) ==
    /\ At(c, {"rebalance", "reconcile"}, "read")
    /\ calls' = IF calls[c].op = "rebalance" /\ Active = {}
                THEN [calls EXCEPT ![c] = Idle]
                ELSE [calls EXCEPT ![c].pc = "plan", ![c].seen = Active]
    /\ UNCHANGED <<pool, live, journal, stamp, begun, mishaps, returns, serial, booked, last>>

SeenSurfaces(c) == {pool[i].surface : i \in calls[c].seen}

(* Mutant: only the members without a weight are weighed.                  *)
PlanNewcomers(c) ==
    /\ At(c, {"rebalance"}, "plan")
    /\ LET R == {i \in calls[c].seen : pool[i].weight = 0}
       IN  \E q \in Orders(R, [i \in R |-> stamp + 1]) : Write(c, q)
    /\ stamp' = stamp + 1
    /\ UNCHANGED <<pool, live, journal, begun, mishaps, returns, serial, booked, last>>

(* Weights for the members of the second read that have a series, written  *)
(* to the rows of the first.  A member that came in between has no symbol  *)
(* to look up, and the handler fails; one without a series, or that went,  *)
(* has no weight and is skipped: his row keeps what it had.                *)
PlanRebalance(c) ==
    /\ At(c, {"rebalance"}, "plan")
    /\ LET priced == Priced(returns)
           rows == {i \in calls[c].seen : pool[i].surface \in priced}
       IN  IF priced = {} \/ ~priced \subseteq SeenSurfaces(c)
           THEN Answer(c) /\ UNCHANGED stamp
           ELSE /\ stamp' = stamp + 1
                /\ \E q \in Orders(rows, [i \in rows |-> stamp + 1]) : Write(c, q)
    /\ UNCHANGED <<pool, live, journal, begun, mishaps, returns, serial, booked, last>>

(* The series of a reconcile are read once, after the ids.                 *)
ReadSeries(c) ==
    /\ At(c, {"reconcile"}, "plan")
    /\ calls' = [calls EXCEPT ![c].pc = "score", ![c].view = returns,
                              ![c].left = Priced(returns), ![c].todo = <<>>]
    /\ UNCHANGED <<pool, live, journal, stamp, begun, mishaps, returns, serial, booked, last>>

(* The row of a member in the first read; a member that came after it has  *)
(* none, and the UPDATE for him matches nothing.                           *)
RowOf(c, s) ==
    LET rows == {i \in calls[c].seen : pool[i].surface = s}
    IN  IF rows = {} THEN <<>> ELSE <<[row |-> CHOOSE i \in rows : TRUE, weight |-> 0]>>

(* Mutant: whoever is redundant in the full pool goes at once.             *)
EvictInOnePass(c) ==
    /\ At(c, {"reconcile"}, "score")
    /\ LET k == calls[c]
           out == {i \in k.seen : pool[i].surface \in Evictable(k.view, k.left, k.theta)}
       IN  \E q \in Orders(out, [i \in out |-> 0]) : Write(c, q)
    /\ UNCHANGED <<pool, live, journal, stamp, begun, mishaps, returns, serial, booked, last>>

(* Mutant: the survivors of the first eviction are not looked at again.    *)
EvictOnce(c) ==
    /\ At(c, {"reconcile"}, "score")
    /\ LET k == calls[c]
       IN  IF Evictable(k.view, k.left, k.theta) = {} THEN Goto(c, "write")
           ELSE \E s \in Lowest(k.view, k.left, k.theta) : Write(c, RowOf(c, s))
    /\ UNCHANGED <<pool, live, journal, stamp, begun, mishaps, returns, serial, booked, last>>

(* One round of the loop of _greedy_evictions: the lowest of those at or   *)
(* below theta goes, the first of the query's rows if several are, and the *)
(* others are measured again without him.                                  *)
EvictionRound(c) ==
    /\ At(c, {"reconcile"}, "score")
    /\ LET k == calls[c]
       IN  IF Evictable(k.view, k.left, k.theta) = {} THEN Goto(c, "write")
           ELSE \E s \in Lowest(k.view, k.left, k.theta) :
                  calls' = [calls EXCEPT ![c].left = @ \ {s}, ![c].todo = @ \o RowOf(c, s)]
    /\ UNCHANGED <<pool, live, journal, stamp, begun, mishaps, returns, serial, booked, last>>

Next1(c) == Head(calls[c].todo)
Shift(c) == calls' = [calls EXCEPT ![c].todo = Tail(@)]

(* UPDATE ... WHERE pool_id: whatever the status is by now.                *)
WritePoolWeight(c) ==
    /\ At(c, {"rebalance"}, "write") /\ calls[c].todo # <<>>
    /\ pool' = [pool EXCEPT ![Next1(c).row].weight = Next1(c).weight]
    /\ last' = "pool"
    /\ Shift(c)
    /\ UNCHANGED <<live, journal, stamp, begun, mishaps, returns, serial, booked>>

Evict(c) ==
    /\ At(c, {"reconcile"}, "write") /\ calls[c].todo # <<>>
    /\ pool' = [pool EXCEPT ![Next1(c).row].status = "evicted"]
    /\ last' = "pool"
    /\ Shift(c)
    /\ UNCHANGED <<live, journal, stamp, begun, mishaps, returns, serial, booked>>

PoolAnswers(c) ==
    /\ At(c, {"rebalance", "reconcile"}, "write") /\ calls[c].todo = <<>>
    /\ Answer(c)
    /\ UNCHANGED <<pool, live, journal, stamp, begun, mishaps, returns, serial, booked, last>>
-----------------------------------------------------------------------------
(* Mutant: the members are read without the filter on their status.        *)
ReadWholePool(c) ==
    /\ At(c, {"sync"}, "read")
    /\ calls' = [calls EXCEPT ![c].pc = "plan",
                              ![c].todo = [n \in 1..Len(pool) |->
                                  [row |-> pool[n].surface, weight |-> pool[n].weight]],
                              ![c].seen = 1..Len(pool)]
    /\ UNCHANGED <<pool, live, journal, stamp, begun, mishaps, returns, serial, booked, last>>

(* sync: read the members, read the rows of the account, classify, write.  *)
ReadPoolWeights(c) ==
    /\ At(c, {"sync"}, "read")
    /\ calls' = [calls EXCEPT ![c].pc = "plan",
                              ![c].todo = [n \in 1..Len(pool) |->
                                  [row |-> pool[n].surface, weight |->
                                      IF n \in Active THEN pool[n].weight ELSE 0]],
                              ![c].seen = Active]
    /\ UNCHANGED <<pool, live, journal, stamp, begun, mishaps, returns, serial, booked, last>>

(* classify_book over what the two reads returned: m maps the members to   *)
(* their weight.                                                           *)
ToSync(m) == {s \in DOMAIN m : m[s] # 0 /\ s \in Provisioned}
(* Mutant: the weight source is not asked for.                             *)
ToZeroAny(m) == {s \in Provisioned \ DOMAIN m : live[s].weight > 0}
ToZero(m) == {s \in Provisioned \ DOMAIN m : live[s].weight > 0 /\ live[s].source \in BookSources}

PlanSync(c) ==
    /\ At(c, {"sync"}, "plan")
    /\ LET read == calls[c].todo
           m == [s \in SeenSurfaces(c) |->
                    read[CHOOSE n \in calls[c].seen : read[n].row = s].weight]
       IN  \E up \in Orders(ToSync(m), m),
              down \in Orders(ToZero(m), [s \in Provisioned |-> 0]) : Write(c, up \o down)
    /\ UNCHANGED <<pool, live, journal, stamp, begun, mishaps, returns, serial, booked, last>>

(* UPDATE ... WHERE account_strategy_id: whatever the row says by now.     *)
WriteLiveWeight(c) ==
    /\ At(c, {"sync"}, "write") /\ calls[c].todo # <<>>
    /\ LET w == Next1(c).weight
       IN  live' = [live EXCEPT ![Next1(c).row] =
                       [weight |-> w, source |-> IF w = 0 THEN "HOUSE_BOOK_EVICTED" ELSE "HOUSE_BOOK"]]
    /\ booked' = booked \cup {Next1(c).row}
    /\ last' = IF Len(calls[c].todo) = 1 THEN "sync" ELSE "live"
    /\ Shift(c)
    /\ UNCHANGED <<pool, journal, stamp, begun, mishaps, returns, serial>>

(* The journal entry of a sync comes last, in a statement of its own.  No  *)
(* property is about it.                                                   *)
SyncAnswers(c) ==
    /\ At(c, {"sync"}, "write") /\ calls[c].todo = <<>>
    /\ last' = "sync"
    /\ Answer(c)
    /\ UNCHANGED <<pool, live, journal, stamp, begun, mishaps, returns, serial, booked>>
-----------------------------------------------------------------------------
(* rebalance_book: read the rows that may be moved, compute, ask the JVM   *)
(* for balance and Kelly multipliers, and commit rows and journal at once. *)
FetchTargets(c) ==
    /\ At(c, {"account"}, "read")
    /\ LET rows == {s \in Protected : live[s].source # "MANUAL"}
       IN  IF rows = {} THEN Answer(c) /\ UNCHANGED stamp
           ELSE /\ stamp' = stamp + 1
                /\ \E q \in Orders(rows, [s \in rows |-> stamp + 1]) :
                     calls' = [calls EXCEPT ![c].pc = "commit", ![c].todo = q]
    /\ UNCHANGED <<pool, live, journal, begun, mishaps, returns, serial, booked, last>>

Targets(c) == {calls[c].todo[n].row : n \in DOMAIN calls[c].todo}

CommitRebalance(c) ==
    /\ At(c, {"account"}, "commit")
    /\ LET w == Next1(c).weight
       IN  /\ live' = [s \in Provisioned |->
                          IF s \in Targets(c) THEN [weight |-> w, source |-> "HRP"] ELSE live[s]]
           /\ journal' = journal \cup {[weight |-> w, rows |-> Targets(c), blocked |-> FALSE]}
    /\ last' = "live"
    /\ Answer(c)
    /\ UNCHANGED <<pool, stamp, begun, mishaps, returns, serial, booked>>

(* Mutant: the guard runs after the weights are written.                   *)
BlockAfterWriting(c) ==
    /\ At(c, {"account"}, "commit")
    /\ LET w == Next1(c).weight
       IN  /\ live' = [s \in Provisioned |->
                          IF s \in Targets(c) THEN [weight |-> w, source |-> "HRP"] ELSE live[s]]
           /\ journal' = journal \cup {[weight |-> w, rows |-> {}, blocked |-> TRUE]}
    /\ last' = "live"
    /\ Answer(c)
    /\ UNCHANGED <<pool, stamp, begun, mishaps, returns, serial, booked>>

(* The min-notional guard found a violation: journal, then 422; the cron   *)
(* records the error and goes on.  A dry run is journalled likewise.       *)
BlockRebalance(c) ==
    /\ At(c, {"account"}, "commit")
    /\ journal' = journal \cup {[weight |-> Next1(c).weight, rows |-> {}, blocked |-> TRUE]}
    /\ Answer(c)
    /\ UNCHANGED <<pool, live, stamp, begun, mishaps, returns, serial, booked, last>>
-----------------------------------------------------------------------------
(* The operator sets a weight by hand in the admin UI.                     *)
Override(s) ==
    /\ mishaps < MaxMishaps
    /\ live' = [live EXCEPT ![s] = [weight |-> stamp + 1, source |-> "MANUAL"]]
    /\ stamp' = stamp + 1
    /\ mishaps' = mishaps + 1
    /\ last' = "live"
    /\ UNCHANGED <<pool, journal, calls, begun, returns, serial, booked>>

(* A stream's series is computed anew from the funding history, and which  *)
(* members are streams is looked up, at every call: more funding, or a     *)
(* definition that is edited or deleted, makes other series.               *)
ReturnsChange ==
    /\ mishaps < MaxMishaps
    /\ returns' \in Histories \ {returns}
    /\ mishaps' = mishaps + 1
    /\ UNCHANGED <<pool, live, journal, stamp, calls, begun, serial, booked, last>>

(* The process dies: what is committed stays.                              *)
Crash ==
    /\ ~serial
    /\ mishaps < MaxMishaps
    /\ \E c \in Slots : calls[c] # Idle
    /\ calls' = [c \in Slots |-> Idle]
    /\ mishaps' = mishaps + 1
    /\ UNCHANGED <<pool, live, journal, stamp, begun, returns, serial, booked, last>>

Admission(c) == Gate(c) \/ GateRefuses(c) \/ EvaluateAdmission(c) \/ InsertMember(c)
PoolUpkeep(c) == \/ ReadMembers(c) \/ PlanRebalance(c) \/ ReadSeries(c) \/ EvictionRound(c)
                 \/ WritePoolWeight(c) \/ Evict(c) \/ PoolAnswers(c)
Sync(c) == ReadPoolWeights(c) \/ PlanSync(c) \/ WriteLiveWeight(c) \/ SyncAnswers(c)
RebalanceBook(c) == FetchTargets(c) \/ CommitRebalance(c) \/ BlockRebalance(c)

Next ==
    \/ \E c \in Slots : \/ \E op \in {"evaluate", "stream", "rebalance", "reconcile",
                                      "sync", "account"}, s \in Surfaces, theta \in Thetas :
                             Start(c, op, s, theta)
                        \/ Admission(c) \/ PoolUpkeep(c) \/ Sync(c) \/ RebalanceBook(c)
    \/ \E s \in Provisioned : Override(s)
    \/ ReturnsChange
    \/ Crash

Spec == Init /\ [][Next]_vars
-----------------------------------------------------------------------------
TypeOK ==
    /\ pool \in Seq(PoolRow)
    /\ \A i, j \in Active : pool[i].surface = pool[j].surface => i = j
    /\ live \in [Provisioned -> LiveRow]
    /\ journal \subseteq JournalEntry
    /\ stamp \in Nat
    /\ calls \in [Slots -> Call \cup {Idle}]
    /\ begun \in Nat /\ mishaps \in 0..MaxMishaps
    /\ returns \in Histories /\ serial \in BOOLEAN /\ booked \subseteq Provisioned
    /\ last \in {"none", "pool", "live", "sync"}

(* Whatever overlaps, the sync never takes a weight to zero that it did    *)
(* not set: classify_book promises that a row the book never touched is    *)
(* never zeroed, so a wrong account id cannot wipe an account.             *)
OnlyBookRowsZeroed ==
    [][\A s \in Provisioned : live'[s].weight = 0 /\ live[s].weight # 0 => s \in booked]_vars

(* A live weight that a rebalance of the account set has its audit entry,  *)
(* which names the row and is not the entry of a refusal: weights and      *)
(* journal commit together, whoever else writes the row around it.         *)
RebalanceIsAudited ==
    \A s \in Provisioned : live[s].source = "HRP" =>
        \E e \in journal : e.weight = live[s].weight /\ s \in e.rows /\ ~e.blocked

(* The surfaces whose member never lacks a return series.                  *)
AlwaysListed == {s \in Surfaces : \A h \in Histories : s \in Listed[h]}

(* One call after the other, the weights of the members that never lack a  *)
(* series come from one computation, so they sum to at most 1 however the  *)
(* pool and the returns have changed since: an evicted weight is out, a    *)
(* new member has none.                                                    *)
WeightsFromOneRebalance ==
    serial /\ (\A c \in Slots : calls[c] = Idle) =>
        \A i, j \in Active :
            {pool[i].surface, pool[j].surface} \subseteq AlwaysListed
            /\ pool[i].weight # 0 /\ pool[j].weight # 0 => pool[i].weight = pool[j].weight

(* The docstring of rebalance says that it weighs the active members and   *)
(* renormalises: then what weights they have would be of one computation.  *)
OneRebalanceForAll ==
    serial /\ (\A c \in Slots : calls[c] = Idle) =>
        \A i, j \in Active : pool[i].weight # 0 /\ pool[j].weight # 0
                                => pool[i].weight = pool[j].weight

(* One call after the other, a row that turns to evicted is that of the    *)
(* member who adds least to those still in the pool at that very write, by *)
(* the series the call has read, and adds at most theta: of a pair that    *)
(* only duplicate each other one is measured without the other and stays.  *)
(* Nobody goes who cannot be measured, has no series or is the last.       *)
EvictionsEarned ==
    [][serial => \A i \in Active : pool'[i].status = "evicted" =>
          \E c \in Slots :
              /\ At(c, {"reconcile"}, "write")
              /\ LET k == calls[c]
                     R == Priced(k.view)
                     m == [s \in R |-> Marginal[k.view][s][R \ {s}]]
                     s == pool[i].surface
                 IN  /\ s \in R /\ R # {s}
                     /\ m[s] # Unmeasured /\ m[s] <= k.theta
                     /\ \A t \in R : m[t] # Unmeasured => m[s] <= m[t]]_vars

(* One call after the other, when a reconcile has written its last row no  *)
(* member is left that it would still evict, however many rounds it took.  *)
ReconcileSettles ==
    serial => \A c \in Slots :
        At(c, {"reconcile"}, "write") /\ calls[c].todo = <<>> =>
            LET R == Priced(calls[c].view)
            IN  \A s \in R : R = {s} \/ LET m == Marginal[calls[c].view][s][R \ {s}]
                                         IN  m = Unmeasured \/ m > calls[c].theta

(* A reconcile evicts whom it should, one at a time, and nobody is left     *)
(* over.                                                                   *)
EvictionsAreSound == EvictionsEarned /\ []ReconcileSettles

(* When a sync has written its last row and nobody overlapped, every       *)
(* weight that the book has on the account is that of a member: what was   *)
(* evicted before is zeroed.  A member admitted again and not weighed yet  *)
(* keeps what he had.                                                      *)
SyncedBookMatches ==
    serial /\ last = "sync" =>
        \A s \in Provisioned : live[s].source = "HOUSE_BOOK" /\ live[s].weight # 0 =>
            \E i \in Active : pool[i].surface = s /\ pool[i].weight \in {0, live[s].weight}

(* Without overlap, pool and account tell one story: the weights of priced *)
(* members come from one rebalance, and a sync leaves nothing else of the book on  *)
(* the account.                                                            *)
BookFollowsPool == WeightsFromOneRebalance /\ SyncedBookMatches

(* services/rebalance.py: rows with weight_source MANUAL are left alone.   *)
ManualLeftAlone ==
    [][\A s \in Provisioned : live[s].source = "MANUAL" => live'[s].source # "HRP"]_vars
=============================================================================
