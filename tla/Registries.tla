----------------------------- MODULE Registries -----------------------------
(***************************************************************************)
(* The catalogues of the orchestrator under concurrent callers: models     *)
(* (api/models.py), experiment runs (api/experiments.py), signals          *)
(* (api/signals.py) and the curated strategy registry                      *)
(* (api/strategy_registry.py), which the research loop writes to as well   *)
(* (services/registry_sync.py).                                            *)
(*                                                                         *)
(* All are the same shape and differ in one thing: a handler reads a row,  *)
(* decides, and then updates it in a later statement.  Models and runs     *)
(* repeat in the UPDATE what they decided on; signals and the sync of the  *)
(* strategy registry do not.                                               *)
(***************************************************************************)
EXTENDS Lifecycles

CONSTANTS
    Agents,      \* callers with an X-Agent-Name of their own
    Admin,       \* a dashboard user behind X-Viewer-Is-Admin
    Artifacts,   \* content hashes of trained models
    Signals,     \* rows of signal_definition, which other code inserts
    Metrics,     \* metric names of an experiment run
    RunLevel,    \* the ones logged without a fold, mirrored into the header
    Slugs,       \* slugs of the strategy registry
    Results,     \* research results: strategy code, symbol and interval
    Universe,    \* the key of an entry without symbol: covers every result
    NoKey,       \* the key of an entry without strategy code: covers none
    KeyOf,       \* the research key an entry with this slug is written with
    SlugOf,      \* registry_sync._slug
    Intents,     \* the calls that are made
    Begun,       \* tables the service may start with
    Calls,       \* slots for calls in flight
    MaxCalls,    \* bound on the number of calls
    MaxCrashes   \* bound on the number of crashes

RegistryOps == {"create", "patch", "rename", "put", "archive", "sync"}
Operations == {"register", "promote", "synced", "start", "finish", "metric", "signal"}
              \cup RegistryOps

(* on is what the call is about and to what it asks for; a call without a  *)
(* key is made by a caller that never repeats it.                          *)
Intent ==
    [op : {"register"}, agent : Agents, on : Artifacts, to : Gauntlets]
    \cup [op : {"promote"}, agent : Agents, on : Artifacts, to : PromotionTargets]
    \cup [op : {"synced"}, agent : Agents, on : Artifacts, to : {"synced"}]
    \cup [op : {"start"}, agent : Agents, on : {0}, to : {"running"}]
    \cup [op : {"finish"}, agent : Agents, on : Nat \ {0}, to : RunVerdicts]
    \cup [op : {"metric"}, agent : Agents, on : Nat \ {0}, to : Metrics]
    \cup [op : {"signal"}, agent : Agents, on : Signals, to : SignalStatuses]
    \cup [op : RegistryOps \ {"sync", "rename"}, agent : Agents \cup {Admin}, on : Slugs,
          to : Standings]
    \cup [op : {"rename"}, agent : Agents \cup {Admin}, on : Slugs, to : Slugs]
    \cup [op : {"sync"}, agent : Agents, on : Results, to : ResearchVerdicts]

(* All models are of one purpose, symbol, interval and horizon; the version *)
(* of a model is then its place in the table.                              *)
ModelRow == [artifact : Artifacts, gauntlet : Gauntlets, synced : BOOLEAN,
             trail : Seq(ModelStatuses)]
SignalRow == [trail : Seq(SignalStatuses)]
RunRow == [trail : Seq({"running"} \cup RunVerdicts), logged : SUBSET Metrics,
           summary : SUBSET Metrics]
RosterRow == [slug : Slugs, key : Results \cup {Universe, NoKey}, standing : Standings,
              auto : BOOLEAN, archived : BOOLEAN, by : {"sync", "caller"}]

(* A model row is a legal one when a registration wrote its first status   *)
(* and promotions the others.                                              *)
LegalModel(m) == /\ m \in ModelRow
                 /\ Len(m.trail) > 0
                 /\ m.trail[1] = DerivedStatus[m.gauntlet]
                 /\ Follows(m.trail, Promotions)

LegalRun(r) == /\ r \in RunRow
               /\ Len(r.trail) > 0
               /\ r.trail[1] = "running"
               /\ Follows(r.trail, RunMoves)

ASSUME RegistriesAssumption ==
    /\ Admin \notin Agents
    /\ RunLevel \subseteq Metrics
    /\ KeyOf \in [Slugs -> Results \cup {Universe, NoKey}]
    /\ SlugOf \in [Results -> Slugs]
    /\ Universe \notin Results /\ NoKey \notin Results
    /\ Intents \subseteq Intent
    /\ \A b \in Begun : /\ b.models \in Seq(ModelRow)
                        /\ \A n \in 1..Len(b.models) : LegalModel(b.models[n])
                        /\ b.runs \in Seq(RunRow)
                        /\ \A n \in 1..Len(b.runs) :
                               /\ LegalRun(b.runs[n])
                               /\ b.runs[n].summary = b.runs[n].logged \cap RunLevel
                        /\ b.roster \in Seq(RosterRow)
                        /\ b.signals \in [Signals -> SignalRow]
    /\ MaxCalls \in Nat
    /\ MaxCrashes \in Nat

VARIABLES
    models,   \* model_registry
    runs,     \* experiment_run with its experiment_metric rows
    signals,  \* signal_definition
    roster,   \* strategy_research_registry
    cache,    \* slots of the idempotency store that hold an answer
    calls,    \* the calls in flight
    begun, crashes

catalogues == <<models, runs, signals, roster>>
vars == <<catalogues, cache, calls, begun, crashes>>

(* at is the place of the row a call works on, seen the status it read,    *)
(* version what the INSERT's own subquery computed.                        *)
Call == [intent : Intents, at : Nat, version : Nat,
         pc : {"lookup", "read", "insert", "update", "commit", "reread", "store"},
         seen : ModelStatuses \cup SignalStatuses \cup {"none"}]

Idle == [pc |-> "idle"]

Init ==
    /\ \E b \in Begun : /\ models = b.models
                        /\ runs = b.runs
                        /\ signals = b.signals
                        /\ roster = b.roster
    /\ cache = {}
    /\ calls = [c \in Calls |-> Idle]
    /\ begun = 0
    /\ crashes = 0

---------------------------------------------------------------------------
At(c, op, pc) == calls[c].pc = pc /\ calls[c].intent.op = op
Close(c) == calls' = [calls EXCEPT ![c] = Idle]
Goto(c, pc) == calls' = [calls EXCEPT ![c].pc = pc]
(* The answer is there, right or wrong, and is stored before it is sent.   *)
Reply(c) == Goto(c, "store")
Bookkeeping == UNCHANGED <<cache, begun, crashes>>

Slot(i) == <<i.op, i.agent, i.on, i.to>>
Keyed(i) == i.op \notin RegistryOps

PlacesOf(artifact) == {n \in 1..Len(models) : models[n].artifact = artifact}
PlacesOfSlug(slug) == {n \in 1..Len(roster) : roster[n].slug = slug}

(* A caller addresses a row by an id that it learned from the service.     *)
Addressed(i) ==
    CASE i.op \in {"promote", "synced"} -> PlacesOf(i.on)
      [] i.op \in {"finish", "metric"}  -> {i.on} \cap 1..Len(runs)
      [] i.op \in {"patch", "rename", "archive"} -> PlacesOfSlug(i.on)
      [] OTHER                          -> {0}

Arrive(c, i) ==
    /\ calls[c] = Idle
    /\ begun < MaxCalls
    /\ \A d \in Calls : calls[d] # Idle => calls[d].intent # i
    /\ \E n \in Addressed(i) :
           calls' = [calls EXCEPT ![c] =
               [intent |-> i, at |-> n, version |-> 0, seen |-> "none",
                pc |-> IF Keyed(i) THEN "lookup" ELSE "read"]]
    /\ begun' = begun + 1
    /\ UNCHANGED <<catalogues, cache, crashes>>

Replay(c) ==
    /\ calls[c].pc = "lookup"
    /\ IF Slot(calls[c].intent) \in cache THEN Close(c) ELSE Goto(c, "read")
    /\ UNCHANGED catalogues /\ Bookkeeping

CacheAnswer(c) ==
    /\ calls[c].pc = "store"
    /\ cache' = cache \cup {Slot(calls[c].intent)}
    /\ Close(c)
    /\ UNCHANGED <<catalogues, begun, crashes>>

(* The process dies: what is committed and what is cached stays.           *)
Crash ==
    /\ crashes < MaxCrashes
    /\ \E c \in Calls : calls[c] # Idle
    /\ crashes' = crashes + 1
    /\ calls' = [c \in Calls |-> Idle]
    /\ UNCHANGED <<catalogues, cache, begun>>

---------------------------------------------------------------------------
(* POST /models/register: find by content hash, then insert.  The INSERT   *)
(* computes its version from the rows that were committed when it began.   *)
FindByArtifactSha(c) ==
    /\ At(c, "register", "read")
    /\ IF PlacesOf(calls[c].intent.on) # {} THEN Reply(c) ELSE Goto(c, "insert")
    /\ UNCHANGED catalogues /\ Bookkeeping

ComputeVersion(c) ==
    /\ At(c, "register", "insert")
    /\ calls' = [calls EXCEPT ![c].pc = "commit", ![c].version = Len(models) + 1]
    /\ UNCHANGED catalogues /\ Bookkeeping

(* UniqueViolationError: the version, or the hash, is taken by now.        *)
Taken(c) == \/ calls[c].version \in 1..Len(models)
            \/ PlacesOf(calls[c].intent.on) # {}

InsertModel(c) ==
    LET i == calls[c].intent
    IN  /\ At(c, "register", "commit")
        /\ ~Taken(c)
        /\ models' = Append(models, [artifact |-> i.on, gauntlet |-> i.to, synced |-> FALSE,
                                     trail |-> <<DerivedStatus[i.to]>>])
        /\ Reply(c)
        /\ UNCHANGED <<runs, signals, roster>> /\ Bookkeeping

RegistrationLost(c) ==
    /\ At(c, "register", "commit")
    /\ Taken(c)
    /\ Reply(c)
    /\ UNCHANGED catalogues /\ Bookkeeping

(* Mutant: promote without validate_transition.                            *)
ReadModelUnchecked(c) ==
    /\ At(c, "promote", "read")
    /\ calls' = [calls EXCEPT ![c].pc = "update", ![c].seen = Status(models[calls[c].at])]
    /\ UNCHANGED catalogues /\ Bookkeeping

(* POST /models/{id}/promote: validate_transition on the row as read; the  *)
(* same status again is a no-op, any other move off the graph a 409.       *)
ReadModel(c) ==
    LET status == Status(models[calls[c].at])
    IN  /\ At(c, "promote", "read")
        /\ IF <<status, calls[c].intent.to>> \in Promotions
           THEN calls' = [calls EXCEPT ![c].pc = "update", ![c].seen = status]
           ELSE Reply(c)
        /\ UNCHANGED catalogues /\ Bookkeeping

(* Mutant: the UPDATE matches on the id alone.                             *)
UpdateStatusById(c) ==
    LET call == calls[c]
    IN  /\ At(c, "promote", "update")
        /\ models' = [models EXCEPT ![call.at] = Moved(@, call.intent.to)]
        /\ Reply(c)
        /\ UNCHANGED <<runs, signals, roster>> /\ Bookkeeping

(* update_status: WHERE id = $1 AND status = expected_current_status.      *)
UpdateStatus(c) ==
    LET call == calls[c]
    IN  /\ At(c, "promote", "update")
        /\ models' = IF Status(models[call.at]) = call.seen
                     THEN [models EXCEPT ![call.at] = Moved(@, call.intent.to)]
                     ELSE models
        /\ Reply(c)
        /\ UNCHANGED <<runs, signals, roster>> /\ Bookkeeping

MarkSynced(c) ==
    /\ At(c, "synced", "read")
    /\ models' = [models EXCEPT ![calls[c].at].synced = TRUE]
    /\ Reply(c)
    /\ UNCHANGED <<runs, signals, roster>> /\ Bookkeeping

---------------------------------------------------------------------------
InsertRun(c) ==
    /\ At(c, "start", "read")
    /\ runs' = Append(runs, [trail |-> <<"running">>, logged |-> {}, summary |-> {}])
    /\ Reply(c)
    /\ UNCHANGED <<models, signals, roster>> /\ Bookkeeping

(* finish_run: WHERE status = 'running', else 409.                         *)
FinishRun(c) ==
    LET n == calls[c].at
    IN  /\ At(c, "finish", "read")
        /\ runs' = IF Status(runs[n]) = "running"
                   THEN [runs EXCEPT ![n] = Moved(@, calls[c].intent.to)]
                   ELSE runs
        /\ Reply(c)
        /\ UNCHANGED <<models, signals, roster>> /\ Bookkeeping

(* Mutant: the rows are committed before the header is updated.            *)
InsertMetricAtOnce(c) ==
    /\ At(c, "metric", "read")
    /\ runs' = [runs EXCEPT ![calls[c].at].logged = @ \cup {calls[c].intent.to}]
    /\ Goto(c, "commit")
    /\ UNCHANGED <<models, signals, roster>> /\ Bookkeeping

(* log_metrics: the rows are inserted and the header updated in a single   *)
(* transaction, which nobody sees before it commits.                       *)
InsertMetric(c) ==
    /\ At(c, "metric", "read")
    /\ Goto(c, "commit")
    /\ UNCHANGED catalogues /\ Bookkeeping

MirrorMetric(c) ==
    LET n == calls[c].at
        name == calls[c].intent.to
    IN  /\ At(c, "metric", "commit")
        /\ runs' = [runs EXCEPT ![n].logged = @ \cup {name},
                                ![n].summary = @ \cup ({name} \cap RunLevel)]
        /\ Reply(c)
        /\ UNCHANGED <<models, signals, roster>> /\ Bookkeeping

---------------------------------------------------------------------------
(* POST /signals/{id}/promote.  A refusal is not cached.                   *)
ReadSignal(c) ==
    LET i == calls[c].intent
        status == Status(signals[i.on])
    IN  /\ At(c, "signal", "read")
        /\ CASE i.to = status                      -> Reply(c)
             [] <<status, i.to>> \in SignalMoves   -> Goto(c, "update")
             [] OTHER                              -> Close(c)
        /\ UNCHANGED catalogues /\ Bookkeeping

(* repo.signals.update_status: WHERE signal_id = $1.                       *)
UpdateSignal(c) ==
    LET i == calls[c].intent
    IN  /\ At(c, "signal", "update")
        /\ signals' = [signals EXCEPT ![i.on] = Moved(@, i.to)]
        /\ Reply(c)
        /\ UNCHANGED <<models, runs, roster>> /\ Bookkeeping

---------------------------------------------------------------------------
(* The strategy registry.  Its endpoints have no Idempotency-Key.          *)
Write(c, row) ==
    /\ roster' = Append(roster, row)
    /\ Close(c)
    /\ UNCHANGED <<models, runs, signals>> /\ Bookkeeping

Overwrite(c, n, row) ==
    /\ roster' = [roster EXCEPT ![n] = row]
    /\ Close(c)
    /\ UNCHANGED <<models, runs, signals>> /\ Bookkeeping

Leave(c) == Close(c) /\ UNCHANGED catalogues /\ Bookkeeping

ToRow(c, n) == /\ calls' = [calls EXCEPT ![c].pc = "update", ![c].at = n]
               /\ UNCHANGED catalogues /\ Bookkeeping
Proceed(c, pc) == Goto(c, pc) /\ UNCHANGED catalogues /\ Bookkeeping

(* A named agent's entry is the loop's to keep current, a dashboard        *)
(* admin's is curated.                                                     *)
NewEntry(i) == [slug |-> i.on, key |-> KeyOf[i.on], standing |-> i.to,
                auto |-> i.agent # Admin, archived |-> FALSE, by |-> "caller"]

Edited(row, i) == [row EXCEPT !.standing = i.to, !.by = "caller",
                              !.auto = @ /\ i.agent # Admin]

Create(c) ==
    LET i == calls[c].intent
    IN  /\ At(c, "create", "read")
        /\ IF PlacesOfSlug(i.on) = {} THEN Write(c, NewEntry(i)) ELSE Leave(c)

Patch(c) ==
    LET call == calls[c]
    IN  /\ At(c, "patch", "read")
        /\ Overwrite(c, call.at, Edited(roster[call.at], call.intent))

(* A PATCH that sends another slug, and the strategy that goes with it.    *)
Rename(c) ==
    LET i == calls[c].intent
        n == calls[c].at
    IN  /\ At(c, "rename", "read")
        /\ IF PlacesOfSlug(i.to) \subseteq {n}
           THEN Overwrite(c, n, [roster[n] EXCEPT !.slug = i.to, !.key = KeyOf[i.to],
                                     !.by = "caller", !.auto = @ /\ i.agent # Admin])
           ELSE Leave(c)

Archive(c) ==
    LET n == calls[c].at
    IN  /\ At(c, "archive", "read")
        /\ Overwrite(c, n, [roster[n] EXCEPT !.archived = TRUE, !.by = "caller"])

(* PUT /strategy-registry/by-slug/{slug}: read, then update or insert; an  *)
(* insert that lost the race to another reads again and updates; where the *)
(* other was renamed since, the call fails.                                *)
PutReads(c) ==
    /\ At(c, "put", "read")
    /\ \/ \E n \in PlacesOfSlug(calls[c].intent.on) : ToRow(c, n)
       \/ PlacesOfSlug(calls[c].intent.on) = {} /\ Proceed(c, "insert")

PutInserts(c) ==
    LET i == calls[c].intent
    IN  /\ At(c, "put", "insert")
        /\ IF PlacesOfSlug(i.on) = {} THEN Write(c, NewEntry(i)) ELSE Proceed(c, "reread")

PutRereads(c) ==
    /\ At(c, "put", "reread")
    /\ \/ \E n \in PlacesOfSlug(calls[c].intent.on) : ToRow(c, n)
       \/ PlacesOfSlug(calls[c].intent.on) = {} /\ Leave(c)

(* Mutant: the fallback sets the owner as the insertion would have.        *)
PutUpdatesOwner(c) ==
    LET call == calls[c]
    IN  /\ At(c, "put", "update")
        /\ Overwrite(c, call.at, [Edited(roster[call.at], call.intent)
                                     EXCEPT !.auto = call.intent.agent # Admin])

PutUpdates(c) ==
    LET call == calls[c]
    IN  /\ At(c, "put", "update")
        /\ Overwrite(c, call.at, Edited(roster[call.at], call.intent))

(* find_registry_by_research_key: an entry for this very result before one *)
(* for the universe; LIMIT 1 picks among equals.                           *)
Covering(result) ==
    LET of(key) == {n \in 1..Len(roster) : roster[n].key = key}
    IN  IF of(result) # {} THEN of(result) ELSE of(Universe)

(* Mutant: no early return for a verdict that concludes nothing.           *)
SyncFindsAnyVerdict(c) ==
    LET i == calls[c].intent
    IN  /\ At(c, "sync", "read")
        /\ \/ Covering(i.on) = {} /\ Proceed(c, "insert")
           \/ \E n \in Covering(i.on) : IF roster[n].auto THEN ToRow(c, n) ELSE Leave(c)

SyncFinds(c) ==
    LET i == calls[c].intent
    IN  /\ At(c, "sync", "read")
        /\ IF DeriveStatus(i.to) = "NONE"
           THEN Leave(c)
           ELSE \/ Covering(i.on) = {} /\ Proceed(c, "insert")
                \/ \E n \in Covering(i.on) :
                       IF roster[n].auto THEN ToRow(c, n) ELSE Leave(c)

SyncUpdates(c) ==
    LET call == calls[c]
    IN  /\ At(c, "sync", "update")
        /\ Overwrite(c, call.at, [roster[call.at] EXCEPT
               !.standing = DeriveStatus(call.intent.to), !.by = "sync"])

SyncInserts(c) ==
    LET i == calls[c].intent
    IN  /\ At(c, "sync", "insert")
        /\ IF PlacesOfSlug(SlugOf[i.on]) = {}
           THEN Write(c, [slug |-> SlugOf[i.on], key |-> i.on, standing |-> DeriveStatus(i.to),
                          auto |-> TRUE, archived |-> FALSE, by |-> "sync"])
           ELSE Leave(c)

---------------------------------------------------------------------------
ModelStep(c) == \/ FindByArtifactSha(c) \/ ComputeVersion(c)
                \/ InsertModel(c) \/ RegistrationLost(c)
                \/ ReadModel(c) \/ UpdateStatus(c) \/ MarkSynced(c)

RunStep(c) == InsertRun(c) \/ FinishRun(c) \/ InsertMetric(c) \/ MirrorMetric(c)

SignalStep(c) == ReadSignal(c) \/ UpdateSignal(c)

RosterStep(c) == \/ Create(c) \/ Patch(c) \/ Rename(c) \/ Archive(c)
                 \/ PutReads(c) \/ PutInserts(c) \/ PutRereads(c) \/ PutUpdates(c)
                 \/ SyncFinds(c) \/ SyncUpdates(c) \/ SyncInserts(c)

Next ==
    \/ \E c \in Calls : \/ \E i \in Intents : Arrive(c, i)
                        \/ Replay(c) \/ CacheAnswer(c)
                        \/ ModelStep(c) \/ RunStep(c) \/ SignalStep(c) \/ RosterStep(c)
    \/ Crash

Spec == Init /\ [][Next]_vars

---------------------------------------------------------------------------
TypeOK ==
    /\ models \in Seq(ModelRow)
    /\ runs \in Seq(RunRow)
    /\ signals \in [Signals -> SignalRow]
    /\ roster \in Seq(RosterRow)
    /\ cache \subseteq {Slot(i) : i \in Intents}
    /\ calls \in [Calls -> Call \cup {Idle}]
    /\ begun \in 0..MaxCalls
    /\ crashes \in 0..MaxCrashes

(* However promotions, finishes and registrations overlap, a model has     *)
(* gone along _PROMOTION_TRANSITIONS from the status its gauntlet earned,  *)
(* each edge taken by one call only, and a run from running to one verdict.*)
TrailsFollowGraphs ==
    /\ \A n \in 1..Len(models) : LegalModel(models[n])
    /\ \A n \in 1..Len(runs) : LegalRun(runs[n])

(* A model that is on its way to trading passed the gauntlet; one whose    *)
(* features were not registered was also cleared by hand.                  *)
Deployed == {"staged", "shadow", "cooling_down", "live"}

LiveIsVetted ==
    \A n \in 1..Len(models) : LET m == models[n] IN
        Status(m) \in Deployed =>
            \/ m.gauntlet = "PASS_READY"
            \/ m.gauntlet = "PASS_UNREADY" /\ m.trail[2] = "trained"

(* Both together: the lives of models and runs, whoever races over them.   *)
LivesAreLegal == TrailsFollowGraphs /\ LiveIsVetted

(* The leaderboard reads the header of a run, not its metric rows: a metric*)
(* is in the one exactly when it is, run-level, in the other, at any crash.*)
MirrorAgrees ==
    \A n \in 1..Len(runs) : runs[n].summary = runs[n].logged \cap RunLevel

(* A human edit claims a row from the auto-sync for good: no insertion that*)
(* loses its race, no agent and no sync hands it back to the loop.         *)
ClaimedStaysClaimed ==
    [][\A n \in 1..Len(roster) : ~roster[n].auto => ~roster'[n].auto]_vars

(* api/signals.py: retired is terminal; any rebirth is a new definition.   *)
RetiredIsTerminal ==
    \A s \in Signals : \A n \in 1..Len(signals[s].trail) - 1 :
        signals[s].trail[n] = "retired" => signals[s].trail[n + 1] = "retired"

(* services/registry_sync.py: curated rows (auto_managed FALSE) are never  *)
(* modified by the loop.                                                   *)
CuratedUntouched ==
    [][\A n \in 1..Len(roster) :
          ~roster[n].auto /\ roster'[n] # roster[n] => roster'[n].by = "caller"]_vars
=============================================================================
