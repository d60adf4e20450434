-------------------------- MODULE RegistriesProofs --------------------------
(***************************************************************************)
(* Proofs about Registries, for any agents, artifacts, signals, metrics    *)
(* and entries, any set of calls and any number of them.                   *)
(***************************************************************************)
EXTENDS Registries, TLAPS

---------------------------------------------------------------------------
(* Lemmas about trails.                                                    *)

(* A trail that takes an edge of the graph still follows it.               *)
LEMMA AppendFollows ==
    ASSUME NEW S, NEW trail \in Seq(S), Len(trail) > 0, NEW moves,
           Follows(trail, moves), NEW s \in S, <<trail[Len(trail)], s>> \in moves
    PROVE  LET longer == Append(trail, s)
           IN  longer \in Seq(S) /\ Len(longer) > 0 /\ longer[1] = trail[1]
               /\ Follows(longer, moves)
<1> DEFINE longer == Append(trail, s)
<1>1. longer \in Seq(S) /\ Len(longer) = Len(trail) + 1
    OBVIOUS
<1>2. \A n \in 1..Len(trail) : longer[n] = trail[n]
    OBVIOUS
<1>3. longer[Len(trail) + 1] = s
    OBVIOUS
<1>4. ASSUME NEW n \in 1..Len(longer) - 1
      PROVE  <<longer[n], longer[n + 1]>> \in moves
    <2>1. CASE n = Len(trail)
        BY <2>1, <1>2, <1>3
    <2>2. CASE n # Len(trail)
        <3>1. n \in 1..Len(trail) - 1 /\ n + 1 \in 1..Len(trail)
            BY <2>2, <1>1
        <3> QED BY <3>1, <1>2 DEF Follows
    <2> QED BY <2>1, <2>2
<1> QED BY <1>1, <1>2, <1>4 DEF Follows

(* A legal model that moves along an edge stays legal.                     *)
LEMMA PromotedLegal ==
    ASSUME NEW m, LegalModel(m), NEW to \in PromotionTargets,
           <<Status(m), to>> \in Promotions
    PROVE  LegalModel(Moved(m, to))
<1>1. m.trail \in Seq(ModelStatuses) /\ to \in ModelStatuses
    BY DEF LegalModel, ModelRow, ModelStatuses
<1> HIDE DEF Promotions
<1>2. LET longer == Append(m.trail, to)
      IN  /\ longer \in Seq(ModelStatuses) /\ Len(longer) > 0 /\ longer[1] = m.trail[1]
          /\ Follows(longer, Promotions)
    BY <1>1, AppendFollows DEF LegalModel, Status
<1>3. Moved(m, to) \in ModelRow /\ Moved(m, to).gauntlet = m.gauntlet
      /\ Moved(m, to).trail = Append(m.trail, to)
    BY <1>2 DEF LegalModel, ModelRow, Moved
<1> QED BY <1>2, <1>3 DEF LegalModel

LEMMA FinishedLegal ==
    ASSUME NEW r, LegalRun(r), Status(r) = "running", NEW to \in RunVerdicts
    PROVE  LegalRun(Moved(r, to))
<1> DEFINE S == {"running"} \cup RunVerdicts
<1>1. r.trail \in Seq(S) /\ to \in S /\ <<Status(r), to>> \in RunMoves
    BY DEF LegalRun, RunRow, RunMoves
<1> HIDE DEF RunMoves
<1>2. LET longer == Append(r.trail, to)
      IN  /\ longer \in Seq(S) /\ Len(longer) > 0 /\ longer[1] = r.trail[1]
          /\ Follows(longer, RunMoves)
    BY <1>1, AppendFollows DEF LegalRun, Status
<1>3. Moved(r, to) \in RunRow /\ Moved(r, to).trail = Append(r.trail, to)
    BY <1>2 DEF LegalRun, RunRow, Moved
<1> QED BY <1>2, <1>3 DEF LegalRun

(* What the edges leave no way to: a model that failed the gauntlet, or    *)
(* never met it, has a trail that ends before the ones that trade.         *)
LEMMA LegalIsVetted ==
    ASSUME NEW m, LegalModel(m), Status(m) \in Deployed
    PROVE  \/ m.gauntlet = "PASS_READY"
           \/ m.gauntlet = "PASS_UNREADY" /\ m.trail[2] = "trained"
<1> DEFINE t == m.trail
<1>1. /\ m.gauntlet \in Gauntlets /\ t \in Seq(ModelStatuses) /\ Len(t) \in Nat \ {0}
      /\ t[1] = DerivedStatus[m.gauntlet] /\ t[Len(t)] \in Deployed
    BY DEF LegalModel, ModelRow, Status
<1>2. ASSUME NEW n \in 1..Len(t) - 1
      PROVE  <<t[n], t[n + 1]>> \in Promotions
    BY <1>2 DEF LegalModel, Follows
<1>3. ASSUME NEW n \in 1..Len(t), t[n] \in {"training", "retired"}
      PROVE  n = Len(t)
    <2>1. \A s : <<"training", s>> \notin Promotions /\ <<"retired", s>> \notin Promotions
        BY DEF Promotions
    <2>2. CASE n \in 1..Len(t) - 1
        BY <2>1, <2>2, <1>2, <1>3
    <2> QED BY <2>2, <1>1
<1>4. ASSUME NEW n \in 1..Len(t), t[n] = "rejected_by_operator"
      PROVE  t[Len(t)] \notin Deployed
    <2>1. CASE n = Len(t)
        BY <2>1, <1>4 DEF Deployed
    <2>2. CASE n \in 1..Len(t) - 1
        <3>1. t[n + 1] = "retired"
            BY <2>2, <1>2, <1>4 DEF Promotions
        <3>2. n + 1 = Len(t)
            BY <3>1, <2>2, <1>3, <1>1
        <3> QED BY <3>1, <3>2 DEF Deployed
    <2> QED BY <2>1, <2>2, <1>1
<1>5. m.gauntlet \notin {"FAIL", "NONE"}
    <2>1. m.gauntlet = "NONE" => t[1] = "training"
        BY <1>1 DEF DerivedStatus, Gauntlets
    <2>2. m.gauntlet = "FAIL" => t[1] = "rejected_by_operator"
        BY <1>1 DEF DerivedStatus, Gauntlets
    <2>3. 1 \in 1..Len(t)
        BY <1>1
    <2> QED BY <2>1, <2>2, <2>3, <1>1, <1>3, <1>4 DEF Deployed
<1>6. ASSUME m.gauntlet = "PASS_UNREADY"
      PROVE  t[2] = "trained"
    <2>1. t[1] = "awaiting_operator_review"
        BY <1>1, <1>6 DEF DerivedStatus, Gauntlets
    <2>2. 1 \in 1..Len(t) - 1 /\ 2 \in 1..Len(t)
        BY <2>1, <1>1 DEF Deployed
    <2>3. <<t[1], t[1 + 1]>> \in Promotions
        BY <2>2, <1>2
    <2>4. t[2] \in {"trained", "rejected_by_operator"}
        BY <2>1, <2>3 DEF Promotions
    <2> QED BY <2>2, <2>4, <1>1, <1>4
<1> QED BY <1>1, <1>5, <1>6 DEF Gauntlets

---------------------------------------------------------------------------
(* The inductive invariant.  The tables alone are not inductive: a call    *)
(* that has read decides on what it read, so the invariant also says which *)
(* row a call in flight holds, that a promotion that was let through asks  *)
(* for an edge of the graph and that a sync that goes on has a conclusion. *)
PCs == {"lookup", "read", "insert", "update", "commit", "reread", "store"}

Ready(call, ms, rs, es) ==
    /\ call.intent.op \in {"promote", "synced"} => call.at \in 1..ms
    /\ call.intent.op \in {"finish", "metric"} => call.at \in 1..rs
    /\ call.intent.op \in {"patch", "rename", "archive"} => call.at \in 1..es
    /\ call.intent.op \in {"put", "sync"} /\ call.pc = "update" => call.at \in 1..es
    /\ call.intent.op = "promote" /\ call.pc = "update" =>
           <<call.seen, call.intent.to>> \in Promotions
    /\ call.intent.op = "sync" /\ call.pc \in {"insert", "update"} =>
           DeriveStatus(call.intent.to) # "NONE"

ModelsOK == models \in Seq(ModelRow) /\ \A n \in 1..Len(models) : LegalModel(models[n])
RunsOK == /\ runs \in Seq(RunRow)
          /\ \A n \in 1..Len(runs) : /\ LegalRun(runs[n])
                                     /\ runs[n].summary = runs[n].logged \cap RunLevel
SignalsOK == signals \in [Signals -> SignalRow]
RosterOK == roster \in Seq(RosterRow)
CallsOK == /\ calls \in [Calls -> Call \cup {Idle}]
           /\ \A c \in Calls : calls[c] # Idle =>
                  Ready(calls[c], Len(models), Len(runs), Len(roster))
RestOK == /\ cache \subseteq {Slot(i) : i \in Intents}
          /\ begun \in 0..MaxCalls
          /\ crashes \in 0..MaxCrashes

IInv == ModelsOK /\ RunsOK /\ SignalsOK /\ RosterOK /\ CallsOK /\ RestOK

---------------------------------------------------------------------------
(* What an operation's name says of the rest of an intent.                 *)
LEMMA IntentTypes ==
    ASSUME NEW i \in Intents
    PROVE  /\ i.op \in Operations
           /\ i.op = "register" => i.on \in Artifacts /\ i.to \in Gauntlets
           /\ i.op = "promote" => i.to \in PromotionTargets
           /\ i.op = "finish" => i.to \in RunVerdicts
           /\ i.op = "metric" => i.to \in Metrics
           /\ i.op = "signal" => i.on \in Signals /\ i.to \in SignalStatuses
           /\ i.op \in {"create", "put"} => i.on \in Slugs
           /\ i.op \in RegistryOps \ {"sync", "rename"} => i.to \in Standings
           /\ i.op = "rename" => i.to \in Slugs
           /\ i.op = "sync" => i.on \in Results /\ i.to \in ResearchVerdicts
<1>1. i \in Intent
    BY RegistriesAssumption
<1> QED BY <1>1 DEF Intent, Operations, RegistryOps

(* A slot that is not idle holds a call, and the call its row.             *)
LEMMA BusyCall ==
    ASSUME IInv, NEW c \in Calls, calls[c].pc \in PCs
    PROVE  /\ calls[c] \in Call
           /\ calls[c].intent \in Intents
           /\ calls[c].at \in Nat
           /\ calls[c] # Idle
           /\ Ready(calls[c], Len(models), Len(runs), Len(roster))
<1>1. calls[c] # Idle
    BY DEF Idle, PCs
<1> QED BY <1>1 DEF IInv, CallsOK, Call

(* A row put in the place of another, or at the end, of a table.           *)
LEMMA TableUpdate ==
    ASSUME NEW R, NEW t \in Seq(R), NEW n \in 1..Len(t), NEW r \in R
    PROVE  LET u == [t EXCEPT ![n] = r]
           IN  u \in Seq(R) /\ Len(u) = Len(t) /\ u[n] = r
               /\ \A k \in 1..Len(t) : k # n => u[k] = t[k]
OBVIOUS

LEMMA TableInsert ==
    ASSUME NEW R, NEW t \in Seq(R), NEW r \in R
    PROVE  LET u == Append(t, r)
           IN  u \in Seq(R) /\ Len(u) = Len(t) + 1 /\ u[Len(t) + 1] = r
               /\ \A k \in 1..Len(t) : u[k] = t[k]
OBVIOUS

(* Tables only grow, so that a call which holds a row keeps it.            *)
TablesGrow == /\ Len(models) \in Nat /\ Len(models') \in Nat /\ Len(models) <= Len(models')
              /\ Len(runs) \in Nat /\ Len(runs') \in Nat /\ Len(runs) <= Len(runs')
              /\ Len(roster) \in Nat /\ Len(roster') \in Nat /\ Len(roster) <= Len(roster')

(* One call goes on, the others stay where they are.                       *)
LEMMA CallGoesOn ==
    ASSUME IInv, TablesGrow, NEW c \in Calls, NEW x, calls' = [calls EXCEPT ![c] = x],
           x = Idle \/ (x \in Call /\ Ready(x, Len(models'), Len(runs'), Len(roster')))
    PROVE  CallsOK'
<1>1. calls' \in [Calls -> Call \cup {Idle}]
    BY DEF IInv, CallsOK
<1>2. ASSUME NEW d \in Calls, calls'[d] # Idle
      PROVE  Ready(calls'[d], Len(models'), Len(runs'), Len(roster'))
    <2>1. CASE d = c
        BY <2>1, <1>2 DEF IInv, CallsOK
    <2>2. CASE d # c
        <3>1. calls'[d] = calls[d] /\ Ready(calls[d], Len(models), Len(runs), Len(roster))
            BY <2>2, <1>2 DEF IInv, CallsOK
        <3>2. calls[d].at \in Nat
            BY <3>1, <1>2 DEF IInv, CallsOK, Call
        <3> HIDE DEF Promotions
        <3> QED BY <3>1, <3>2 DEF Ready, TablesGrow
    <2> QED BY <2>1, <2>2
<1> QED BY <1>1, <1>2 DEF CallsOK

(* How most steps treat their call: it ends, or goes on and holds the row  *)
(* it held.                                                                *)
Ends(c) ==
    \/ Close(c)
    \/ \E pc \in PCs \ {"update"} :
           /\ Goto(c, pc)
           /\ pc = "insert" /\ calls[c].intent.op = "sync" =>
                  DeriveStatus(calls[c].intent.to) # "NONE"

LEMMA CallEnds ==
    ASSUME IInv, TablesGrow, NEW c \in Calls, calls[c].pc \in PCs, Ends(c)
    PROVE  CallsOK'
<1>1. CASE Close(c)
    BY <1>1, CallGoesOn DEF Close
<1>2. ASSUME NEW pc \in PCs \ {"update"}, Goto(c, pc),
             pc = "insert" /\ calls[c].intent.op = "sync" =>
                 DeriveStatus(calls[c].intent.to) # "NONE"
      PROVE  CallsOK'
    <2> DEFINE x == [calls[c] EXCEPT !.pc = pc]
    <2>1. calls' = [calls EXCEPT ![c] = x]
        BY <1>2 DEF Goto
    <2>2. calls[c] \in Call /\ Ready(calls[c], Len(models), Len(runs), Len(roster))
        BY BusyCall
    <2>3. /\ x \in Call
          /\ x.intent = calls[c].intent /\ x.at = calls[c].at /\ x.at \in Nat
          /\ x.pc = pc /\ pc # "update"
        BY <2>2, <1>2 DEF Call, PCs
    <2>4. Ready(x, Len(models'), Len(runs'), Len(roster'))
        <3> HIDE DEF x
        <3> QED BY <1>2, <2>2, <2>3 DEF Ready, TablesGrow
    <2> QED BY <2>1, <2>3, <2>4, CallGoesOn
<1> QED BY <1>1, <1>2 DEF Ends

(* A step that leaves the tables alone, and one that writes a single one.  *)
LEMMA TablesStand ==
    ASSUME IInv
    PROVE  /\ Len(models) \in Nat /\ Len(runs) \in Nat /\ Len(roster) \in Nat
           /\ UNCHANGED models => ModelsOK' /\ Len(models') = Len(models)
           /\ UNCHANGED runs => RunsOK' /\ Len(runs') = Len(runs)
           /\ UNCHANGED signals => SignalsOK'
           /\ UNCHANGED roster => RosterOK' /\ Len(roster') = Len(roster)
           /\ Bookkeeping => RestOK'
BY DEF IInv, ModelsOK, RunsOK, SignalsOK, RosterOK, RestOK, Bookkeeping

(* Steps that only read.                                                   *)
LEMMA ReadingSteps ==
    ASSUME IInv, NEW c \in Calls, calls[c].pc \in PCs, Ends(c),
           UNCHANGED catalogues, Bookkeeping
    PROVE  IInv'
<1>1. UNCHANGED <<models, runs, signals, roster>>
    BY DEF catalogues
<1>2. TablesGrow
    BY <1>1, TablesStand DEF TablesGrow
<1>3. CallsOK'
    BY <1>2, CallEnds
<1> QED BY <1>1, <1>3, TablesStand DEF IInv

(* Steps that write the models, the runs or the roster.                    *)
LEMMA ModelWrite ==
    ASSUME IInv, NEW c \in Calls, calls[c].pc \in PCs, Ends(c), Bookkeeping,
           UNCHANGED <<runs, signals, roster>>,
           ModelsOK', Len(models') >= Len(models), Len(models') \in Nat
    PROVE  IInv'
<1>1. TablesGrow
    BY TablesStand DEF TablesGrow
<1> QED BY <1>1, CallEnds, TablesStand DEF IInv

LEMMA RunWrite ==
    ASSUME IInv, NEW c \in Calls, calls[c].pc \in PCs, Ends(c), Bookkeeping,
           UNCHANGED <<models, signals, roster>>,
           RunsOK', Len(runs') >= Len(runs), Len(runs') \in Nat
    PROVE  IInv'
<1>1. TablesGrow
    BY TablesStand DEF TablesGrow
<1> QED BY <1>1, CallEnds, TablesStand DEF IInv

LEMMA RosterWrite ==
    ASSUME IInv, NEW c \in Calls, calls[c].pc \in PCs, Ends(c), Bookkeeping,
           UNCHANGED <<models, runs, signals>>,
           RosterOK', Len(roster') >= Len(roster), Len(roster') \in Nat
    PROVE  IInv'
<1>1. TablesGrow
    BY TablesStand DEF TablesGrow
<1> QED BY <1>1, CallEnds, TablesStand DEF IInv

---------------------------------------------------------------------------
(* Every step preserves the invariant: the calls themselves.               *)
LEMMA ArrivePreserves ==
    ASSUME IInv, NEW c \in Calls, NEW i \in Intents, Arrive(c, i)
    PROVE  IInv'
<1>1. UNCHANGED <<models, runs, signals, roster>>
    BY DEF Arrive, catalogues
<1>2. TablesGrow
    BY <1>1, TablesStand DEF TablesGrow
<1>3. PICK n \in Addressed(i) :
          calls' = [calls EXCEPT ![c] =
              [intent |-> i, at |-> n, version |-> 0, seen |-> "none",
               pc |-> IF Keyed(i) THEN "lookup" ELSE "read"]]
    BY DEF Arrive
<1> DEFINE x == [intent |-> i, at |-> n, version |-> 0, seen |-> "none",
                 pc |-> IF Keyed(i) THEN "lookup" ELSE "read"]
<1>4. /\ n \in Nat
      /\ i.op \in {"promote", "synced"} => n \in 1..Len(models)
      /\ i.op \in {"finish", "metric"} => n \in 1..Len(runs)
      /\ i.op \in {"patch", "rename", "archive"} => n \in 1..Len(roster)
    BY TablesStand DEF Addressed, PlacesOf, PlacesOfSlug
<1>5. x \in Call
    BY <1>4 DEF Call
<1>6. Ready(x, Len(models'), Len(runs'), Len(roster'))
    BY <1>1, <1>4 DEF Ready
<1>7. CallsOK'
    <2> HIDE DEF x
    <2> QED BY <1>2, <1>3, <1>5, <1>6, CallGoesOn DEF x
<1>8. RestOK'
    BY RegistriesAssumption DEF Arrive, IInv, RestOK
<1> QED BY <1>1, <1>7, <1>8, TablesStand DEF IInv

LEMMA CallStepsPreserve ==
    ASSUME IInv, NEW c \in Calls, Replay(c) \/ CacheAnswer(c)
    PROVE  IInv'
<1>1. CASE Replay(c)
    <2>1. calls[c].pc \in PCs /\ Ends(c) /\ UNCHANGED catalogues /\ Bookkeeping
        BY <1>1 DEF Replay, PCs, Ends
    <2> QED BY <2>1, ReadingSteps
<1>2. CASE CacheAnswer(c)
    <2>1. calls[c].pc \in PCs /\ Ends(c) /\ UNCHANGED <<models, runs, signals, roster>>
        BY <1>2 DEF CacheAnswer, PCs, Ends, catalogues
    <2>2. TablesGrow
        BY <2>1, TablesStand DEF TablesGrow
    <2>3. RestOK'
        BY <1>2, <2>1, BusyCall DEF CacheAnswer, IInv, RestOK
    <2> QED BY <2>1, <2>2, <2>3, CallEnds, TablesStand DEF IInv
<1> QED BY <1>1, <1>2

LEMMA CrashPreserves ==
    ASSUME IInv, Crash
    PROVE  IInv'
<1>1. UNCHANGED <<models, runs, signals, roster>>
    BY DEF Crash, catalogues
<1>2. CallsOK'
    BY DEF Crash, CallsOK
<1>3. RestOK'
    BY RegistriesAssumption DEF Crash, IInv, RestOK
<1> QED BY <1>1, <1>2, <1>3, TablesStand DEF IInv

---------------------------------------------------------------------------
(* The models.                                                             *)
LEMMA InsertModelPreserves ==
    ASSUME IInv, NEW c \in Calls, InsertModel(c)
    PROVE  IInv'
<1> DEFINE i == calls[c].intent
           row == [artifact |-> i.on, gauntlet |-> i.to, synced |-> FALSE,
                   trail |-> <<DerivedStatus[i.to]>>]
<1>1. /\ calls[c].pc \in PCs /\ i.op = "register" /\ Ends(c) /\ Bookkeeping
      /\ UNCHANGED <<runs, signals, roster>> /\ models' = Append(models, row)
    BY DEF InsertModel, At, Reply, Ends, PCs
<1>2. i.on \in Artifacts /\ i.to \in Gauntlets
    BY <1>1, BusyCall, IntentTypes
<1>3. DerivedStatus[i.to] \in ModelStatuses
    BY <1>2 DEF DerivedStatus, Gauntlets, ModelStatuses, PromotionTargets
<1>4. /\ row \in ModelRow /\ row.trail = <<DerivedStatus[i.to]>>
      /\ row.gauntlet = i.to
    BY <1>2, <1>3 DEF ModelRow
<1>5. LegalModel(row)
    <2>1. Len(row.trail) = 1 /\ row.trail[1] = DerivedStatus[row.gauntlet]
        BY <1>4
    <2> HIDE DEF row
    <2> QED BY <1>4, <2>1 DEF LegalModel, Follows
<1>6. ModelsOK' /\ Len(models') = Len(models) + 1
    <2> HIDE DEF row
    <2> QED BY <1>1, <1>4, <1>5, TableInsert DEF IInv, ModelsOK
<1> QED BY <1>1, <1>6, TablesStand, ModelWrite

LEMMA ReadModelPreserves ==
    ASSUME IInv, NEW c \in Calls, ReadModel(c)
    PROVE  IInv'
<1> DEFINE status == Status(models[calls[c].at])
           x == [calls[c] EXCEPT !.pc = "update", !.seen = status]
<1>1. /\ calls[c].pc \in PCs /\ calls[c].intent.op = "promote"
      /\ UNCHANGED <<models, runs, signals, roster>> /\ Bookkeeping
    BY DEF ReadModel, At, PCs, catalogues
<1>2. /\ calls[c] \in Call
      /\ Ready(calls[c], Len(models), Len(runs), Len(roster))
    BY <1>1, BusyCall
<1>3. CASE <<status, calls[c].intent.to>> \in Promotions
    <2>1. calls' = [calls EXCEPT ![c] = x]
        BY <1>3 DEF ReadModel
    <2>2. status \in ModelStatuses
        BY <1>1, <1>2 DEF Ready, IInv, ModelsOK, LegalModel, ModelRow, Status
    <2>3. /\ x \in Call /\ x.at = calls[c].at /\ x.intent = calls[c].intent
          /\ x.pc = "update" /\ x.seen = status
        BY <1>2, <2>2 DEF Call
    <2>4. Ready(x, Len(models'), Len(runs'), Len(roster'))
        <3> HIDE DEF x, status
        <3> HIDE DEF Promotions
        <3> QED BY <1>1, <1>2, <1>3, <2>3, TablesStand DEF Ready
    <2>5. TablesGrow
        BY <1>1, TablesStand DEF TablesGrow
    <2>6. CallsOK'
        <3> HIDE DEF x
        <3> QED BY <2>1, <2>3, <2>4, <2>5, CallGoesOn
    <2> QED BY <1>1, <2>6, TablesStand DEF IInv
<1>4. CASE <<status, calls[c].intent.to>> \notin Promotions
    <2>1. Ends(c)
        BY <1>4 DEF ReadModel, Reply, Ends, PCs
    <2> QED BY <1>1, <2>1, ReadingSteps DEF catalogues
<1> QED BY <1>3, <1>4

(* The status the UPDATE matched is the one the promotion was let through  *)
(* from, so the move is an edge of the graph.                              *)
LEMMA UpdateStatusPreserves ==
    ASSUME IInv, NEW c \in Calls, UpdateStatus(c)
    PROVE  IInv'
<1> DEFINE n == calls[c].at
           to == calls[c].intent.to
           row == Moved(models[n], to)
<1>1. /\ calls[c].pc \in PCs /\ calls[c].pc = "update" /\ calls[c].intent.op = "promote"
      /\ Ends(c) /\ Bookkeeping /\ UNCHANGED <<runs, signals, roster>>
    BY DEF UpdateStatus, At, Reply, Ends, PCs
<1>2. /\ n \in 1..Len(models) /\ <<calls[c].seen, to>> \in Promotions
      /\ to \in PromotionTargets
    <2> HIDE DEF Promotions
    <2> QED BY <1>1, BusyCall, IntentTypes DEF Ready
<1>3. CASE Status(models[n]) = calls[c].seen
    <2>1. LegalModel(row)
        <3> HIDE DEF Promotions
        <3> QED BY <1>2, <1>3, PromotedLegal DEF IInv, ModelsOK
    <2>2. models' = [models EXCEPT ![n] = row]
        BY <1>3 DEF UpdateStatus
    <2>3. row \in ModelRow
        BY <2>1 DEF LegalModel
    <2>4. ModelsOK' /\ Len(models') = Len(models)
        <3> HIDE DEF row
        <3> QED BY <1>2, <2>1, <2>2, <2>3, TableUpdate DEF IInv, ModelsOK
    <2> QED BY <1>1, <2>4, TablesStand, ModelWrite
<1>4. CASE Status(models[n]) # calls[c].seen
    <2>1. UNCHANGED models
        BY <1>4 DEF UpdateStatus
    <2> QED BY <1>1, <2>1, ReadingSteps DEF catalogues
<1> QED BY <1>3, <1>4

LEMMA MarkSyncedPreserves ==
    ASSUME IInv, NEW c \in Calls, MarkSynced(c)
    PROVE  IInv'
<1> DEFINE n == calls[c].at
           row == [models[n] EXCEPT !.synced = TRUE]
<1>1. /\ calls[c].pc \in PCs /\ calls[c].intent.op = "synced"
      /\ Ends(c) /\ Bookkeeping /\ UNCHANGED <<runs, signals, roster>>
      /\ models' = [models EXCEPT ![n] = row]
    BY DEF MarkSynced, At, Reply, Ends, PCs
<1>2. n \in 1..Len(models)
    BY <1>1, BusyCall DEF Ready
<1>3. LegalModel(models[n]) /\ models[n] \in ModelRow
    BY <1>2 DEF IInv, ModelsOK, LegalModel
<1>4. row \in ModelRow /\ row.trail = models[n].trail /\ row.gauntlet = models[n].gauntlet
    BY <1>3 DEF ModelRow
<1>5. LegalModel(row)
    BY <1>3, <1>4 DEF LegalModel
<1>6. ModelsOK' /\ Len(models') = Len(models)
    <2> HIDE DEF row
    <2> QED BY <1>1, <1>2, <1>4, <1>5, TableUpdate DEF IInv, ModelsOK
<1> QED BY <1>1, <1>6, TablesStand, ModelWrite

LEMMA ModelStepsPreserve ==
    ASSUME IInv, NEW c \in Calls, ModelStep(c)
    PROVE  IInv'
<1>1. CASE FindByArtifactSha(c) \/ RegistrationLost(c)
    <2>1. calls[c].pc \in PCs /\ Ends(c) /\ UNCHANGED catalogues /\ Bookkeeping
        BY <1>1 DEF FindByArtifactSha, RegistrationLost, At, Reply, PCs, Ends
    <2> QED BY <2>1, ReadingSteps
<1>2. CASE ComputeVersion(c)
    <2> DEFINE x == [calls[c] EXCEPT !.pc = "commit", !.version = Len(models) + 1]
    <2>1. /\ calls[c].pc \in PCs /\ calls[c].intent.op = "register" /\ Bookkeeping
          /\ UNCHANGED <<models, runs, signals, roster>> /\ calls' = [calls EXCEPT ![c] = x]
        BY <1>2 DEF ComputeVersion, At, PCs, catalogues
    <2>2. calls[c] \in Call /\ Len(models) + 1 \in Nat
        BY <2>1, BusyCall, TablesStand
    <2>3. x \in Call /\ x.intent = calls[c].intent /\ x.pc = "commit"
        BY <2>2 DEF Call
    <2>4. Ready(x, Len(models'), Len(runs'), Len(roster'))
        <3> HIDE DEF x
        <3> QED BY <2>1, <2>3 DEF Ready
    <2>5. TablesGrow
        BY <2>1, TablesStand DEF TablesGrow
    <2>6. CallsOK'
        <3> HIDE DEF x
        <3> QED BY <2>1, <2>3, <2>4, <2>5, CallGoesOn
    <2> QED BY <2>1, <2>6, TablesStand DEF IInv
<1> QED BY <1>1, <1>2, InsertModelPreserves, ReadModelPreserves,
           UpdateStatusPreserves, MarkSyncedPreserves DEF ModelStep

---------------------------------------------------------------------------
(* The runs.                                                               *)
LEMMA InsertRunPreserves ==
    ASSUME IInv, NEW c \in Calls, InsertRun(c)
    PROVE  IInv'
<1> DEFINE row == [trail |-> <<"running">>, logged |-> {}, summary |-> {}]
<1>1. /\ calls[c].pc \in PCs /\ Ends(c) /\ Bookkeeping
      /\ UNCHANGED <<models, signals, roster>> /\ runs' = Append(runs, row)
    BY DEF InsertRun, At, Reply, Ends, PCs
<1>2. /\ row \in RunRow /\ row.trail = <<"running">>
      /\ row.summary = row.logged \cap RunLevel
    BY DEF RunRow
<1>3. LegalRun(row)
    <2>1. Len(row.trail) = 1 /\ row.trail[1] = "running"
        BY <1>2
    <2> HIDE DEF row
    <2> QED BY <1>2, <2>1 DEF LegalRun, Follows
<1>4. RunsOK' /\ Len(runs') = Len(runs) + 1
    <2> HIDE DEF row
    <2> QED BY <1>1, <1>2, <1>3, TableInsert DEF IInv, RunsOK
<1> QED BY <1>1, <1>4, TablesStand, RunWrite

LEMMA FinishRunPreserves ==
    ASSUME IInv, NEW c \in Calls, FinishRun(c)
    PROVE  IInv'
<1> DEFINE n == calls[c].at
           to == calls[c].intent.to
           row == Moved(runs[n], to)
<1>1. /\ calls[c].pc \in PCs /\ calls[c].intent.op = "finish"
      /\ Ends(c) /\ Bookkeeping /\ UNCHANGED <<models, signals, roster>>
    BY DEF FinishRun, At, Reply, Ends, PCs
<1>2. n \in 1..Len(runs) /\ to \in RunVerdicts
    BY <1>1, BusyCall, IntentTypes DEF Ready
<1>3. CASE Status(runs[n]) = "running"
    <2>1. LegalRun(runs[n]) /\ runs[n].summary = runs[n].logged \cap RunLevel
        BY <1>2 DEF IInv, RunsOK
    <2>2. LegalRun(row)
        BY <1>2, <1>3, <2>1, FinishedLegal
    <2>3. /\ row \in RunRow /\ row.summary = row.logged \cap RunLevel
        BY <2>1, <2>2 DEF LegalRun, RunRow, Moved
    <2>4. runs' = [runs EXCEPT ![n] = row]
        BY <1>3 DEF FinishRun
    <2>5. RunsOK' /\ Len(runs') = Len(runs)
        <3> HIDE DEF row
        <3> QED BY <1>2, <2>2, <2>3, <2>4, TableUpdate DEF IInv, RunsOK
    <2> QED BY <1>1, <2>5, TablesStand, RunWrite
<1>4. CASE Status(runs[n]) # "running"
    <2>1. UNCHANGED runs
        BY <1>4 DEF FinishRun
    <2> QED BY <1>1, <2>1, ReadingSteps DEF catalogues
<1> QED BY <1>3, <1>4

(* The metric row and the header are written by one commit.                *)
LEMMA MirrorMetricPreserves ==
    ASSUME IInv, NEW c \in Calls, MirrorMetric(c)
    PROVE  IInv'
<1> DEFINE n == calls[c].at
           name == calls[c].intent.to
           row == [runs[n] EXCEPT !.logged = @ \cup {name},
                                  !.summary = @ \cup ({name} \cap RunLevel)]
<1>1. /\ calls[c].pc \in PCs /\ calls[c].intent.op = "metric"
      /\ Ends(c) /\ Bookkeeping /\ UNCHANGED <<models, signals, roster>>
    BY DEF MirrorMetric, At, Reply, Ends, PCs
<1>2. n \in 1..Len(runs) /\ name \in Metrics
    BY <1>1, BusyCall, IntentTypes DEF Ready
<1>3. LegalRun(runs[n]) /\ runs[n] \in RunRow /\ runs[n].summary = runs[n].logged \cap RunLevel
    BY <1>2 DEF IInv, RunsOK, LegalRun
<1>4. runs' = [runs EXCEPT ![n] = row]
    BY <1>2, <1>3 DEF MirrorMetric, RunRow, IInv, RunsOK
<1>5. /\ row \in RunRow /\ row.trail = runs[n].trail
      /\ row.logged = runs[n].logged \cup {name}
      /\ row.summary = runs[n].summary \cup ({name} \cap RunLevel)
    BY <1>2, <1>3 DEF RunRow
<1>6. LegalRun(row) /\ row.summary = row.logged \cap RunLevel
    BY <1>3, <1>5 DEF LegalRun
<1>7. RunsOK' /\ Len(runs') = Len(runs)
    <2> HIDE DEF row
    <2> QED BY <1>2, <1>4, <1>5, <1>6, TableUpdate DEF IInv, RunsOK
<1> QED BY <1>1, <1>7, TablesStand, RunWrite

LEMMA RunStepsPreserve ==
    ASSUME IInv, NEW c \in Calls, RunStep(c)
    PROVE  IInv'
<1>1. CASE InsertMetric(c)
    <2>1. calls[c].pc \in PCs /\ Ends(c) /\ UNCHANGED catalogues /\ Bookkeeping
        BY <1>1 DEF InsertMetric, At, PCs, Ends
    <2> QED BY <2>1, ReadingSteps
<1> QED BY <1>1, InsertRunPreserves, FinishRunPreserves, MirrorMetricPreserves DEF RunStep

---------------------------------------------------------------------------
(* The signals.                                                            *)
LEMMA ToUpdate ==
    ASSUME IInv, NEW c \in Calls, calls[c].pc \in PCs,
           calls[c].intent.op \notin {"promote", "put", "sync"},
           UNCHANGED catalogues, Bookkeeping, Goto(c, "update")
    PROVE  IInv'
<1> DEFINE x == [calls[c] EXCEPT !.pc = "update"]
<1>1. UNCHANGED <<models, runs, signals, roster>> /\ calls' = [calls EXCEPT ![c] = x]
    BY DEF catalogues, Goto
<1>2. calls[c] \in Call /\ Ready(calls[c], Len(models), Len(runs), Len(roster))
    BY BusyCall
<1>3. x \in Call /\ x.intent = calls[c].intent /\ x.at = calls[c].at
    BY <1>2 DEF Call
<1>4. Ready(x, Len(models'), Len(runs'), Len(roster'))
    <2> HIDE DEF x
    <2> QED BY <1>1, <1>2, <1>3 DEF Ready
<1>5. TablesGrow
    BY <1>1, TablesStand DEF TablesGrow
<1>6. CallsOK'
    <2> HIDE DEF x
    <2> QED BY <1>1, <1>3, <1>4, <1>5, CallGoesOn
<1> QED BY <1>1, <1>6, TablesStand DEF IInv

LEMMA MovedSignal ==
    ASSUME NEW r \in SignalRow, NEW s \in SignalStatuses
    PROVE  Moved(r, s) \in SignalRow
<1> HIDE DEF SignalStatuses
<1>1. Append(r.trail, s) \in Seq(SignalStatuses)
    BY DEF SignalRow
<1> QED BY <1>1 DEF Moved, SignalRow

LEMMA SignalStepsPreserve ==
    ASSUME IInv, NEW c \in Calls, SignalStep(c)
    PROVE  IInv'
<1> DEFINE i == calls[c].intent
<1>1. CASE ReadSignal(c)
    <2>1. /\ calls[c].pc \in PCs /\ i.op = "signal" /\ UNCHANGED catalogues /\ Bookkeeping
        BY <1>1 DEF ReadSignal, At, PCs
    <2>2. Ends(c) \/ Goto(c, "update")
        BY <1>1 DEF ReadSignal, Reply, Ends, PCs
    <2> QED BY <2>1, <2>2, ReadingSteps, ToUpdate
<1>2. CASE UpdateSignal(c)
    <2>1. /\ calls[c].pc \in PCs /\ i.op = "signal" /\ Ends(c) /\ Bookkeeping
          /\ UNCHANGED <<models, runs, roster>>
          /\ signals' = [signals EXCEPT ![i.on] = Moved(@, i.to)]
        BY <1>2 DEF UpdateSignal, At, PCs, Reply, Ends
    <2>2. i.on \in Signals /\ i.to \in SignalStatuses
        BY <2>1, BusyCall, IntentTypes
    <2>3. signals[i.on] \in SignalRow
        BY <2>2 DEF IInv, SignalsOK
    <2>4. Moved(signals[i.on], i.to) \in SignalRow
        BY <2>2, <2>3, MovedSignal
    <2>5. SignalsOK'
        BY <2>1, <2>2, <2>4 DEF IInv, SignalsOK
    <2>6. TablesGrow
        BY <2>1, TablesStand DEF TablesGrow
    <2> QED BY <2>1, <2>5, <2>6, CallEnds, TablesStand DEF IInv
<1> QED BY <1>1, <1>2 DEF SignalStep

---------------------------------------------------------------------------
(* The roster.                                                             *)
LEMMA Inserting ==
    ASSUME IInv, NEW c \in Calls, calls[c].pc \in PCs, NEW row \in RosterRow, Write(c, row)
    PROVE  IInv'
<1>1. /\ Ends(c) /\ Bookkeeping /\ UNCHANGED <<models, runs, signals>>
      /\ roster' = Append(roster, row)
    BY DEF Write, Ends
<1>2. RosterOK' /\ Len(roster') = Len(roster) + 1
    BY <1>1, TableInsert DEF IInv, RosterOK
<1> QED BY <1>1, <1>2, TablesStand, RosterWrite

LEMMA Overwriting ==
    ASSUME IInv, NEW c \in Calls, calls[c].pc \in PCs, NEW n \in 1..Len(roster),
           NEW row \in RosterRow, Overwrite(c, n, row)
    PROVE  IInv'
<1>1. /\ Ends(c) /\ Bookkeeping /\ UNCHANGED <<models, runs, signals>>
      /\ roster' = [roster EXCEPT ![n] = row]
    BY DEF Overwrite, Ends
<1>2. RosterOK' /\ Len(roster') = Len(roster)
    BY <1>1, TableUpdate DEF IInv, RosterOK
<1> QED BY <1>1, <1>2, TablesStand, RosterWrite

LEMMA Leaving ==
    ASSUME IInv, NEW c \in Calls, calls[c].pc \in PCs, Leave(c)
    PROVE  IInv'
<1>1. Ends(c) /\ UNCHANGED catalogues /\ Bookkeeping
    BY DEF Leave, Ends
<1> QED BY <1>1, ReadingSteps

LEMMA Proceeding ==
    ASSUME IInv, NEW c \in Calls, calls[c].pc \in PCs, NEW pc \in PCs \ {"update"},
           pc = "insert" /\ calls[c].intent.op = "sync" =>
               DeriveStatus(calls[c].intent.to) # "NONE",
           Proceed(c, pc)
    PROVE  IInv'
<1>1. Ends(c) /\ UNCHANGED catalogues /\ Bookkeeping
    BY DEF Proceed, Ends
<1> QED BY <1>1, ReadingSteps

LEMMA HoldingRow ==
    ASSUME IInv, NEW c \in Calls, calls[c].pc \in PCs, calls[c].intent.op \in {"put", "sync"},
           calls[c].intent.op = "sync" => DeriveStatus(calls[c].intent.to) # "NONE",
           NEW n \in 1..Len(roster), ToRow(c, n)
    PROVE  IInv'
<1> DEFINE x == [calls[c] EXCEPT !.pc = "update", !.at = n]
<1>1. UNCHANGED <<models, runs, signals, roster>> /\ calls' = [calls EXCEPT ![c] = x]
      /\ Bookkeeping
    BY DEF ToRow, catalogues
<1>2. calls[c] \in Call /\ n \in Nat
    BY BusyCall
<1>3. x \in Call /\ x.intent = calls[c].intent /\ x.at = n
    BY <1>2 DEF Call
<1>4. Ready(x, Len(models'), Len(runs'), Len(roster'))
    <2> HIDE DEF x
    <2> QED BY <1>1, <1>3 DEF Ready
<1>5. TablesGrow
    BY <1>1, TablesStand DEF TablesGrow
<1>6. CallsOK'
    <2> HIDE DEF x
    <2> QED BY <1>1, <1>3, <1>4, <1>5, CallGoesOn
<1> QED BY <1>1, <1>6, TablesStand DEF IInv

LEMMA EntryTypes ==
    ASSUME NEW i \in Intents, i.op \in RegistryOps \ {"sync", "rename"}
    PROVE  /\ i.op \in {"create", "put"} => NewEntry(i) \in RosterRow
           /\ \A row \in RosterRow : Edited(row, i) \in RosterRow
<1>1. i.to \in Standings /\ (i.op \in {"create", "put"} => i.on \in Slugs)
    BY IntentTypes
<1>2. i.op \in {"create", "put"} => KeyOf[i.on] \in Results \cup {Universe, NoKey}
    BY <1>1, RegistriesAssumption
<1>3. (i.agent # Admin) \in BOOLEAN
    OBVIOUS
<1>4. i.op \in {"create", "put"} => NewEntry(i) \in RosterRow
    BY <1>1, <1>2, <1>3 DEF NewEntry, RosterRow
<1>5. ASSUME NEW row \in RosterRow
      PROVE  Edited(row, i) \in RosterRow
    BY <1>1, <1>3, <1>5 DEF Edited, RosterRow
<1> QED BY <1>4, <1>5

LEMMA VerdictStanding ==
    ASSUME NEW v \in ResearchVerdicts, DeriveStatus(v) # "NONE"
    PROVE  DeriveStatus(v) \in Standings
BY DEF DeriveStatus, ResearchVerdicts, Standings

LEMMA RosterStepsPreserve ==
    ASSUME IInv, NEW c \in Calls, RosterStep(c)
    PROVE  IInv'
<1> DEFINE i == calls[c].intent
           n == calls[c].at
<1>0. IInv
    OBVIOUS
<1>1. CASE Create(c)
    <2>1. calls[c].pc \in PCs /\ i.op = "create"
        BY <1>1 DEF Create, At, PCs
    <2>2. NewEntry(i) \in RosterRow
        BY <2>1, BusyCall, EntryTypes DEF RegistryOps
    <2>3. Write(c, NewEntry(i)) \/ Leave(c)
        BY <1>1 DEF Create
    <2> QED BY <2>1, <2>2, <2>3, Inserting, Leaving
<1>2. CASE Patch(c)
    <2>1. calls[c].pc \in PCs /\ i.op = "patch"
        BY <1>2 DEF Patch, At, PCs
    <2>2. n \in 1..Len(roster)
        BY <2>1, BusyCall DEF Ready
    <2>3. Edited(roster[n], i) \in RosterRow
        BY <2>1, <2>2, BusyCall, EntryTypes DEF IInv, RosterOK, RegistryOps
    <2>4. Overwrite(c, n, Edited(roster[n], i))
        BY <1>2 DEF Patch
    <2> QED BY <2>1, <2>2, <2>3, <2>4, Overwriting
<1>3. CASE Archive(c)
    <2> DEFINE row == [roster[n] EXCEPT !.archived = TRUE, !.by = "caller"]
    <2>1. calls[c].pc \in PCs /\ i.op = "archive"
        BY <1>3 DEF Archive, At, PCs
    <2>2. n \in 1..Len(roster)
        BY <2>1, BusyCall DEF Ready
    <2>3. roster[n] \in RosterRow
        BY <2>2 DEF IInv, RosterOK
    <2>4. row \in RosterRow
        BY <2>3 DEF RosterRow
    <2>5. Overwrite(c, n, row)
        BY <1>3 DEF Archive
    <2> HIDE DEF row
    <2> QED BY <2>1, <2>2, <2>4, <2>5, Overwriting
<1>4. CASE PutReads(c)
    <2>1. calls[c].pc \in PCs /\ i.op = "put"
        BY <1>4 DEF PutReads, At, PCs
    <2>2. Proceed(c, "insert") \/ \E k \in 1..Len(roster) : ToRow(c, k)
        BY <1>4 DEF PutReads, PlacesOfSlug
    <2>3. "insert" \in PCs \ {"update"}
        BY DEF PCs
    <2> QED BY <2>1, <2>2, <2>3, Proceeding, HoldingRow
<1>5. CASE PutInserts(c)
    <2>1. calls[c].pc \in PCs /\ i.op = "put"
        BY <1>5 DEF PutInserts, At, PCs
    <2>2. NewEntry(i) \in RosterRow
        BY <2>1, BusyCall, EntryTypes DEF RegistryOps
    <2>3. Write(c, NewEntry(i)) \/ Proceed(c, "reread")
        BY <1>5 DEF PutInserts
    <2>4. "reread" \in PCs \ {"update"}
        BY DEF PCs
    <2> QED BY <2>1, <2>2, <2>3, <2>4, Inserting, Proceeding
<1>6. CASE PutRereads(c)
    <2>1. calls[c].pc \in PCs /\ i.op = "put"
        BY <1>6 DEF PutRereads, At, PCs
    <2>2. Leave(c) \/ \E k \in 1..Len(roster) : ToRow(c, k)
        BY <1>6 DEF PutRereads, PlacesOfSlug
    <2> QED BY <2>1, <2>2, HoldingRow, Leaving
<1>7. CASE PutUpdates(c)
    <2>1. calls[c].pc \in PCs /\ calls[c].pc = "update" /\ i.op = "put"
        BY <1>7 DEF PutUpdates, At, PCs
    <2>2. n \in 1..Len(roster)
        BY <2>1, BusyCall DEF Ready
    <2>3. Edited(roster[n], i) \in RosterRow
        BY <2>1, <2>2, BusyCall, EntryTypes DEF IInv, RosterOK, RegistryOps
    <2>4. Overwrite(c, n, Edited(roster[n], i))
        BY <1>7 DEF PutUpdates
    <2> QED BY <2>1, <2>2, <2>3, <2>4, Overwriting
<1>8. CASE SyncFinds(c)
    <2>1. calls[c].pc \in PCs /\ i.op = "sync"
        BY <1>8 DEF SyncFinds, At, PCs
    <2>2. Covering(i.on) \subseteq 1..Len(roster)
        BY DEF Covering
    <2>3. \/ Leave(c)
          \/ /\ DeriveStatus(i.to) # "NONE"
             /\ Proceed(c, "insert") \/ \E k \in 1..Len(roster) : ToRow(c, k)
        BY <1>8, <2>2 DEF SyncFinds
    <2>4. "insert" \in PCs \ {"update"}
        BY DEF PCs
    <2> QED BY <2>1, <2>3, <2>4, Leaving, Proceeding, HoldingRow
<1>9. CASE SyncUpdates(c)
    <2> DEFINE row == [roster[n] EXCEPT !.standing = DeriveStatus(i.to), !.by = "sync"]
    <2>1. calls[c].pc \in PCs /\ calls[c].pc = "update" /\ i.op = "sync"
        BY <1>9 DEF SyncUpdates, At, PCs
    <2>2. n \in 1..Len(roster) /\ DeriveStatus(i.to) # "NONE"
        <3> HIDE DEF DeriveStatus
        <3> QED BY <2>1, BusyCall DEF Ready
    <2>3. roster[n] \in RosterRow /\ DeriveStatus(i.to) \in Standings
        BY <2>1, <2>2, BusyCall, IntentTypes, VerdictStanding DEF IInv, RosterOK
    <2>4. row \in RosterRow
        <3> HIDE DEF DeriveStatus
        <3> QED BY <2>3 DEF RosterRow
    <2>5. Overwrite(c, n, row)
        BY <1>9 DEF SyncUpdates
    <2> HIDE DEF row
    <2> QED BY <2>1, <2>2, <2>4, <2>5, Overwriting
<1>10. CASE SyncInserts(c)
    <2> DEFINE row == [slug |-> SlugOf[i.on], key |-> i.on, standing |-> DeriveStatus(i.to),
                       auto |-> TRUE, archived |-> FALSE, by |-> "sync"]
    <2>1. calls[c].pc \in PCs /\ calls[c].pc = "insert" /\ i.op = "sync"
        BY <1>10 DEF SyncInserts, At, PCs
    <2>2. i.on \in Results /\ DeriveStatus(i.to) \in Standings
        BY <2>1, BusyCall, IntentTypes, VerdictStanding DEF Ready
    <2>3. row \in RosterRow
        <3> HIDE DEF DeriveStatus
        <3> QED BY <2>2, RegistriesAssumption DEF RosterRow
    <2>4. Write(c, row) \/ Leave(c)
        BY <1>10 DEF SyncInserts
    <2> HIDE DEF row
    <2> QED BY <2>1, <2>3, <2>4, Inserting, Leaving
<1>11. CASE Rename(c)
    <2> DEFINE row == [roster[n] EXCEPT !.slug = i.to, !.key = KeyOf[i.to],
                           !.by = "caller", !.auto = @ /\ i.agent # Admin]
    <2>1. calls[c].pc \in PCs /\ i.op = "rename"
        BY <1>11 DEF Rename, At, PCs
    <2>2. n \in 1..Len(roster) /\ i.to \in Slugs
        BY <2>1, BusyCall, IntentTypes DEF Ready
    <2>3. roster[n] \in RosterRow /\ KeyOf[i.to] \in Results \cup {Universe, NoKey}
        BY <2>2, RegistriesAssumption DEF IInv, RosterOK
    <2>4. row \in RosterRow
        BY <2>2, <2>3 DEF RosterRow
    <2>5. Overwrite(c, n, row) \/ Leave(c)
        BY <1>11 DEF Rename
    <2> HIDE DEF row
    <2> QED BY <2>1, <2>2, <2>4, <2>5, Overwriting, Leaving
<1> QED BY <1>1, <1>2, <1>3, <1>4, <1>5, <1>6, <1>7, <1>8, <1>9, <1>10, <1>11 DEF RosterStep

---------------------------------------------------------------------------
(* The theorems.                                                           *)
LEMMA StepPreserves ==
    ASSUME IInv, [Next]_vars
    PROVE  IInv'
<1>1. CASE UNCHANGED vars
    BY <1>1 DEF vars, catalogues, IInv, ModelsOK, RunsOK, SignalsOK, RosterOK, CallsOK, RestOK
<1>2. ASSUME NEW c \in Calls, NEW i \in Intents, Arrive(c, i)
      PROVE  IInv'
    BY <1>2, ArrivePreserves
<1>3. ASSUME NEW c \in Calls,
             \/ Replay(c) \/ CacheAnswer(c)
             \/ ModelStep(c) \/ RunStep(c) \/ SignalStep(c) \/ RosterStep(c)
      PROVE  IInv'
    BY <1>3, CallStepsPreserve, ModelStepsPreserve, RunStepsPreserve,
       SignalStepsPreserve, RosterStepsPreserve
<1>4. CASE Crash
    BY <1>4, CrashPreserves
<1> QED BY <1>1, <1>2, <1>3, <1>4 DEF Next

THEOREM Invariance == Spec => []IInv
<1>1. Init => IInv
    <2> SUFFICES ASSUME Init PROVE IInv
        OBVIOUS
    <2>1. ModelsOK /\ RunsOK /\ SignalsOK /\ RosterOK
        BY RegistriesAssumption DEF Init, ModelsOK, RunsOK, SignalsOK, RosterOK
    <2>2. CallsOK /\ RestOK
        BY RegistriesAssumption DEF Init, CallsOK, RestOK
    <2> QED BY <2>1, <2>2 DEF IInv
<1>2. IInv /\ [Next]_vars => IInv'
    BY StepPreserves
<1> QED BY <1>1, <1>2, PTL DEF Spec

(* Whatever the calls, the tables and the calls in flight are well formed. *)
THEOREM TypeCorrect == Spec => []TypeOK
<1>1. IInv => TypeOK
    BY DEF IInv, ModelsOK, RunsOK, SignalsOK, RosterOK, CallsOK, RestOK, TypeOK
<1> QED BY <1>1, Invariance, PTL

(* Promotions, finishes and registrations by any number of callers never   *)
(* take a model or a run off its graph, nor an edge twice.                 *)
THEOREM GraphsFollowed == Spec => []TrailsFollowGraphs
<1>1. IInv => TrailsFollowGraphs
    BY DEF IInv, ModelsOK, RunsOK, TrailsFollowGraphs
<1> QED BY <1>1, Invariance, PTL

(* No model trades that its gauntlet, and where its features were missing  *)
(* an operator, did not let through.                                       *)
THEOREM OnlyVettedGoLive == Spec => []LiveIsVetted
<1>1. IInv => LiveIsVetted
    <2> SUFFICES ASSUME IInv, NEW n \in 1..Len(models), Status(models[n]) \in Deployed
                 PROVE  \/ models[n].gauntlet = "PASS_READY"
                        \/ models[n].gauntlet = "PASS_UNREADY" /\ models[n].trail[2] = "trained"
        BY DEF LiveIsVetted
    <2> QED BY LegalIsVetted DEF IInv, ModelsOK
<1> QED BY <1>1, Invariance, PTL

(* Together: models and runs live legal lives, whoever races over them.    *)
THEOREM LivesStayLegal == Spec => []LivesAreLegal
<1>1. TrailsFollowGraphs /\ LiveIsVetted => LivesAreLegal
    BY DEF LivesAreLegal
<1> QED BY <1>1, GraphsFollowed, OnlyVettedGoLive, PTL

(* The header of a run and its metric rows agree between any two commits.  *)
THEOREM HeaderMirrorsMetrics == Spec => []MirrorAgrees
<1>1. IInv => MirrorAgrees
    BY DEF IInv, RunsOK, MirrorAgrees
<1> QED BY <1>1, Invariance, PTL

---------------------------------------------------------------------------
(* A step of the roster appends an entry or overwrites one without giving  *)
(* it back to the loop.                                                    *)
KeepsClaims == \A n \in 1..Len(roster) : ~roster[n].auto => ~roster'[n].auto

LEMMA InsertingKeepsClaims ==
    ASSUME IInv, NEW c, NEW row, Write(c, row)
    PROVE  KeepsClaims
<1>1. \A k \in 1..Len(roster) : roster'[k] = roster[k]
    BY DEF Write, IInv, RosterOK
<1> QED BY <1>1 DEF KeepsClaims

LEMMA OverwritingKeepsClaims ==
    ASSUME IInv, NEW c, NEW n \in 1..Len(roster), NEW row, Overwrite(c, n, row),
           ~roster[n].auto => ~row.auto
    PROVE  KeepsClaims
<1>1. \A k \in 1..Len(roster) : roster'[k] = IF k = n THEN row ELSE roster[k]
    BY DEF Overwrite, IInv, RosterOK
<1> QED BY <1>1 DEF KeepsClaims

LEMMA EditKeepsClaim ==
    ASSUME NEW row \in RosterRow, NEW i, ~row.auto
    PROVE  ~Edited(row, i).auto
BY DEF Edited, RosterRow

LEMMA RosterStepsKeepClaims ==
    ASSUME IInv, NEW c \in Calls, RosterStep(c)
    PROVE  KeepsClaims
<1> DEFINE i == calls[c].intent
           n == calls[c].at
<1>1. CASE PutReads(c) \/ PutRereads(c) \/ SyncFinds(c)
    <2>1. UNCHANGED roster
        BY <1>1 DEF PutReads, PutRereads, SyncFinds, ToRow, Proceed, Leave, catalogues
    <2> QED BY <2>1 DEF KeepsClaims
<1>2. CASE Create(c) \/ PutInserts(c) \/ SyncInserts(c)
    <2>1. UNCHANGED roster \/ \E row : Write(c, row)
        BY <1>2 DEF Create, PutInserts, SyncInserts, Proceed, Leave, catalogues
    <2>2. UNCHANGED roster => KeepsClaims
        BY DEF KeepsClaims
    <2> QED BY <2>1, <2>2, InsertingKeepsClaims
<1>3. CASE Patch(c) \/ PutUpdates(c)
    <2>1. calls[c].pc \in PCs /\ (i.op = "patch" \/ (i.op = "put" /\ calls[c].pc = "update"))
        BY <1>3 DEF Patch, PutUpdates, At, PCs
    <2>2. n \in 1..Len(roster)
        BY <2>1, BusyCall DEF Ready
    <2>3. roster[n] \in RosterRow
        BY <2>2 DEF IInv, RosterOK
    <2>4. Overwrite(c, n, Edited(roster[n], i))
        BY <1>3 DEF Patch, PutUpdates
    <2> QED BY <2>2, <2>3, <2>4, EditKeepsClaim, OverwritingKeepsClaims
<1>4. CASE Archive(c)
    <2> DEFINE row == [roster[n] EXCEPT !.archived = TRUE, !.by = "caller"]
    <2>1. calls[c].pc \in PCs /\ i.op = "archive"
        BY <1>4 DEF Archive, At, PCs
    <2>2. n \in 1..Len(roster)
        BY <2>1, BusyCall DEF Ready
    <2>3. roster[n] \in RosterRow
        BY <2>2 DEF IInv, RosterOK
    <2>4. row.auto = roster[n].auto
        BY <2>3 DEF RosterRow
    <2>5. Overwrite(c, n, row)
        BY <1>4 DEF Archive
    <2> HIDE DEF row
    <2> QED BY <2>2, <2>4, <2>5, OverwritingKeepsClaims
<1>5. CASE SyncUpdates(c)
    <2> DEFINE row == [roster[n] EXCEPT !.standing = DeriveStatus(i.to), !.by = "sync"]
    <2>1. calls[c].pc \in PCs /\ calls[c].pc = "update" /\ i.op = "sync"
        BY <1>5 DEF SyncUpdates, At, PCs
    <2>2. n \in 1..Len(roster)
        BY <2>1, BusyCall DEF Ready
    <2>3. roster[n] \in RosterRow
        BY <2>2 DEF IInv, RosterOK
    <2>4. row.auto = roster[n].auto
        BY <2>3 DEF RosterRow
    <2>5. Overwrite(c, n, row)
        BY <1>5 DEF SyncUpdates
    <2> HIDE DEF row
    <2> QED BY <2>2, <2>4, <2>5, OverwritingKeepsClaims
<1>6. CASE Rename(c)
    <2> DEFINE row == [roster[n] EXCEPT !.slug = i.to, !.key = KeyOf[i.to],
                           !.by = "caller", !.auto = @ /\ i.agent # Admin]
    <2>1. calls[c].pc \in PCs /\ i.op = "rename"
        BY <1>6 DEF Rename, At, PCs
    <2>2. n \in 1..Len(roster)
        BY <2>1, BusyCall DEF Ready
    <2>3. roster[n] \in RosterRow
        BY <2>2 DEF IInv, RosterOK
    <2>4. ~roster[n].auto => ~row.auto
        BY <2>3 DEF RosterRow
    <2>5. Overwrite(c, n, row) \/ UNCHANGED roster
        BY <1>6 DEF Rename, Leave, catalogues
    <2>6. UNCHANGED roster => KeepsClaims
        BY DEF KeepsClaims
    <2> HIDE DEF row
    <2> QED BY <2>2, <2>4, <2>5, <2>6, OverwritingKeepsClaims
<1> QED BY <1>1, <1>2, <1>3, <1>4, <1>5, <1>6 DEF RosterStep

(* An entry that a human claimed is never the loop's again.                *)
THEOREM ClaimsAreFinal == Spec => ClaimedStaysClaimed
<1>1. IInv /\ [Next]_vars =>
          [\A n \in 1..Len(roster) : ~roster[n].auto => ~roster'[n].auto]_vars
    <2> SUFFICES ASSUME IInv, Next PROVE KeepsClaims
        BY DEF KeepsClaims
    <2>1. ASSUME UNCHANGED roster PROVE KeepsClaims
        BY <2>1 DEF KeepsClaims
    <2>2. ASSUME NEW c \in Calls, RosterStep(c) PROVE KeepsClaims
        BY <2>2, RosterStepsKeepClaims
    <2>3. ASSUME NEW c \in Calls, NEW i \in Intents, Arrive(c, i)
          PROVE  UNCHANGED roster
        BY <2>3 DEF Arrive, catalogues
    <2>4. Crash => UNCHANGED roster
        BY DEF Crash, catalogues
    <2>5. ASSUME NEW c \in Calls, Replay(c) \/ CacheAnswer(c) \/ ModelStep(c)
                                  \/ RunStep(c) \/ SignalStep(c)
          PROVE  UNCHANGED roster
        <3>1. CASE Replay(c) \/ CacheAnswer(c)
            BY <3>1 DEF Replay, CacheAnswer, catalogues
        <3>2. CASE ModelStep(c)
            BY <3>2 DEF ModelStep, FindByArtifactSha, ComputeVersion, InsertModel,
               RegistrationLost, ReadModel, UpdateStatus, MarkSynced, catalogues
        <3>3. CASE RunStep(c)
            BY <3>3 DEF RunStep, InsertRun, FinishRun, InsertMetric, MirrorMetric, catalogues
        <3>4. CASE SignalStep(c)
            BY <3>4 DEF SignalStep, ReadSignal, UpdateSignal, catalogues
        <3> QED BY <2>5, <3>1, <3>2, <3>3, <3>4
    <2> QED BY <2>1, <2>2, <2>3, <2>4, <2>5 DEF Next
<1> QED BY <1>1, Invariance, PTL DEF Spec, ClaimedStaysClaimed
=============================================================================
