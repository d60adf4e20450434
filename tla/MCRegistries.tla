---------------------------- MODULE MCRegistries ----------------------------
(* Instances of Registries for TLC: a catalogue at a time is busy, because *)
(* no two of them share a row; the calls on one overlap in every way.      *)
EXTENDS Registries, TLC

CONSTANTS a1, a2, art1, art2, sig, s1, s2, r1

Symmetric == Permutations(Calls)

MCKeyOf == [s \in Slugs |-> IF s = s1 THEN Universe ELSE NoKey]
MCSlugOf == [r \in Results |-> s2]

Ask(op, agent, on, to) == [op |-> op, agent |-> agent, on |-> on, to |-> to]

ModelCalls ==
    {Ask("register", a1, art1, g) : g \in Gauntlets}
    \cup {Ask("register", a2, art1, "PASS_READY"), Ask("register", a2, art2, "FAIL")}
    \cup {Ask("promote", a1, art1, to) : to \in PromotionTargets}
    \cup {Ask("promote", a2, art1, to) : to \in {"staged", "rejected_by_operator", "retired"}}
    \cup {Ask("synced", a1, art1, "synced")}

RunCalls ==
    {Ask("start", a, 0, "running") : a \in {a1, a2}}
    \cup {Ask("finish", a1, 1, "completed"), Ask("finish", a2, 1, "failed")}
    \cup {Ask("metric", a1, 1, m) : m \in Metrics}

RosterCalls ==
    {Ask("create", Admin, s1, "TIER_B_PARKED"), Ask("create", a1, s2, "TIER_B_LEAD"),
     Ask("patch", Admin, s2, "TIER_B_PARKED"), Ask("rename", a2, s1, s2), Ask("archive", a1, s2, "TIER_B_LEAD"),
     Ask("put", a1, s1, "TIER_B_LEAD"), Ask("put", Admin, s2, "TIER_C_FALSIFIED"),
     Ask("sync", a1, r1, "ROBUST"), Ask("sync", a2, r1, "NO_EDGE"),
     Ask("sync", a2, r1, "NOT_TESTED")}

SignalCalls == {Ask("signal", a, sig, to) : a \in {a1, a2}, to \in SignalStatuses}

(* Calls on different catalogues meet in no row, so a behaviour with more  *)
(* than one of them busy shows nothing new.                                *)
Busy == {calls[c].intent.op : c \in {d \in Calls : calls[d] # Idle}}
        \cup {slot[1] : slot \in cache}
        \cup (IF roster = <<>> THEN {} ELSE {"sync"})

OneCatalogue ==
    \E ops \in {{"register", "promote", "synced"}, {"start", "finish", "metric"},
                {"signal"}, RegistryOps} : Busy \subseteq ops

MCIntents == ModelCalls \cup RunCalls \cup RosterCalls \cup SignalCalls

(* Every legal life of a model that some registration and promotions made. *)
RECURSIVE Lives(_)
Lives(n) ==
    IF n = 1 THEN {<<DerivedStatus[g]>> : g \in Gauntlets}
    ELSE LET shorter == Lives(n - 1)
         IN  shorter \cup
                {Append(p[1], p[2][2]) :
                     p \in {q \in shorter \X Promotions : q[1][Len(q[1])] = q[2][1]}}

Model(g, trail) == [artifact |-> art1, gauntlet |-> g, synced |-> FALSE, trail |-> trail]

Tables(ms, rs, ros) == [models |-> ms, runs |-> rs, roster |-> ros,
                        signals |-> [s \in Signals |-> [trail |-> <<"shadow">>]]]

MCBegun ==
    {Tables(<<>>, <<>>, <<>>)}
    \cup {Tables(<<m>>, <<>>, <<>>) :
              m \in {x \in {Model(g, t) : g \in Gauntlets, t \in Lives(5)} :
                        LegalModel(x) /\ Status(x) # "retired"}}
=============================================================================
