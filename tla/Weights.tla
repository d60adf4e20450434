------------------------------ MODULE Weights ------------------------------
(* How capital is divided, without state: the guardrails, the floor of an  *)
(* order and the reads of services/rebalance.py, and the weights of the    *)
(* pool from api/pool.py with the cap per symbol of services/pool.py.      *)
(* Module Books writes them.                                               *)
(*                                                                         *)
(* Weights are exact: part of a whole.  What an optimizer makes of the     *)
(* returns is floating point and an argument; its parts are integers.      *)
EXTENDS WalkForward

CONSTANT MinNotional     \* smallest order, with its safety factor

Parts(f) == [parts |-> f, whole |-> SumFunction(f)]

(* A strategy is weighed if its latest run has 30 days of returns.         *)
EligibleCodes(days) == {c \in DOMAIN days : days[c] # None /\ days[c] >= 30}

RawWeights(optimizer, codes, computed) ==
    IF Cardinality(codes) <= 1 \/ optimizer = "EQUAL_WEIGHT" THEN [c \in codes |-> 1]
    ELSE [c \in codes |-> computed[c]]
-----------------------------------------------------------------------------
(* _apply_guardrails: at least 5 and at most 50 per cent each.  A pass     *)
(* shares the free budget among the free weights and pins those it puts    *)
(* out of bounds; the last pass pins none.                                 *)
FreeOf(raw, pins) == DOMAIN raw \ (pins.high \union pins.low)
Budget(pins) == 100 - 50 * Cardinality(pins.high) - 5 * Cardinality(pins.low)

Pin(raw, pins) ==
    LET free == FreeOf(raw, pins)
        sum == SumFunctionOnSet(raw, free)
        high == {c \in free : raw[c] * Budget(pins) > 50 * sum}
        low == {c \in free : raw[c] * Budget(pins) < 5 * sum}
    IN  IF pins.settled \/ free = {} \/ Budget(pins) <= 0 THEN pins
        ELSE IF sum = 0 THEN [pins EXCEPT !.low = @ \union free]
        ELSE [high |-> pins.high \union high, low |-> pins.low \union low,
              settled |-> high \union low = {}]

NoPins == [high |-> {}, low |-> {}, settled |-> FALSE]

Pins(raw) ==
    LET passes == Cardinality(DOMAIN raw) + 1
        after[pass \in 0..passes] == IF pass = 0 THEN NoPins ELSE Pin(raw, after[pass - 1])
    IN  after[passes]

(* Without a last pass that pins none, what is pinned is scaled to one.    *)
Guardrails(raw) ==
    LET pins == Pins(raw)
        free == FreeOf(raw, pins)
        unit == IF pins.settled THEN SumFunctionOnSet(raw, free) ELSE Max({1, SumFunction(raw)})
        Bound(c) == (IF c \in pins.high THEN 50 ELSE 5) * unit
    IN  Parts([c \in DOMAIN raw |->
            IF c \notin free THEN Bound(c)
            ELSE raw[c] * (IF pins.settled THEN Budget(pins) ELSE 100)])
-----------------------------------------------------------------------------
(* The JVM's balance replaces the caller's unless it cannot be read, is    *)
(* not a number (None) or negative; its Kelly multipliers, in per cent,    *)
(* are read only with a balance to size.                                   *)
Equity(caller, jvm) == IF jvm = None \/ jvm < 0 THEN caller ELSE jvm
KellyOf(r, jvm, kelly) ==
    IF jvm = None \/ jvm <= 0 \/ kelly[r.id] = None \/ kelly[r.id] <= 0 THEN 100
    ELSE kelly[r.id]

(* _check_min_notional: the rows whose entry would be below the floor.     *)
BelowFloor(rows, weights, caller, jvm, kelly) ==
    LET funded == {r \in rows : r.code \in DOMAIN weights.parts}
        equity == Equity(caller, jvm)
    IN  IF equity <= 0 THEN funded
        ELSE {r \in funded :
                /\ weights.parts[r.code] > 0 /\ r.allocation > 0
                /\ equity * r.allocation * KellyOf(r, jvm, kelly) * weights.parts[r.code]
                        < 10000 * MinNotional * weights.whole}

(* One row too small blocks the whole rebalance, except a rehearsal.       *)
PlanOf(rows, optimizer, computed, days, caller, jvm, kelly, rehearsal) ==
    LET codes == EligibleCodes(days)
        eligible == {r \in rows : r.code \in codes}
        weights == Guardrails(RawWeights(optimizer, codes, computed))
        below == BelowFloor(eligible, weights, caller, jvm, kelly)
    IN  IF codes = {} THEN [weights |-> Parts(<<>>), below |-> {}, blocked |-> FALSE]
        ELSE [weights |-> weights, below |-> below, blocked |-> below # {} /\ ~rehearsal]
-----------------------------------------------------------------------------
(* apply_per_symbol_cap: the weights of a symbol together are at most cap  *)
(* per cent; what a capped symbol leaves goes to the others in proportion. *)
BySymbol(weights, symbolOf) ==
    [s \in {symbolOf[k] : k \in DOMAIN weights.parts} |->
        SumFunctionOnSet(weights.parts, {k \in DOMAIN weights.parts : symbolOf[k] = s})]

CapBudget(cap, pinned) == IF cap * Cardinality(pinned) < 100 THEN 100 - cap * Cardinality(pinned) ELSE 0

Saturate(base, cap, pinned) ==
    LET free == DOMAIN base \ pinned
    IN  pinned \union {s \in free : CapBudget(cap, pinned) * base[s] > cap * SumFunctionOnSet(base, free)}

(* Mutant: what is over the cap is pinned once, not until nothing is.      *)
PinnedOnce(base, cap) == Saturate(base, cap, {})

Pinned(base, cap) ==
    LET passes == Cardinality(DOMAIN base) + 1
        after[pass \in 0..passes] == IF pass = 0 THEN {} ELSE Saturate(base, cap, after[pass - 1])
    IN  after[passes]

(* The weight of k is num / den; a symbol's is shared as before.           *)
SymbolCap(weights, symbolOf, cap) ==
    LET base == BySymbol(weights, symbolOf)
        pinned == Pinned(base, cap)
        free == Max({1, SumFunctionOnSet(base, DOMAIN base \ pinned)})
        share(s) == IF s \in pinned THEN cap * free ELSE CapBudget(cap, pinned) * base[s]
    IN  [k \in DOMAIN weights.parts |->
            IF cap * Cardinality(DOMAIN base) < 100
            THEN [num |-> weights.parts[k], den |-> weights.whole]
            ELSE [num |-> share(symbolOf[k]) * weights.parts[k],
                  den |-> 100 * free * Max({1, base[symbolOf[k]]})]]

(* POST /pool/rebalance: each weight clamped once, then scaled to one.     *)
ClampOnce(raw) ==
    LET total == SumFunction(raw)
    IN  Parts([k \in DOMAIN raw |-> Max({5 * total, Min({50 * total, 100 * raw[k]})})])

PoolWeights(raw, symbolOf, cap) == SymbolCap(ClampOnce(raw), symbolOf, cap)
=============================================================================
