------------------------------ MODULE MCBooks ------------------------------
(* A small instance of Books: a traded candidate and two streams, with a   *)
(* row on the account for the first and for one of the streams, which is   *)
(* protected.  Three histories: everybody adds to everybody; the streams   *)
(* pay alike and the trades lose next to them; one stream has no series    *)
(* left and the other no day in common with the trades.                    *)
EXTENDS Books, TLC

CONSTANTS btc, carry, basis, one, two

MCSurfaces == {btc, carry, basis}
MCHistories == {"distinct", "alike", "apart"}
MCListed == [h \in MCHistories |-> IF h = "apart" THEN {btc, carry} ELSE MCSurfaces]
MCThetas == {0, 5}

Other(s) == IF s = carry THEN basis ELSE carry
Contribution(h, s, S) ==
    CASE S = {}                                 -> 2
      [] S # {} /\ h = "distinct"               -> 1
      [] S # {} /\ h = "alike" /\ s = btc       -> -1
      [] S # {} /\ h = "alike" /\ s # btc       -> IF Other(s) \in S THEN 0 ELSE 1
      [] S # {} /\ h = "apart"                  -> IF btc \in S \cup {s} THEN Unmeasured ELSE 1
MCMarginal ==
    [h \in MCHistories |-> [s \in MCSurfaces |-> [S \in SUBSET MCSurfaces |-> Contribution(h, s, S)]]]

MCTrades == {btc}
MCStreams == {carry, basis}
MCProvisioned == {btc, carry}
MCProtected == {carry}
MCSlots == {one, two}
Symmetry == Permutations(MCSlots)
=============================================================================
