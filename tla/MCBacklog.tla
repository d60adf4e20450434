----------------------------- MODULE MCBacklog -----------------------------
(* An instance of Backlog for TLC: one sweep whose first cell has an edge.  *)
EXTENDS Backlog, TLC

CONSTANTS q1, t1, n1

OneRow   == {q1}
OneTick  == {t1}
OneFence == {n1}

OnRow(x) == (q1 :> x)

MCPriority  == OnRow(10)
MCLoopTrack == (t1 :> "any")
MCRowTrack  == OnRow("none")
MCUniverse  == OnRow("BTCUSDT 1h")
MCSampler   == OnRow("grid")
MCCells     == OnRow(2)
MCBudget    == OnRow(2)
MCEarly     == OnRow(TRUE)

=============================================================================
