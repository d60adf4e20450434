SPECIFICATION Spec
CONSTANTS
    j1 = j1
    j2 = j2
    m1 = m1
    m2 = m2
    m3 = m3
    eth = eth
    btc = btc
    None = None
    MinOverlap = 3
    Jobs = {j1}
    Walks <- LateWalks
    TickTrades <- MCTickTrades
    Books <- MCBooks
    BookWalks <- MCBookWalks
    Surfaces = {btc, eth}
    Catalog <- MCCatalog
    DataStarts <- MCDataStarts
    Families = {"funding"}
    Scales <- MCScales
    Floor = 1000
    FoldRuns <- MCFoldRuns
    SleeveRuns <- MCSleeveRuns
    WindowRuns <- MCWindowRuns
    DrawRuns <- MCDrawRuns
    ScaleRuns <- MCScaleRuns
    Draws = 4
    TickAnswers <- MCTickAnswers
    MaxIters = 3
    Cost <- WalkOnly
    MaxCost = 1
    MaxCrashes = 1
INVARIANTS
    TestedOnce
CHECK_DEADLOCK FALSE
