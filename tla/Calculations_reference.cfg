SPECIFICATION Spec
CONSTANTS
    btc = btc
    eth = eth
    sol = sol
    text = text
    None = None
    MinOverlap = 3
    MinNotional = 1
    Covered = {btc, eth}
    MinYearDays = 2
    MinPairs = 2
    Inputs <- MCInputs
    Lengths <- MCLengths
    MinTrades = 1
    MinIcObs = 3
    Latest = 2
INVARIANTS
    ScreensMatchReference
    CapitalIsDividedFairly
    ReportsMatchReference
