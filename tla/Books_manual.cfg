SPECIFICATION Spec
CONSTANTS
    btc = btc
    basis = basis
    carry = carry
    one = one
    two = two
    Surfaces <- MCSurfaces
    Histories <- MCHistories
    Listed <- MCListed
    Marginal <- MCMarginal
    Unmeasured = Unmeasured
    Thetas <- MCThetas
    Trades <- MCTrades
    Streams <- MCStreams
    Provisioned <- MCProvisioned
    Protected <- MCProtected
    Slots <- MCSlots
    MaxCalls = 3
    MaxSerial = 2
    MaxMishaps = 1
PROPERTY ManualLeftAlone
CHECK_DEADLOCK FALSE
