SPECIFICATION Spec
CONSTANTS
    btc = btc
    basis = basis
    carry = carry
    one = one
    two = two
    Surfaces <- MCSurfaces
    Histories <- MCHistories
    Listed <- MCListed
    Marginal <- MCMarginal
    Unmeasured = Unmeasured
    Thetas <- MCThetas
    Trades <- MCTrades
    Streams <- MCStreams
    Provisioned <- MCProvisioned
    Protected <- MCProtected
    Slots <- MCSlots
    MaxCalls = 3
    MaxSerial = 6
    MaxMishaps = 1
SYMMETRY Symmetry
INVARIANTS
    TypeOK
    RebalanceIsAudited
    BookFollowsPool
PROPERTIES
    OnlyBookRowsZeroed
    EvictionsAreSound
CHECK_DEADLOCK FALSE
