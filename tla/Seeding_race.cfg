\* Two orders and up to two runs of the seed, one fault anywhere.
SPECIFICATION SeedFairSpec
CONSTANTS
    r1 = r1
    r2 = r2
    ann = ann
    bob = bob
    k1 = k1
    milk = milk
    tea = tea
    None = None
    Requests = {r1, r2}
    ProductIds = {milk, tea}
    Catalog = {milk, tea}
    UserIds = {ann, bob}
    Accounts = {ann, bob}
    Keys = {k1}
    Dto <- MCDto
    InitialStock <- MCStock
    PoolSize = 2
    MaxSends = 1
    MaxFaults = 1
    UsersSeed <- MCUsersSeed
    ProductsSeed <- MCProductsSeed
    SeedStock <- MCSeedStock
    OrdersSeed <- MCOrdersSeed
    MaxSeeds = 2
\* Clients stop sending, and the seed stops being run.
CHECK_DEADLOCK FALSE
INVARIANTS
    SeedTypeOK
    StockSinceSeed
PROPERTY SeedEnds
