\* A double submission of one basket, nothing fails.
SPECIFICATION Spec
CONSTANTS
    r1 = r1
    r2 = r2
    r3 = r3
    r4 = r4
    r5 = r5
    ann = ann
    bob = bob
    ghost = ghost
    k1 = k1
    k2 = k2
    milk = milk
    tea = tea
    None = None
    Requests = {r1, r2}
    ProductIds = {milk, tea}
    Catalog = {milk, tea}
    UserIds = {ann, bob, ghost}
    Accounts = {ann, bob}
    Keys = {k1, k2}
    Dto <- DoubleDto
    InitialStock <- DoubleStock
    PoolSize = 2
    MaxSends = 1
    MaxFaults = 0
\* Clients stop sending after MaxSends, and then nothing is left to do.
CHECK_DEADLOCK FALSE
INVARIANT ExistingOrderIsReturned
