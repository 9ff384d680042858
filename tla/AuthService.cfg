\* Two calls at a time on two emails, the seed, a tick of the clock, one failing statement.
SPECIFICATION Spec
CONSTANTS
    None = None
    c1 = c1
    c2 = c2
    alice = alice
    root = root
    pw1 = pw1
    Calls = {c1, c2}
    Emails = {alice, root}
    Passwords = {pw1}
    SeedRows <- MCSeedRows
    AccessTtl = 1
    RefreshTtl = 2
    MaxTime = 1
    MaxFaults = 1
SYMMETRY Symmetry
INVARIANTS
    TypeOK
    OneAccountPerEmail
    RegisterAnswersAreTrue
    RoleRunsOut
    AdminsMayDoWhatUsersMay
