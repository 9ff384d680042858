\* Two runners, one order at a time, of two users with one key.
SPECIFICATION Spec
CONSTANTS
    m1 = m1
    m2 = m2
    ann = ann
    bob = bob
    k1 = k1
    c1 = c1
    Runners = {m1, m2}
    Clients = {c1}
    Users = {ann, bob}
    Keys = {k1}
SYMMETRY Symmetry
INVARIANTS
    TypeOK
    SchemaMatchesHistory
    FailsOnlyForAReason
    KeysAlwaysGuarded
