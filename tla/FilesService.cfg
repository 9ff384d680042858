\* Two calls of complete on two files, one fault anywhere.
SPECIFICATION FairSpec
CONSTANTS
    None = None
    ann = ann
    bob = bob
    milk = milk
    nobody = nobody
    Users <- MCUsers
    Seeded <- MCSeeded
    Products <- MCProducts
    Strays <- MCStrays
    Visibilities = {"private"}
    Files = {f1, f2}
    Calls = {c1, c2}
    MaxFaults = 1
INVARIANTS
    TypeOK
    LinkedFileFits
    CompletedIsLinked
    LinksMoveForward
PROPERTY ReadyGetsLinked
