\* Either interface, four orders, pages of one to three rows.
SPECIFICATION Spec
CONSTANTS
    o1 = o1
    o2 = o2
    o3 = o3
    o4 = o4
    ann = ann
    bob = bob
    None = None
    Orders = {o1, o2, o3, o4}
    Row <- MCRow
    Times = {1, 2, 3}
    Filters <- MCFilters
    Limits = {0, 1, 2, 3}
    MaxLimit = 2
\* A walk ends.
CHECK_DEADLOCK FALSE
INVARIANTS
    TypeOK
    SkippedOnlyOnTies
    RepeatedOnlyForAReason
    CutOnlyAtTheEdges
    AnnouncedPageIsThere
