\* One seeded artist and whoever else signs up, two saves at a time, restarts.
CONSTANTS
    Ids = {i1, i2, i3, i4}
    Names = {ethan, other}
    Seeds = {ethan}
    FirstSeed = ethan
    Requests = {r1, r2}
    MaxSuffix = 3
    MaxRows = 4
    NoRow = NoRow
SPECIFICATION Spec
SYMMETRY Interchangeable
\* User ids and profile ids run out, and a boot may be refused.
CHECK_DEADLOCK FALSE
INVARIANTS
    PrimariesBounded
    RefusedOnlyIfRaced
PROPERTIES
    FrontPageStays
    LinksSurvive
