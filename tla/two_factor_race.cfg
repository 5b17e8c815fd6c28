\* Two racing requests on one pending token, with prunes, expiry and deletion.
CONSTANTS
    Users = {u1}
    Devices = {d1}
    NoDevice = NoDevice
    Tokens = {t1}
    Codes = {c1, c2}
    Requests = {r1, r2}
    CodeTTL = 1
    MaxAttempts = 2
    MaxResends = 2
    TrustTTL = 2
    MaxTime = 3
SPECIFICATION Spec
SYMMETRY Interchangeable
\* The clock is bounded and tokens run out, so the model does stop.
CHECK_DEADLOCK FALSE
INVARIANTS
    GuessesBounded
    TokenSpent
    LifetimeBounded
    CodeIsMailed
PROPERTIES
    SpentStaysSpent
