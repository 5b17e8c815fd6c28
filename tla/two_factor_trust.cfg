\* Two users share a browser; each verifies, lapses and verifies again.
CONSTANTS
    Users = {u1, u2}
    Devices = {d1}
    NoDevice = NoDevice
    Tokens = {t1, t2}
    Codes = {c1}
    Requests = {r1}
    CodeTTL = 1
    MaxAttempts = 1
    MaxResends = 1
    TrustTTL = 2
    MaxTime = 3
SPECIFICATION Spec
SYMMETRY Interchangeable
\* The clock is bounded and tokens run out, so the model does stop.
CHECK_DEADLOCK FALSE
INVARIANTS
    TrustIsEarned
    TrustSlides
