\* Two tabs of one browser, two logins.
CONSTANTS
    Tabs = {t1, t2}
    TTL = 4
    Half = 3
    MaxDelay = 1
    MaxTime = 4
    MaxLogins = 2
    NoToken = NoToken
SPECIFICATION Spec
SYMMETRY Interchangeable
INVARIANTS
    ActiveKeepsHalf
    SignOutHolds
PROPERTIES
    DeadStaysDead
