\* One tab, longer lifetimes: the studio against the promise of api.ts.
CONSTANTS
    Tabs = {t1}
    TTL = 4
    Half = 3
    MaxDelay = 1
    MaxTime = 6
    MaxLogins = 1
    NoToken = NoToken
SPECIFICATION Spec
INVARIANT NeverHardExpiry
