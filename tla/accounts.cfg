\* Two administrators over each other, a third account that comes after one of
\* them is deleted, one link, roles granted from the shell.
CONSTANTS
    i1 = i1
    i2 = i2
    i3 = i3
    e1 = e1
    e2 = e2
    Ids = {i1, i2, i3}
    Emails = {e1, e2}
    Passwords = {p1}
    Tokens = {t1}
    NoToken = NoToken
    Requests = {r1, r2}
    Operator = Operator
    Grants = {"client", "admin"}
    FounderEmail <- TwoFounders
    FounderPassword = p1
    VerificationRequired = TRUE
    ResetTTL = 0
    MaxTime = 1
SPECIFICATION Spec
SYMMETRY Interchangeable
\* Ids and tokens run out, and every administrator may be gone.
CHECK_DEADLOCK FALSE
INVARIANTS
    ResetSpent
    LinksStayHome
    VerifiedHoldsNoLink
PROPERTIES
    DeadLinksStayDead
    LastAdminStays
