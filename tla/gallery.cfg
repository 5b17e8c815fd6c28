\* One customer against one artist and his album, two requests at a time.
CONSTANTS
    Customers = {c1}
    Owner = Owner
    Visitor = Visitor
    Albums = {a1}
    Slug = s
    SlugOf <- OneSlug
    Photos = {p1, p2}
    Requests = {r1, r2}
    MaxFetches = 1
    Nothing = Nothing
SPECIFICATION Spec
SYMMETRY Interchangeable
\* Albums and photo ids run out, so the model does stop.
CHECK_DEADLOCK FALSE
INVARIANTS
    TypeOK
    EntitledSince
PROPERTIES
    HiddenStaysHidden
    PatchTakes
    GrantTakes
