\* One request, and a file name that fills the 80 characters of safe_stem.
CONSTANTS
    Albums = {al1, al2}
    Slug = s
    SlugOf <- OneSlug
    Photos = {p1, p2, p3}
    Names = {n1}
    LongNames = {n1}
    MaxBump = 2
    Requests = {r1}
    Nothing = Nothing
SPECIFICATION Spec
SYMMETRY Interchangeable
\* Albums and photo ids run out, so the model does stop.
CHECK_DEADLOCK FALSE
INVARIANT NothingOverwritten
