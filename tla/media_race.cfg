\* Two requests of any kind at a time, one folder, crashes anywhere.
CONSTANTS
    Albums = {al1, al2}
    Slug = s
    SlugOf <- OneSlug
    Photos = {p1, p2, p3}
    Names = {n1}
    LongNames = {}
    MaxBump = 2
    Requests = {r1, r2}
    Nothing = Nothing
SPECIFICATION Spec
SYMMETRY Interchangeable
\* Albums and photo ids run out, so the model does stop.
CHECK_DEADLOCK FALSE
INVARIANTS
    IntactUnlessRaced
    OwnPathUnlessRaced
    RowsHaveAlbums
    BytesAsked
