\* A relayout that is stopped, and run again.
CONSTANTS
    Artists = {1, 2}
    Seeded = 1
    Slugs = {s1}
    SeedAlbum = s1
    Stems = {t1}
    SeedStem = t1
    Pics = {p1, p2}
    Placeholder = Placeholder
    MaxRows = 2
    Nothing = Nothing
SPECIFICATION Spec
SYMMETRY Interchangeable
\* Pictures and row ids run out, so the model does stop.
CHECK_DEADLOCK FALSE
INVARIANT RerunHeals
