\* Two artists, one of them seeded; one album slug; two uploads.
CONSTANTS
    Artists = {1, 2}
    Seeded = 1
    Slugs = {s1}
    SeedAlbum = s1
    Stems = {t1}
    SeedStem = t1
    Pics = {p1, p2}
    Placeholder = Placeholder
    MaxRows = 3
    Nothing = Nothing
SPECIFICATION Spec
SYMMETRY Interchangeable
\* Pictures and row ids run out, so the model does stop.
CHECK_DEADLOCK FALSE
INVARIANTS
    TypeOK
    RowsKeepPictures
    RestoredOnce
    RelayoutSettles
PROPERTIES
    MovesLoseNothing
    BootSettles
    DeleteTakesFiles
