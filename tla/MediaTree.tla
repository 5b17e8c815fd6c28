------------------------------ MODULE MediaTree ------------------------------
(***************************************************************************)
(* Photo rows and the media tree over a database's life: relayout-media    *)
(* (services/relayout.py), restore-media (services/restore.py),            *)
(* import-album (services/importer.py), prune-media (cli.py), the seeded   *)
(* albums of services/seeds.py, and the API beside them.                   *)
(*                                                                         *)
(* A file's path names its artist by a key that changes when the artist    *)
(* saves a first profile; rows keep the old one until relayout-media, one  *)
(* long transaction over files that follow no transaction.  How requests   *)
(* race each other over one folder is MediaStore's subject; here a delete  *)
(* races only the relayout, and every other handler is one step.           *)
(***************************************************************************)
EXTENDS Integers, FiniteSets, SequencesExt

CONSTANTS
    Artists,        \* user ids of artists
    Seeded,         \* the artist a development boot seeds
    Slugs,          \* album slugs, which are their own safe_stem
    SeedAlbum,      \* the slug of the seeded album
    Stems,          \* sanitised stems
    SeedStem,       \* the seeded album's one placeholder
    Pics,           \* what uploaded files hold
    Placeholder,    \* what a placeholder file holds
    MaxRows,        \* bound: photo ids handed out
    Nothing         \* no file, no row, no album

ASSUME SeedIsNamed     == /\ Seeded \in Artists /\ SeedAlbum \in Slugs
                          /\ SeedStem \in Stems
ASSUME IdsAreNumbers   == Artists \subseteq Nat
ASSUME ContentsDiffer  == /\ Nothing \notin Pics \cup {Placeholder}
                          /\ Placeholder \notin Pics
ASSUME NoSlugIsNothing == Nothing \notin Slugs \cup Artists
ASSUME RowsBound       == MaxRows \in Nat

\* artists/{id}-{slug}/ of an artist with a profile, else artists/{id}/.
Keys  == Artists \X BOOLEAN
Paths == Keys \X Slugs \X Stems
Bytes == Pics \cup {Placeholder}

KeyOf(x)  == x[1]
SlugOf(x) == x[2]
StemOf(x) == x[3]

VARIABLES
    schema,         \* the database has its tables
    users,          \* artists that have a row in users
    profiled,       \* those of them with a row in artist_profiles
    albums,         \* the artist_id of the album at each slug, or Nothing
    rows,           \* table photos by id; Nothing once deleted
    disk,           \* whose bytes each path holds
    drawn,          \* history: the pictures that have been uploaded
    cmd,            \* relayout-media, when it runs
    del,            \* the delete request in flight
    last,           \* history: the command finished since the last change
    halted,         \* history: a relayout was stopped with files moved
    astray          \* history: a relayout was refused a move, or it or a delete
                    \* went by a name that was no longer its row's

vars == <<schema, users, profiled, albums, rows, disk, drawn, cmd, del, last,
          halted, astray>>

\* `pic' is history: what the row's file held when the row was made.
Row  == [album : Slugs, path : Paths, pic : Bytes]
ASSUME NoRowIsNothing == Nothing \notin Row

Ids  == 1 .. MaxRows
Idle == [step |-> "idle"]

\* `seen' and `owner' are the rows as the one query found them, `todo' the ids
\* to come and `staged' the rows updated, not committed. `calm' is history: no
\* artist saved a first profile meanwhile.
Relayout ==
    {Idle}
    \cup [step : {"move"}, seen : Seq(Row \cup {Nothing}),
          owner : [Slugs -> Artists \cup {Nothing}], todo : SUBSET Ids,
          staged : SUBSET (Ids \X Paths), calm : BOOLEAN]

\* A delete has read the file names; then it has committed. `crossed' is
\* history: a relayout was at work meanwhile.
Deletion ==
    {Idle}
    \cup [step : {"drop", "unlink"}, album : Slugs \cup {Nothing}, ids : SUBSET Ids,
          paths : SUBSET Paths, pics : SUBSET Bytes, crossed : BOOLEAN]

Init ==
    /\ schema = FALSE
    /\ users = {} /\ profiled = {}
    /\ albums = [s \in Slugs |-> Nothing]
    /\ rows = << >>
    /\ disk = [x \in Paths |-> Nothing]
    /\ drawn = {}
    /\ cmd = Idle /\ del = Idle
    /\ last = "none"
    /\ halted = FALSE /\ astray = FALSE

-----------------------------------------------------------------------------
Live == {i \in DOMAIN rows : rows[i] # Nothing}
InAlbum(s) == {i \in Live : rows[i].album = s}

\* artist_media_key.
Key(a) == <<a, a \in profiled>>

UsedStems(s) == {StemOf(rows[i].path) : i \in InAlbum(s)}

\* Paths that are, or will be at its commit, a row's.
Owned ==
    {rows[i].path : i \in Live}
        \cup (IF cmd = Idle THEN {} ELSE {m[2] : m \in cmd.staged})

Quiet == cmd = Idle /\ del = Idle

-----------------------------------------------------------------------------
(* The API.                                                                *)

\* The server serves once it has booted.
SignUp(a) ==
    /\ Seeded \in users /\ a \notin users
    /\ users' = users \cup {a}
    /\ last' = "none"
    /\ UNCHANGED <<schema, profiled, albums, rows, disk, drawn, cmd, del, halted, astray>>

\* The first save of a profile. It may come in the middle of a relayout.
SaveProfile(a) ==
    /\ a \in users \ profiled
    /\ profiled' = profiled \cup {a}
    /\ cmd' = IF cmd = Idle THEN Idle ELSE [cmd EXCEPT !.calm = FALSE]
    /\ last' = "none"
    /\ UNCHANGED <<schema, users, albums, rows, disk, drawn, del, halted, astray>>

CreateAlbum(a, s) ==
    /\ a \in users /\ albums[s] = Nothing
    /\ albums' = [albums EXCEPT ![s] = a]
    /\ last' = "none"
    /\ UNCHANGED <<schema, users, profiled, rows, disk, drawn, cmd, del, halted, astray>>

\* add_photo: the files are there whether or not the row is committed.
AddPhoto(s, x, pic, committed) ==
    /\ disk' = [disk EXCEPT ![x] = pic]
    /\ drawn' = drawn \cup {pic}
    /\ rows' = IF committed
               THEN Append(rows, [album |-> s, path |-> x, pic |-> pic]) ELSE rows
    /\ last' = "none"

\* POST .../photos, of one file, under the key of the album's artist. The stem is
\* free in the album: a name that is taken gets a suffix first.
Upload(s, stem, pic) ==
    /\ del = Idle
    /\ albums[s] # Nothing
    /\ stem \notin UsedStems(s) /\ pic \notin drawn /\ Len(rows) < MaxRows
    /\ \E committed \in BOOLEAN :
         AddPhoto(s, <<Key(albums[s]), s, stem>>, pic, committed)
    /\ UNCHANGED <<schema, users, profiled, albums, cmd, del, halted, astray>>

DeleteNothing(album, ids) ==                  \* mutant: reads after the cascade
    /\ del = Idle /\ ids # {}
    /\ del' = [step |-> "drop", album |-> album, ids |-> ids, paths |-> {},
               pics |-> {rows[i].pic : i \in ids}, crossed |-> cmd # Idle]
    /\ last' = "none"
    /\ UNCHANGED <<schema, users, profiled, albums, rows, disk, drawn, cmd, halted, astray>>

\* DELETE of a photo or an album reads the file names first.
DeleteRead(album, ids) ==
    /\ del = Idle /\ ids # {}
    /\ del' = [step |-> "drop", album |-> album, ids |-> ids,
               paths |-> {rows[i].path : i \in ids},
               pics |-> {rows[i].pic : i \in ids}, crossed |-> cmd # Idle]
    /\ last' = "none"
    /\ UNCHANGED <<schema, users, profiled, albums, rows, disk, drawn, cmd, halted, astray>>

\* Rows a relayout has updated are locked until it commits or is stopped.
Locked == IF cmd = Idle THEN {} ELSE {m[1] : m \in cmd.staged}

DeleteCommit ==
    /\ del.step = "drop"
    /\ LET gone == del.ids \cup (IF del.album = Nothing THEN {} ELSE InAlbum(del.album))
       IN  /\ gone \cap Locked = {}
           /\ rows' = [i \in DOMAIN rows |-> IF i \in gone THEN Nothing ELSE rows[i]]
    /\ albums' = IF del.album = Nothing THEN albums
                 ELSE [albums EXCEPT ![del.album] = Nothing]
    /\ del' = [del EXCEPT !.step = "unlink"]
    /\ UNCHANGED <<schema, users, profiled, disk, drawn, cmd, last, halted, astray>>

DeleteUnlink ==
    /\ del.step = "unlink"
    /\ disk' = [x \in Paths |-> IF x \in del.paths THEN Nothing ELSE disk[x]]
    /\ del' = Idle
    /\ astray' = (astray \/ (del.crossed /\ del.paths \cap Owned # {}))
    /\ UNCHANGED <<schema, users, profiled, albums, rows, drawn, cmd, last, halted>>

\* The server stops, or the request fails, before or after the commit.
DeleteDies ==
    /\ del # Idle
    /\ del' = Idle
    /\ UNCHANGED <<schema, users, profiled, albums, rows, disk, drawn, cmd, last, halted,
                   astray>>

\* DELETE /api/users/{id}: albums and photos cascade, files stay. Of Seeded, whom
\* the handler would delete as well, a boot would make another user with a new id,
\* whose folder is another: here he stays.
DeleteArtist(a) ==
    /\ del = Idle
    /\ a \in users \ {Seeded}
    /\ {i \in Live : albums[rows[i].album] = a} \cap Locked = {}
    /\ users' = users \ {a} /\ profiled' = profiled \ {a}
    /\ albums' = [s \in Slugs |-> IF albums[s] = a THEN Nothing ELSE albums[s]]
    /\ rows' = [i \in DOMAIN rows |->
                  IF rows[i] # Nothing /\ albums[rows[i].album] = a
                  THEN Nothing ELSE rows[i]]
    /\ last' = "none"
    /\ UNCHANGED <<schema, disk, drawn, cmd, del, halted, astray>>

-----------------------------------------------------------------------------
(* relayout-media --yes.                                                   *)

RelayoutRead ==
    /\ cmd = Idle
    /\ schema' = TRUE
    /\ cmd' = [step |-> "move", seen |-> rows, owner |-> albums, todo |-> Live,
               staged |-> {}, calm |-> TRUE]
    /\ last' = "none"
    /\ del' = IF del = Idle THEN Idle ELSE [del EXCEPT !.crossed = TRUE]
    /\ UNCHANGED <<users, profiled, albums, rows, disk, drawn, halted, astray>>

MoveOver(old, new) ==                         \* mutant: replaces what is there
    [disk EXCEPT ![new] = disk[old], ![old] = Nothing]

\* move_file: nothing moves onto a file that is there.
MoveFile(old, new) ==
    IF disk[old] # Nothing /\ disk[new] = Nothing
    THEN [disk EXCEPT ![new] = disk[old], ![old] = Nothing] ELSE disk

WantedById(i) == <<<<cmd.owner[cmd.seen[i].album], FALSE>>, cmd.seen[i].album,
                   StemOf(cmd.seen[i].path)>>   \* mutant: the old layout

Wanted(i) == <<Key(cmd.owner[cmd.seen[i].album]), cmd.seen[i].album,
               StemOf(cmd.seen[i].path)>>

\* Rows in the order of their ids. One in place, or whose file is missing, is
\* passed over. Whether the file was moved is not asked.
RelayoutRow ==
    /\ cmd.step = "move"
    /\ \E i \in cmd.todo :
         /\ \A j \in cmd.todo : i <= j
         /\ LET old == cmd.seen[i].path
                new == Wanted(i)
                due == old # new /\ disk[old] # Nothing
            IN  /\ disk' = IF due THEN MoveFile(old, new) ELSE disk
                /\ cmd' = [cmd EXCEPT !.todo = @ \ {i},
                             !.staged = IF due /\ rows[i] # Nothing
                                        THEN @ \cup {<<i, new>>} ELSE @]
                /\ astray' = (astray \/ (due /\ (disk[new] # Nothing \/ rows[i] = Nothing)))
    /\ UNCHANGED <<schema, users, profiled, albums, rows, drawn, del, last, halted>>

CommittedAsWas(i) == rows[i]                  \* mutant: the UPDATE is left out

Committed(i) ==
    IF \E m \in cmd.staged : m[1] = i
    THEN [rows[i] EXCEPT !.path = (CHOOSE m \in cmd.staged : m[1] = i)[2]]
    ELSE rows[i]

RelayoutCommit ==
    /\ cmd.step = "move" /\ cmd.todo = {}
    /\ rows' = [i \in DOMAIN rows |-> Committed(i)]
    /\ cmd' = Idle
    /\ last' = IF cmd.calm /\ del = Idle THEN "relayout" ELSE "none"
    /\ UNCHANGED <<schema, users, profiled, albums, disk, drawn, del, halted, astray>>

\* Stopped, or its connection lost: the rows roll back, the files do not.
RelayoutDies ==
    /\ cmd # Idle
    /\ cmd' = Idle
    /\ halted' = (halted \/ cmd.staged # {})
    /\ UNCHANGED <<schema, users, profiled, albums, rows, disk, drawn, del, last, astray>>

-----------------------------------------------------------------------------
(* restore-media --yes, import-album, prune-media --yes.                   *)

FoundAnyone(u, files) == {x \in Paths : files[x] # Nothing}  \* mutant: any folder

\* The originals in folders whose artist has a row.
Found(u, files) == {x \in Paths : files[x] # Nothing /\ KeyOf(x)[1] \in u}

\* An album that is missing goes to the first artist that has a folder of its
\* name: directories come sorted.
AlbumsRestored(owner, u, files) ==
    [s \in Slugs |->
       LET claims == {KeyOf(x)[1] : x \in {y \in Found(u, files) : SlugOf(y) = s}}
       IN  IF owner[s] = Nothing /\ claims # {} THEN Min(claims) ELSE owner[s]]

KnownToday(table, s) ==                       \* mutant: as named today
    {<<Key(KeyOf(table[i].path)[1]), s, StemOf(table[i].path)>> :
        i \in {j \in DOMAIN table : table[j] # Nothing /\ table[j].album = s}}

Known(table, s) ==
    {table[i].path :
        i \in {j \in DOMAIN table : table[j] # Nothing /\ table[j].album = s}}

\* A row for each original its album does not know.
ToRestore(table, u, files) ==
    {[album |-> SlugOf(x), path |-> x, pic |-> files[x]] :
       x \in {y \in Found(u, files) : y \notin Known(table, SlugOf(y))}}

\* restore_from_media.
RestoreOver(owner, table, u, files) ==
    /\ rows' = table \o SetToSeq(ToRestore(table, u, files))
    /\ Len(rows') <= MaxRows
    /\ albums' = AlbumsRestored(owner, u, files)

Restore ==
    /\ Quiet
    /\ schema' = TRUE
    /\ RestoreOver(albums, rows, users, disk)
    /\ last' = "restore"
    /\ UNCHANGED <<users, profiled, disk, drawn, cmd, del, halted, astray>>

\* A folder of one photo, into the album at slug s whoever owns that; the files
\* go under the importer's key. A stem the album has is skipped.
Import(a, s, stem, pic) ==
    /\ Quiet /\ a \in users
    /\ stem \notin UsedStems(s) /\ pic \notin drawn /\ Len(rows) < MaxRows
    /\ \E committed \in BOOLEAN :
         /\ AddPhoto(s, <<Key(a), s, stem>>, pic, committed)
         /\ albums' = IF committed /\ albums[s] = Nothing
                      THEN [albums EXCEPT ![s] = a] ELSE albums
    /\ UNCHANGED <<schema, users, profiled, cmd, del, halted, astray>>

\* prune-media, which makes the tables if there are none, and then stops.
PruneMedia ==
    /\ Quiet
    /\ schema' = TRUE
    /\ disk' = IF schema
               THEN [x \in Paths |-> IF \E i \in Live : rows[i].path = x
                                     THEN disk[x] ELSE Nothing]
               ELSE disk
    /\ last' = "none"
    /\ UNCHANGED <<users, profiled, albums, rows, drawn, cmd, del, halted, astray>>

\* A reset drops the tables and leaves the files. Ids start over.
ResetDb ==
    /\ Quiet
    /\ schema' = FALSE
    /\ users' = {} /\ profiled' = {}
    /\ albums' = [s \in Slugs |-> Nothing]
    /\ rows' = << >>
    /\ last' = "none"
    /\ UNCHANGED <<disk, drawn, cmd, del, halted, astray>>

-----------------------------------------------------------------------------
(* A development boot: the seeded artist, the seeded album, a restore.     *)

SeedPath == <<<<Seeded, TRUE>>, SeedAlbum, SeedStem>>

SeedMissingById ==                            \* mutant: under the bare id
    \A i \in InAlbum(SeedAlbum) : rows[i].path # <<<<Seeded, FALSE>>, SeedAlbum, SeedStem>>

\* _top_up_album: the album has no row for its placeholder.
SeedMissing == \A i \in InAlbum(SeedAlbum) : rows[i].path # SeedPath

\* The album of the seeded slug becomes the seeded artist's, whoever made it.
Boot ==
    /\ Quiet
    /\ schema' = TRUE
    /\ users' = users \cup {Seeded}
    /\ profiled' = profiled \cup {Seeded}
    /\ disk' = IF SeedMissing THEN [disk EXCEPT ![SeedPath] = Placeholder] ELSE disk
    /\ LET placeholder == [album |-> SeedAlbum, path |-> SeedPath, pic |-> Placeholder]
           table == IF SeedMissing THEN Append(rows, placeholder) ELSE rows
       IN  RestoreOver([albums EXCEPT ![SeedAlbum] = Seeded], table, users', disk')
    /\ last' = "boot"
    /\ UNCHANGED <<drawn, cmd, del, halted, astray>>

-----------------------------------------------------------------------------
Api ==
    \/ \E a \in Artists : SignUp(a) \/ SaveProfile(a) \/ DeleteArtist(a)
    \/ \E a \in Artists, s \in Slugs : CreateAlbum(a, s)
    \/ \E s \in Slugs, stem \in Stems, pic \in Pics : Upload(s, stem, pic)
    \/ \E i \in Live : DeleteRead(Nothing, {i})
    \/ \E s \in Slugs : albums[s] # Nothing /\ DeleteRead(s, InAlbum(s))
    \/ DeleteCommit \/ DeleteUnlink \/ DeleteDies

RelayoutMedia == RelayoutRead \/ RelayoutRow \/ RelayoutCommit \/ RelayoutDies

Commands ==
    \/ Restore \/ PruneMedia \/ ResetDb \/ Boot
    \/ \E a \in Artists, s \in Slugs, stem \in Stems, pic \in Pics : Import(a, s, stem, pic)

Next == Api \/ RelayoutMedia \/ Commands

Spec == Init /\ [][Next]_vars

-----------------------------------------------------------------------------
(* Properties.                                                             *)

\* Every variable keeps its type.
TypeOK ==
    /\ schema \in BOOLEAN
    /\ users \subseteq Artists /\ profiled \subseteq users
    /\ albums \in [Slugs -> users \cup {Nothing}]
    /\ rows \in Seq(Row \cup {Nothing}) /\ Len(rows) <= MaxRows
    /\ disk \in [Paths -> Bytes \cup {Nothing}]
    /\ drawn \subseteq Pics
    /\ cmd \in Relayout /\ Locked \subseteq Live
    /\ del \in Deletion
    /\ last \in {"none", "restore", "relayout", "boot"}
    /\ halted \in BOOLEAN /\ astray \in BOOLEAN

\* Every row shows the picture it was made for, through profiles saved, resets,
\* restores, boots, sweeps and relayouts - but for rows a relayout has updated
\* and not committed, and unless one was stopped half-way or went astray.
RowsKeepPictures ==
    (~halted /\ ~astray) =>
        \A i \in Live \ Locked : disk[rows[i].path] = rows[i].pic

\* test_restore.py:125: a restored tree has one row for each file of a known
\* artist, never two, whatever its name, unless a relayout was stopped or astray.
RestoredOnce ==
    (last \in {"restore", "boot"} /\ ~halted /\ ~astray) =>
        \A x \in Paths : (disk[x] # Nothing /\ KeyOf(x)[1] \in users) =>
            Cardinality({i \in Live : rows[i].path = x /\ rows[i].album = SlugOf(x)}) = 1

\* README.md:152: a relayout that ran to its end leaves nothing for another,
\* unless an artist saved a first profile meanwhile.
RelayoutSettles ==
    last = "relayout" =>
        \A i \in Live : LET x == rows[i].path
                            a == albums[rows[i].album]
                        IN  KeyOf(x) = <<a, a \in profiled>> \/ disk[x] = Nothing

\* storage.py:59: a relayout never costs a picture, even one it cannot place.
MovesLoseNothing ==
    [][RelayoutRow => {disk'[x] : x \in Paths} = {disk[x] : x \in Paths}]_vars

\* seeds.py:557: a boot after a boot changes nothing.
BootSettles ==
    [][(last = "boot" /\ Boot) => UNCHANGED <<users, profiled, albums, rows, disk>>]_vars

\* A delete that ends takes its uploaded pictures off the disk, unless a
\* relayout was at work since it read the names.
DeleteTakesFiles ==
    [][(DeleteUnlink /\ ~del.crossed /\ ~halted /\ ~astray) =>
         \A x \in Paths : disk'[x] \notin del.pics \cap Pics]_vars

\* relayout.py:6: rows and files have to be moved together, for a row pointing
\* at a path where the file no longer is serves nothing. So once a relayout ran
\* to its end, every row has its file.
RerunHeals == last = "relayout" => \A i \in Live : disk[rows[i].path] # Nothing
=============================================================================
