----------------------------- MODULE MediaStore -----------------------------
(***************************************************************************)
(* Photo rows and photo files: app/api/manage.py (upload_photos,           *)
(* delete_photo, delete_album), services/uploads.py (add_photo),           *)
(* services/storage.py, the prune-media command of cli.py, and the reads   *)
(* of a file by app/api/media.py.                                          *)
(*                                                                         *)
(* The table photos and the media directory have no common transaction.    *)
(* An upload writes a photo's files before its row is committed; a delete  *)
(* commits before it unlinks; prune-media reads the rows, then lists and   *)
(* sweeps the directory; a download reads a row and opens the file after,  *)
(* by the path it has read.  A request is a row of `req': what it has read *)
(* and what it has still to do.  A photo's three files move together here  *)
(* and are one entry of `disk', which says whose bytes it holds.           *)
(***************************************************************************)
EXTENDS Integers, FiniteSets

CONSTANTS
    Albums,         \* album ids; SlugOf gives the slug each is created with
    SlugOf,
    Photos,         \* photo ids, each also standing for the bytes uploaded
    Names,          \* sanitised stems of the file names clients send
    LongNames,      \* those of Names that fill safe_stem's 80 characters
    MaxBump,        \* bound: highest -n suffix
    Requests,       \* handlers and commands running at a time
    Nothing         \* no file, or no row

ASSUME LongNamesAreNames == LongNames \subseteq Names
ASSUME BumpIsPositive    == MaxBump \in Nat \ {0}
ASSUME NothingIsNoPhoto  == Nothing \notin Photos

Slugs == {SlugOf[a] : a \in Albums}
Stems == Names \X (1 .. MaxBump)     \* <<name, n>>: "name" or "name-n"
Paths == Slugs \X Stems

VARIABLES
    live,           \* albums that have a row
    made,           \* history: albums ever created (ids are not reused)
    photos,         \* committed rows of table photos, by id
    taken,          \* history: photo ids handed out
    disk,           \* whose bytes each path holds
    req,            \* what each request in flight holds
    raced           \* history: paths two requests were about at once

vars == <<live, made, photos, taken, disk, req, raced>>

Idle == [step |-> "idle", paths |-> {}]

Row == [album : Albums, path : Paths]

(* `paths' is every path a request may still write or unlink.  "batch",    *)
(* "write" and "insert" are an upload between its files, with a stem       *)
(* chosen, and with the files written; `staged' are its uncommitted rows.  *)
(* "drop" and "dropAlbum" are deletes that have read their file list;      *)
(* "unlink" follows their commit.  "scan" and "sweep" are prune-media with *)
(* its rows read, and with its orphans listed.  "open" and "sent" are a    *)
(* download of a photo with its row read, and with the bytes found there.  *)
Request ==
    {Idle}
    \cup [step : {"batch"}, paths : SUBSET Paths, album : Albums,
          staged : [Photos -> Row \cup {Nothing}]]
    \cup [step : {"write"}, paths : SUBSET Paths, album : Albums,
          staged : [Photos -> Row \cup {Nothing}], path : Paths]
    \cup [step : {"insert"}, paths : SUBSET Paths, album : Albums,
          staged : [Photos -> Row \cup {Nothing}], path : Paths,
          photo : Photos]
    \cup [step : {"drop"}, paths : SUBSET Paths, photo : Photos]
    \cup [step : {"dropAlbum"}, paths : SUBSET Paths, album : Albums]
    \cup [step : {"unlink", "scan", "sweep"}, paths : SUBSET Paths]
    \cup [step : {"open"}, paths : {{}}, photo : Photos, path : Paths]
    \cup [step : {"sent"}, paths : {{}}, photo : Photos, path : Paths, bytes : Photos]

Uploading == {"batch", "write", "insert"}

Empty == [p \in Photos |-> Nothing]

Init ==
    /\ live = {} /\ made = {} /\ taken = {} /\ raced = {}
    /\ photos = Empty
    /\ disk = [x \in Paths |-> Nothing]
    /\ req = [r \in Requests |-> Idle]

-----------------------------------------------------------------------------
(* Stems and paths.                                                        *)

Rows(table) == {p \in Photos : table[p] # Nothing}

\* Where photo_paths puts a stem: it sanitises the bumped stem once more, and
\* that cuts the suffix off a name that already filled the 80 characters.
SafeStem(stem) == IF stem[1] \in LongNames THEN <<stem[1], 1>> ELSE stem

PathById(album, stem) == <<album, SafeStem(stem)>>     \* mutant: folder by id

PathOf(album, stem) == <<SlugOf[album], SafeStem(stem)>>

UsedCommitted(album, staged) ==               \* mutant: the row is not flushed
    {photos[p].path[2] : p \in {q \in Rows(photos) : photos[q].album = album}}

\* _used_stems: the rows of the album this request can see - the committed
\* ones and its own.
UsedStems(album, staged) ==
    {photos[p].path[2] : p \in {q \in Rows(photos) : photos[q].album = album}}
        \cup {staged[p].path[2] : p \in Rows(staged)}

\* add_photo settles on the name, or on the first free of -2, -3, ...
FreeStem(name, n, used) ==
    /\ <<name, n>> \notin used
    /\ \A m \in 1 .. (n - 1) : <<name, m>> \in used

\* Another request holds x, or x was picked for an album deleted meanwhile,
\* whose slug, and so whose folder, may be a newer album's.
RacedPick(r, x) ==
    \/ \E q \in Requests \ {r} : x \in req[q].paths
    \/ req[r].album \notin live

Set(r, value) == req' = [req EXCEPT ![r] = value]

-----------------------------------------------------------------------------
(* POST /api/manage/albums: slugs are unique among live albums.            *)
CreateAlbum(a) ==
    /\ a \notin made
    /\ \A b \in live : SlugOf[b] # SlugOf[a]
    /\ live' = live \cup {a}
    /\ made' = made \cup {a}
    /\ UNCHANGED <<photos, taken, disk, req, raced>>

(* POST /api/manage/albums/{slug}/photos, one file after another.          *)

UploadBegin(r, a) ==
    /\ req[r] = Idle
    /\ a \in live
    /\ Set(r, [step |-> "batch", paths |-> {}, album |-> a, staged |-> Empty])
    /\ UNCHANGED <<live, made, photos, taken, disk, raced>>

\* add_photo up to the choice of a stem.
PickStem(r, name) ==
    /\ req[r].step = "batch"
    /\ \E n \in 1 .. MaxBump : LET b == req[r]
                                 x == PathOf(b.album, <<name, n>>) IN
           /\ FreeStem(name, n, UsedStems(b.album, b.staged))
           /\ Set(r, [step |-> "write", paths |-> b.paths \cup {x},
                      album |-> b.album, staged |-> b.staged, path |-> x])
           /\ raced' = IF RacedPick(r, x) THEN raced \cup {x} ELSE raced
    /\ UNCHANGED <<live, made, photos, taken, disk>>

WriteFiles(r) ==
    /\ req[r].step = "write"
    /\ \E p \in Photos \ taken : LET b == req[r] IN
         /\ taken' = taken \cup {p}
         /\ disk' = [disk EXCEPT ![b.path] = p]
         /\ Set(r, [step |-> "insert", paths |-> b.paths, album |-> b.album,
                    staged |-> b.staged, path |-> b.path, photo |-> p])
    /\ UNCHANGED <<live, made, photos, raced>>

\* derive() or a write failed: the file is reported and the batch goes on. From
\* "insert" it is the last write that failed, and the others leave their bytes.
RejectFile(r) ==
    /\ req[r].step \in {"write", "insert"}
    /\ LET b == req[r]
       IN  Set(r, [step |-> "batch", paths |-> b.paths, album |-> b.album,
                   staged |-> b.staged])
    /\ UNCHANGED <<live, made, photos, taken, disk, raced>>

InsertOrphan(r) ==                            \* mutant: no foreign key
    /\ req[r].step = "insert"
    /\ LET b == req[r]
       IN  Set(r, [step |-> "batch", paths |-> b.paths, album |-> b.album,
                   staged |-> [b.staged EXCEPT ![b.photo] =
                                 [album |-> b.album, path |-> b.path]]])
    /\ UNCHANGED <<live, made, photos, taken, disk, raced>>

\* The INSERT needs the album's row (else Die); it then locks that row.
InsertRow(r) ==
    /\ req[r].step = "insert"
    /\ req[r].album \in live
    /\ LET b == req[r]
       IN  Set(r, [step |-> "batch", paths |-> b.paths, album |-> b.album,
                   staged |-> [b.staged EXCEPT ![b.photo] =
                                 [album |-> b.album, path |-> b.path]]])
    /\ UNCHANGED <<live, made, photos, taken, disk, raced>>

\* The end of the batch: a commit, or a rollback when nothing was added.
UploadEnd(r) ==
    /\ req[r].step = "batch"
    /\ photos' = [p \in Photos |-> IF req[r].staged[p] # Nothing
                                   THEN req[r].staged[p] ELSE photos[p]]
    /\ Set(r, Idle)
    /\ UNCHANGED <<live, made, taken, disk, raced>>

-----------------------------------------------------------------------------
(* Deletes: read the file names, commit, then unlink.                      *)

UnlinkFirst(r, p) ==                          \* mutant: files before the row
    /\ req[r] = Idle
    /\ photos[p] # Nothing
    /\ disk' = [disk EXCEPT ![photos[p].path] = Nothing]
    /\ Set(r, [step |-> "drop", paths |-> {photos[p].path}, photo |-> p])
    /\ UNCHANGED <<live, made, photos, taken, raced>>

DeleteRead(r, p) ==
    /\ req[r] = Idle
    /\ photos[p] # Nothing
    /\ Set(r, [step |-> "drop", paths |-> {photos[p].path}, photo |-> p])
    /\ UNCHANGED <<live, made, photos, taken, disk, raced>>

DeleteCommit(r) ==
    /\ req[r].step = "drop"
    /\ photos' = [photos EXCEPT ![req[r].photo] = Nothing]
    /\ Set(r, [step |-> "unlink", paths |-> req[r].paths])
    /\ UNCHANGED <<live, made, taken, disk, raced>>

DeleteAlbumRead(r, a) ==
    /\ req[r] = Idle
    /\ a \in live
    /\ Set(r, [step |-> "dropAlbum", album |-> a, paths |->
           {photos[p].path : p \in {q \in Rows(photos) : photos[q].album = a}}])
    /\ UNCHANGED <<live, made, photos, taken, disk, raced>>

\* An upload that has inserted into an album holds its row until it commits.
Inserting(a) ==
    \E q \in Requests : /\ req[q].step \in Uploading
                        /\ req[q].album = a
                        /\ Rows(req[q].staged) # {}

\* ON DELETE CASCADE takes the rows of photos committed since the read, too.
WithoutAlbum(a) ==
    [p \in Photos |-> IF photos[p] # Nothing /\ photos[p].album = a
                      THEN Nothing ELSE photos[p]]

DeleteAlbumCommit(r) ==
    /\ req[r].step = "dropAlbum"
    /\ ~Inserting(req[r].album)
    /\ live' = live \ {req[r].album}
    /\ photos' = WithoutAlbum(req[r].album)
    /\ Set(r, [step |-> "unlink", paths |-> req[r].paths])
    /\ UNCHANGED <<made, taken, disk, raced>>

\* DELETE /api/users/{id}: an artist's albums and photos cascade; their files
\* are left on disk.  Every album here is the same artist's.
DeleteArtist(r) ==
    /\ req[r] = Idle
    /\ live # {}
    /\ \A a \in live : ~Inserting(a)
    /\ live' = {}
    /\ photos' = Empty
    /\ UNCHANGED <<made, taken, disk, req, raced>>

-----------------------------------------------------------------------------
(* app.cli prune-media --yes.                                              *)

Unreferenced == Paths \ {photos[p].path : p \in Rows(photos)}

PruneRead(r) ==
    /\ req[r] = Idle
    /\ LET uploads == {q \in Requests : req[q].step \in Uploading}
       IN  /\ Set(r, [step |-> "scan", paths |-> Unreferenced])
           /\ raced' = raced \cup
                (Unreferenced \cap UNION {req[q].paths : q \in uploads})
    /\ UNCHANGED <<live, made, photos, taken, disk>>

OnDisk == {x \in Paths : disk[x] # Nothing}

\* The walk over the directory, after the session is closed.
PruneScan(r) ==
    /\ req[r].step = "scan"
    /\ Set(r, [step |-> "sweep", paths |-> OnDisk \cap req[r].paths])
    /\ UNCHANGED <<live, made, photos, taken, disk, raced>>

\* delete_file, and prune-media's unlink: a missing file is not an error.
Unlink(r, x) ==
    /\ req[r].step \in {"unlink", "sweep"}
    /\ x \in req[r].paths
    /\ disk' = [disk EXCEPT ![x] = Nothing]
    /\ Set(r, [req[r] EXCEPT !.paths = @ \ {x}])
    /\ UNCHANGED <<live, made, photos, taken, raced>>

UnlinkEnd(r) ==
    /\ req[r].step \in {"unlink", "sweep"}
    /\ req[r].paths = {}
    /\ Set(r, Idle)
    /\ UNCHANGED <<live, made, photos, taken, disk, raced>>

-----------------------------------------------------------------------------
(* GET /api/photos/{id}/download, /file and /thumb: Gallery has who may.   *)

GetRead(r, p) ==
    /\ req[r] = Idle
    /\ photos[p] # Nothing
    /\ Set(r, [step |-> "open", paths |-> {}, photo |-> p, path |-> photos[p].path])
    /\ UNCHANGED <<live, made, photos, taken, disk, raced>>

\* The file is opened as the answer is sent; if it is not there, Die.
GetFile(r) ==
    /\ req[r].step = "open"
    /\ disk[req[r].path] # Nothing
    /\ Set(r, [step |-> "sent", paths |-> {}, photo |-> req[r].photo,
               path |-> req[r].path, bytes |-> disk[req[r].path]])
    /\ UNCHANGED <<live, made, photos, taken, disk, raced>>

(* An error that escapes the handler, a lost client or a stopped process:  *)
(* the open transaction rolls back, files stay as they are.  Or, of a      *)
(* download, its end.                                                      *)
Die(r) ==
    /\ req[r] # Idle
    /\ Set(r, Idle)
    /\ UNCHANGED <<live, made, photos, taken, disk, raced>>

Upload(r) ==
    \/ \E a \in Albums : UploadBegin(r, a)
    \/ \E name \in Names : PickStem(r, name)
    \/ WriteFiles(r) \/ RejectFile(r) \/ InsertRow(r) \/ UploadEnd(r)

Delete(r) ==
    \/ \E p \in Photos : DeleteRead(r, p)
    \/ \E a \in Albums : DeleteAlbumRead(r, a)
    \/ DeleteCommit(r) \/ DeleteAlbumCommit(r)

PruneMedia(r) == PruneRead(r) \/ PruneScan(r)

Download(r) == GetFile(r) \/ \E p \in Photos : GetRead(r, p)

UnlinkFiles(r) == UnlinkEnd(r) \/ \E x \in Paths : Unlink(r, x)

Next ==
    \/ \E a \in Albums : CreateAlbum(a)
    \/ \E r \in Requests :
         \/ Upload(r) \/ Delete(r) \/ DeleteArtist(r)
         \/ PruneMedia(r) \/ UnlinkFiles(r) \/ Download(r) \/ Die(r)

Spec == Init /\ [][Next]_vars

-----------------------------------------------------------------------------
(* Properties.                                                             *)

\* Every variable keeps its type.
TypeOK ==
    /\ live \subseteq made /\ made \subseteq Albums
    /\ photos \in [Photos -> Row \cup {Nothing}]
    /\ taken \subseteq Photos
    /\ disk \in [Paths -> Photos \cup {Nothing}]
    /\ req \in [Requests -> Request]
    /\ raced \subseteq Paths

\* A photo row's album has a row: the foreign key holds across the delete of
\* an album racing an upload into it.
RowsHaveAlbums == \A p \in Rows(photos) : photos[p].album \in live

\* The rows an upload has inserted are its album's, which then has a row. With
\* RowsHaveAlbums this is inductive: it is the lock that Inserting stands for.
StagedHaveAlbums ==
    \A r \in Requests : req[r].step \in Uploading =>
        \A p \in Rows(req[r].staged) :
            req[r].staged[p].album = req[r].album /\ req[r].album \in live

ForeignKey == RowsHaveAlbums /\ StagedHaveAlbums

Intact(p) == disk[photos[p].path] = p

\* The files of a committed row are there and are the bytes that were uploaded
\* with it, wherever requests failed or the server stopped, as long as no two
\* requests were about the row's path at once.
IntactUnlessRaced ==
    \A p \in Rows(photos) : photos[p].path \notin raced => Intact(p)

\* Two rows share files only when two requests were about the path at once.
OwnPathUnlessRaced ==
    \A p, q \in Rows(photos) :
        (p # q /\ photos[p].path = photos[q].path) => photos[p].path \in raced

\* Paths that may hold another photo's bytes: raced, or of a name so long that
\* its suffix is cut off.
Unsure == raced \cup {x \in Paths : x[2][1] \in LongNames}

\* A download opens the file by a path it read before, with uploads, deletes and
\* prunes in between: what it sends are the bytes of the photo asked for, unless
\* that photo is deleted or its path is one of Unsure.
BytesAsked ==
    \A r \in Requests :
        (/\ req[r].step = "sent"
         /\ photos[req[r].photo] # Nothing
         /\ req[r].path \notin Unsure) => req[r].bytes = req[r].photo

\* uploads.py:124: a second file of the same name gets a name of its own,
\* rather than overwriting the first.
NothingOverwritten == \A p \in Rows(photos) : disk[photos[p].path] \in {p, Nothing}
=============================================================================
