-------------------------- MODULE MediaStore_proofs --------------------------
(***************************************************************************)
(* Proofs about MediaStore: its types, the foreign key of a photo row kept *)
(* by deletes of albums that race uploads into them, that a row keeps its  *)
(* bytes and its path for itself unless the path was raced, and that then  *)
(* downloads send what was asked for; for any number of requests, albums   *)
(* and names.                                                              *)
(***************************************************************************)
EXTENDS MediaStore, TLAPS

\* What a request holds at each step.
LEMMA HeldTypes ==
    ASSUME TypeOK, NEW r \in Requests
    PROVE  /\ req[r].paths \subseteq Paths
           /\ req[r].step \in Uploading =>
                /\ req[r].album \in Albums
                /\ req[r].staged \in [Photos -> Row \cup {Nothing}]
           /\ req[r].step \in {"write", "insert"} => req[r].path \in Paths
           /\ req[r].step = "insert" => req[r].photo \in Photos
           /\ req[r].step = "drop" => req[r].photo \in Photos
           /\ req[r].step = "dropAlbum" => req[r].album \in Albums
           /\ req[r].step \in {"open", "sent"} =>
                req[r].photo \in Photos /\ req[r].path \in Paths
PROOF
  <1>1. req[r] \in Request
    BY DEF TypeOK
  <1> QED
    BY <1>1 DEF Request, Idle, Uploading

\* A step that gives one request a well-typed value keeps req well typed.
LEMMA SetTypes ==
    ASSUME TypeOK, NEW r \in Requests, NEW value \in Request, Set(r, value)
    PROVE  req' \in [Requests -> Request]
PROOF
  BY DEF TypeOK, Set

\* Sanitising a stem leaves a stem, and a path of any album's folder a path.
LEMMA PathsAreClosed ==
    ASSUME NEW a \in Albums, NEW stem \in Stems
    PROVE  PathOf(a, stem) \in Paths
PROOF
  <1>1. stem[1] \in Names /\ stem[2] \in 1 .. MaxBump
    BY DEF Stems
  <1>2. <<stem[1], 1>> \in Stems
    BY <1>1, BumpIsPositive DEF Stems
  <1>3. SafeStem(stem) \in Stems
    BY <1>2 DEF SafeStem
  <1> QED
    BY <1>3 DEF PathOf, Paths, Slugs

\* Every variable keeps its type.
THEOREM TypeCorrect == Spec => []TypeOK
PROOF
  <1>1. Init => TypeOK
    BY DEF Init, TypeOK, Empty, Request
  <1>2. TypeOK /\ [Next]_vars => TypeOK'
    <2> SUFFICES ASSUME TypeOK, [Next]_vars PROVE TypeOK'
      OBVIOUS
    <2>0. Idle \in Request
      BY DEF Request
    <2>1. CASE UNCHANGED vars
      BY <2>1 DEF vars, TypeOK
    <2>2. ASSUME NEW a \in Albums, CreateAlbum(a) PROVE TypeOK'
      BY <2>2 DEF CreateAlbum, TypeOK
    <2>3. ASSUME NEW r \in Requests, NEW a \in Albums, UploadBegin(r, a)
          PROVE  TypeOK'
      <3>1. [step |-> "batch", paths |-> {}, album |-> a, staged |-> Empty]
              \in Request
        BY DEF Request, Empty
      <3>2. req' \in [Requests -> Request]
        BY <2>3, <3>1, SetTypes DEF UploadBegin
      <3> QED
        BY <2>3, <3>2 DEF UploadBegin, TypeOK
    <2>4. ASSUME NEW r \in Requests, NEW name \in Names, PickStem(r, name)
          PROVE  TypeOK'
      <3>1. PICK n \in 1 .. MaxBump :
              LET b == req[r]
                  x == PathOf(b.album, <<name, n>>)
              IN  /\ Set(r, [step |-> "write", paths |-> b.paths \cup {x},
                             album |-> b.album, staged |-> b.staged,
                             path |-> x])
                  /\ raced' = IF RacedPick(r, x) THEN raced \cup {x} ELSE raced
        BY <2>4 DEF PickStem
      <3> DEFINE x == PathOf(req[r].album, <<name, n>>)
      <3>2. req[r].step \in Uploading
        BY <2>4 DEF PickStem, Uploading
      <3>3. x \in Paths
        BY <3>2, HeldTypes, PathsAreClosed DEF Stems
      <3>4. [step |-> "write", paths |-> req[r].paths \cup {x},
             album |-> req[r].album, staged |-> req[r].staged, path |-> x]
              \in Request
        BY <3>2, <3>3, HeldTypes DEF Request
      <3>5. req' \in [Requests -> Request]
        BY <3>1, <3>4, SetTypes
      <3>6. raced' \subseteq Paths
        BY <3>1, <3>3 DEF TypeOK
      <3> QED
        BY <2>4, <3>5, <3>6 DEF PickStem, TypeOK
    <2>5. ASSUME NEW r \in Requests, WriteFiles(r) PROVE TypeOK'
      <3>1. PICK p \in Photos \ taken :
              /\ taken' = taken \cup {p}
              /\ disk' = [disk EXCEPT ![req[r].path] = p]
              /\ Set(r, [step |-> "insert", paths |-> req[r].paths,
                         album |-> req[r].album, staged |-> req[r].staged,
                         path |-> req[r].path, photo |-> p])
        BY <2>5 DEF WriteFiles
      <3>2. req[r].step = "write"
        BY <2>5 DEF WriteFiles
      <3>3. [step |-> "insert", paths |-> req[r].paths,
             album |-> req[r].album, staged |-> req[r].staged,
             path |-> req[r].path, photo |-> p] \in Request
        BY <3>2, HeldTypes DEF Request, Uploading
      <3>4. req' \in [Requests -> Request]
        BY <3>1, <3>3, SetTypes
      <3>5. disk' \in [Paths -> Photos \cup {Nothing}]
        BY <3>1 DEF TypeOK
      <3> QED
        BY <2>5, <3>1, <3>4, <3>5 DEF WriteFiles, TypeOK
    <2>6. ASSUME NEW r \in Requests, RejectFile(r) PROVE TypeOK'
      <3>1. [step |-> "batch", paths |-> req[r].paths, album |-> req[r].album,
             staged |-> req[r].staged] \in Request
        BY <2>6, HeldTypes DEF RejectFile, Request, Uploading
      <3>2. req' \in [Requests -> Request]
        BY <2>6, <3>1, SetTypes DEF RejectFile
      <3> QED
        BY <2>6, <3>2 DEF RejectFile, TypeOK
    <2>7. ASSUME NEW r \in Requests, InsertRow(r) PROVE TypeOK'
      <3> DEFINE row == [album |-> req[r].album, path |-> req[r].path]
                 staged == [req[r].staged EXCEPT ![req[r].photo] = row]
      <3>1. req[r].step = "insert"
        BY <2>7 DEF InsertRow
      <3>2. staged \in [Photos -> Row \cup {Nothing}]
        BY <3>1, HeldTypes DEF Row, Uploading
      <3>3. [step |-> "batch", paths |-> req[r].paths, album |-> req[r].album,
             staged |-> staged] \in Request
        BY <3>1, <3>2, HeldTypes DEF Request, Uploading
      <3>4. req' \in [Requests -> Request]
        BY <2>7, <3>3, SetTypes DEF InsertRow
      <3> QED
        BY <2>7, <3>4 DEF InsertRow, TypeOK
    <2>8. ASSUME NEW r \in Requests, UploadEnd(r) PROVE TypeOK'
      <3>1. req[r].staged \in [Photos -> Row \cup {Nothing}]
        BY <2>8, HeldTypes DEF UploadEnd, Uploading
      <3>2. photos' \in [Photos -> Row \cup {Nothing}]
        BY <2>8, <3>1 DEF UploadEnd, TypeOK
      <3>3. req' \in [Requests -> Request]
        BY <2>8, <2>0, SetTypes DEF UploadEnd
      <3> QED
        BY <2>8, <3>2, <3>3 DEF UploadEnd, TypeOK
    <2>9. ASSUME NEW r \in Requests, NEW p \in Photos, DeleteRead(r, p)
          PROVE  TypeOK'
      <3>1. photos[p].path \in Paths
        BY <2>9 DEF DeleteRead, TypeOK, Row
      <3>2. [step |-> "drop", paths |-> {photos[p].path}, photo |-> p]
              \in Request
        BY <3>1 DEF Request
      <3>3. req' \in [Requests -> Request]
        BY <2>9, <3>2, SetTypes DEF DeleteRead
      <3> QED
        BY <2>9, <3>3 DEF DeleteRead, TypeOK
    <2>10. ASSUME NEW r \in Requests, DeleteCommit(r) PROVE TypeOK'
      <3>1. [step |-> "unlink", paths |-> req[r].paths] \in Request
        BY HeldTypes DEF Request
      <3>2. req' \in [Requests -> Request]
        BY <2>10, <3>1, SetTypes DEF DeleteCommit
      <3> QED
        BY <2>10, <3>2 DEF DeleteCommit, TypeOK
    <2>11. ASSUME NEW r \in Requests, NEW a \in Albums, DeleteAlbumRead(r, a)
           PROVE  TypeOK'
      <3> DEFINE stored == {photos[p].path :
                              p \in {q \in Rows(photos) : photos[q].album = a}}
      <3>1. stored \subseteq Paths
        BY DEF TypeOK, Rows, Row
      <3>2. [step |-> "dropAlbum", album |-> a, paths |-> stored] \in Request
        BY <3>1 DEF Request
      <3>3. req' \in [Requests -> Request]
        BY <2>11, <3>2, SetTypes DEF DeleteAlbumRead
      <3> QED
        BY <2>11, <3>3 DEF DeleteAlbumRead, TypeOK
    <2>12. ASSUME NEW r \in Requests, DeleteAlbumCommit(r) PROVE TypeOK'
      <3>1. [step |-> "unlink", paths |-> req[r].paths] \in Request
        BY HeldTypes DEF Request
      <3>2. req' \in [Requests -> Request]
        BY <2>12, <3>1, SetTypes DEF DeleteAlbumCommit
      <3>3. photos' \in [Photos -> Row \cup {Nothing}]
        BY <2>12 DEF DeleteAlbumCommit, WithoutAlbum, TypeOK
      <3>4. live' \subseteq live
        BY <2>12 DEF DeleteAlbumCommit
      <3> QED
        BY <2>12, <3>2, <3>3, <3>4 DEF DeleteAlbumCommit, TypeOK
    <2>13. ASSUME NEW r \in Requests, DeleteArtist(r) PROVE TypeOK'
      BY <2>13 DEF DeleteArtist, TypeOK, Empty
    <2>14. ASSUME NEW r \in Requests, PruneRead(r) PROVE TypeOK'
      <3>1. Unreferenced \subseteq Paths
        BY DEF Unreferenced
      <3>2. [step |-> "scan", paths |-> Unreferenced] \in Request
        BY <3>1 DEF Request
      <3>3. req' \in [Requests -> Request]
        BY <2>14, <3>2, SetTypes DEF PruneRead
      <3>4. raced' \subseteq Paths
        BY <2>14, <3>1 DEF PruneRead, TypeOK
      <3> QED
        BY <2>14, <3>3, <3>4 DEF PruneRead, TypeOK
    <2>15. ASSUME NEW r \in Requests, PruneScan(r) PROVE TypeOK'
      <3>1. [step |-> "sweep", paths |-> OnDisk \cap req[r].paths] \in Request
        BY HeldTypes DEF Request
      <3>2. req' \in [Requests -> Request]
        BY <2>15, <3>1, SetTypes DEF PruneScan
      <3> QED
        BY <2>15, <3>2 DEF PruneScan, TypeOK
    <2>16. ASSUME NEW r \in Requests, NEW x \in Paths, Unlink(r, x)
           PROVE  TypeOK'
      <3>1. [req[r] EXCEPT !.paths = @ \ {x}] \in Request
        BY <2>16 DEF Unlink, TypeOK, Request, Idle
      <3>2. req' \in [Requests -> Request]
        BY <2>16, <3>1, SetTypes DEF Unlink
      <3> QED
        BY <2>16, <3>2 DEF Unlink, TypeOK
    <2>17. ASSUME NEW r \in Requests, UnlinkEnd(r) PROVE TypeOK'
      <3>1. req' \in [Requests -> Request]
        BY <2>17, <2>0, SetTypes DEF UnlinkEnd
      <3> QED
        BY <2>17, <3>1 DEF UnlinkEnd, TypeOK
    <2>18. ASSUME NEW r \in Requests, Die(r) PROVE TypeOK'
      <3>1. req' \in [Requests -> Request]
        BY <2>18, <2>0, SetTypes DEF Die
      <3> QED
        BY <2>18, <3>1 DEF Die, TypeOK
    <2>19. ASSUME NEW r \in Requests, NEW p \in Photos, GetRead(r, p) PROVE TypeOK'
      <3>1. photos[p].path \in Paths
        BY <2>19 DEF GetRead, TypeOK, Row
      <3>2. [step |-> "open", paths |-> {}, photo |-> p, path |-> photos[p].path]
              \in Request
        BY <3>1 DEF Request
      <3>3. req' \in [Requests -> Request]
        BY <2>19, <3>2, SetTypes DEF GetRead
      <3> QED
        BY <2>19, <3>3 DEF GetRead, TypeOK
    <2>20. ASSUME NEW r \in Requests, GetFile(r) PROVE TypeOK'
      <3>1. req[r].photo \in Photos /\ req[r].path \in Paths
        BY <2>20, HeldTypes DEF GetFile
      <3>2. disk[req[r].path] \in Photos
        BY <2>20, <3>1 DEF GetFile, TypeOK
      <3>3. [step |-> "sent", paths |-> {}, photo |-> req[r].photo,
             path |-> req[r].path, bytes |-> disk[req[r].path]] \in Request
        BY <3>1, <3>2 DEF Request
      <3>4. req' \in [Requests -> Request]
        BY <2>20, <3>3, SetTypes DEF GetFile
      <3> QED
        BY <2>20, <3>4 DEF GetFile, TypeOK
    <2> QED
      BY <2>1, <2>2, <2>3, <2>4, <2>5, <2>6, <2>7, <2>8, <2>9, <2>10, <2>11,
         <2>12, <2>13, <2>14, <2>15, <2>16, <2>17, <2>18, <2>19, <2>20
         DEF Next, Upload, Delete, PruneMedia, UnlinkFiles, Download
  <1> QED
    BY <1>1, <1>2, PTL DEF Spec

-----------------------------------------------------------------------------
(* The foreign key.                                                        *)

\* Storing one request's new value keeps StagedHaveAlbums if the value has it
\* and the albums with a row are still those.
LEMMA SetStaged ==
    ASSUME TypeOK, StagedHaveAlbums, NEW r \in Requests, NEW value,
           Set(r, value), live \subseteq live',
           value.step \in Uploading =>
             \A p \in Rows(value.staged) :
               value.staged[p].album = value.album /\ value.album \in live'
    PROVE  StagedHaveAlbums'
PROOF
  <1> SUFFICES ASSUME NEW q \in Requests, req'[q].step \in Uploading,
                      NEW p \in Rows(req'[q].staged)
               PROVE  /\ req'[q].staged[p].album = req'[q].album
                      /\ req'[q].album \in live'
    BY DEF StagedHaveAlbums, Rows
  <1>1. CASE q = r
    <2>1. req'[q] = value
      BY <1>1 DEF Set, TypeOK
    <2> QED
      BY <2>1
  <1>2. CASE q # r
    <2>1. req'[q] = req[q]
      BY <1>2 DEF Set, TypeOK
    <2> QED
      BY <2>1 DEF StagedHaveAlbums
  <1> QED
    BY <1>1, <1>2

\* A delete that finds no upload inserting into an album leaves the staged rows
\* of every upload where they were.
LEMMA NotInserting ==
    ASSUME StagedHaveAlbums, NEW a \in Albums, ~Inserting(a),
           NEW q \in Requests, req[q].step \in Uploading,
           NEW p \in Rows(req[q].staged)
    PROVE  req[q].album # a
PROOF
  BY DEF Inserting

\* The inductive invariant behind RowsHaveAlbums.
THEOREM ForeignKeyKept == Spec => []ForeignKey
PROOF
  <1>1. Init => ForeignKey
    BY DEF Init, ForeignKey, RowsHaveAlbums, StagedHaveAlbums, Rows, Empty,
           Idle, Uploading
  <1>2. TypeOK /\ ForeignKey /\ [Next]_vars => ForeignKey'
    <2> SUFFICES ASSUME TypeOK, ForeignKey, [Next]_vars PROVE ForeignKey'
      OBVIOUS
    <2> USE DEF ForeignKey
    <2>0. Idle.step \notin Uploading
      BY DEF Idle, Uploading
    <2>1. CASE UNCHANGED vars
      BY <2>1 DEF vars, RowsHaveAlbums, StagedHaveAlbums, Rows
    <2>2. ASSUME NEW a \in Albums, CreateAlbum(a) PROVE ForeignKey'
      BY <2>2 DEF CreateAlbum, RowsHaveAlbums, StagedHaveAlbums, Rows
    <2>3. ASSUME NEW r \in Requests, NEW a \in Albums, UploadBegin(r, a)
          PROVE  ForeignKey'
      <3>1. Rows(Empty) = {}
        BY DEF Rows, Empty
      <3>2. StagedHaveAlbums'
        BY <2>3, <3>1, SetStaged DEF UploadBegin
      <3> QED
        BY <2>3, <3>2 DEF UploadBegin, RowsHaveAlbums, Rows
    <2>4. ASSUME NEW r \in Requests, NEW name \in Names, PickStem(r, name)
          PROVE  ForeignKey'
      <3>1. PICK x : Set(r, [step |-> "write", paths |-> req[r].paths \cup {x},
                             album |-> req[r].album, staged |-> req[r].staged,
                             path |-> x])
        BY <2>4 DEF PickStem
      <3>2. req[r].step \in Uploading
        BY <2>4 DEF PickStem, Uploading
      <3>3. StagedHaveAlbums'
        BY <2>4, <3>1, <3>2, SetStaged DEF PickStem, StagedHaveAlbums
      <3> QED
        BY <2>4, <3>3 DEF PickStem, RowsHaveAlbums, Rows
    <2>5. ASSUME NEW r \in Requests, WriteFiles(r) PROVE ForeignKey'
      <3>1. PICK p : Set(r, [step |-> "insert", paths |-> req[r].paths,
                             album |-> req[r].album, staged |-> req[r].staged,
                             path |-> req[r].path, photo |-> p])
        BY <2>5 DEF WriteFiles
      <3>2. req[r].step \in Uploading
        BY <2>5 DEF WriteFiles, Uploading
      <3>3. StagedHaveAlbums'
        BY <2>5, <3>1, <3>2, SetStaged DEF WriteFiles, StagedHaveAlbums
      <3> QED
        BY <2>5, <3>3 DEF WriteFiles, RowsHaveAlbums, Rows
    <2>6. ASSUME NEW r \in Requests, RejectFile(r) PROVE ForeignKey'
      <3>1. req[r].step \in Uploading
        BY <2>6 DEF RejectFile, Uploading
      <3>2. StagedHaveAlbums'
        BY <2>6, <3>1, SetStaged DEF RejectFile, StagedHaveAlbums
      <3> QED
        BY <2>6, <3>2 DEF RejectFile, RowsHaveAlbums, Rows
    <2>7. ASSUME NEW r \in Requests, InsertRow(r) PROVE ForeignKey'
      <3> DEFINE row == [album |-> req[r].album, path |-> req[r].path]
                 staged == [req[r].staged EXCEPT ![req[r].photo] = row]
                 value == [step |-> "batch", paths |-> req[r].paths,
                           album |-> req[r].album, staged |-> staged]
      <3>1. req[r].step \in Uploading /\ req[r].album \in live
        BY <2>7 DEF InsertRow, Uploading
      <3>2. ASSUME NEW p \in Rows(staged)
            PROVE  staged[p].album = req[r].album
        BY <3>1, <3>2, HeldTypes DEF Rows, StagedHaveAlbums
      <3>3. Set(r, value) /\ live' = live /\ photos' = photos
        BY <2>7 DEF InsertRow
      <3>4. /\ value.staged = staged
            /\ value.album = req[r].album
        OBVIOUS
      <3> HIDE DEF value, staged
      <3>5. StagedHaveAlbums'
        BY <3>1, <3>2, <3>3, <3>4, SetStaged
      <3> QED
        BY <3>3, <3>5 DEF RowsHaveAlbums, Rows
    <2>8. ASSUME NEW r \in Requests, UploadEnd(r) PROVE ForeignKey'
      <3>1. StagedHaveAlbums'
        BY <2>8, <2>0, SetStaged DEF UploadEnd
      <3>2. req[r].step \in Uploading
        BY <2>8 DEF UploadEnd, Uploading
      <3>3. ASSUME NEW p \in Rows(photos') PROVE photos'[p].album \in live
        <4>1. CASE p \in Rows(req[r].staged)
          BY <2>8, <3>2, <3>3, <4>1 DEF UploadEnd, StagedHaveAlbums, Rows
        <4>2. CASE p \notin Rows(req[r].staged)
          BY <2>8, <3>3, <4>2 DEF UploadEnd, RowsHaveAlbums, Rows
        <4> QED
          BY <4>1, <4>2
      <3> QED
        BY <2>8, <3>1, <3>3 DEF UploadEnd, RowsHaveAlbums, Rows
    <2>9. ASSUME NEW r \in Requests, NEW p \in Photos, DeleteRead(r, p)
          PROVE  ForeignKey'
      <3>1. StagedHaveAlbums'
        BY <2>9, SetStaged DEF DeleteRead, Uploading
      <3> QED
        BY <2>9, <3>1 DEF DeleteRead, RowsHaveAlbums, Rows
    <2>10. ASSUME NEW r \in Requests, DeleteCommit(r) PROVE ForeignKey'
      <3>1. StagedHaveAlbums'
        BY <2>10, SetStaged DEF DeleteCommit, Uploading
      <3>2. \A p \in Rows(photos') : p \in Rows(photos) /\ photos'[p] = photos[p]
        BY <2>10 DEF DeleteCommit, Rows, TypeOK
      <3> QED
        BY <2>10, <3>1, <3>2 DEF DeleteCommit, RowsHaveAlbums, Rows
    <2>11. ASSUME NEW r \in Requests, NEW a \in Albums, DeleteAlbumRead(r, a)
           PROVE  ForeignKey'
      <3>1. StagedHaveAlbums'
        BY <2>11, SetStaged DEF DeleteAlbumRead, Uploading
      <3> QED
        BY <2>11, <3>1 DEF DeleteAlbumRead, RowsHaveAlbums, Rows
    <2>12. ASSUME NEW r \in Requests, DeleteAlbumCommit(r) PROVE ForeignKey'
      <3>1. req[r].album \in Albums
        BY <2>12, HeldTypes DEF DeleteAlbumCommit
      <3>2. ASSUME NEW q \in Requests, req'[q].step \in Uploading
            PROVE  q # r /\ req'[q] = req[q]
        BY <2>12, <3>2 DEF DeleteAlbumCommit, Set, TypeOK, Uploading
      <3>3. StagedHaveAlbums'
        <4> SUFFICES ASSUME NEW q \in Requests, req'[q].step \in Uploading,
                            NEW p \in Rows(req'[q].staged)
                     PROVE  /\ req'[q].staged[p].album = req'[q].album
                            /\ req'[q].album \in live'
          BY DEF StagedHaveAlbums, Rows
        <4>1. req'[q] = req[q]
          BY <3>2
        <4>2. req[q].album # req[r].album
          BY <2>12, <3>1, <4>1, NotInserting DEF DeleteAlbumCommit
        <4> QED
          BY <2>12, <4>1, <4>2 DEF DeleteAlbumCommit, StagedHaveAlbums
      <3>4. RowsHaveAlbums'
        BY <2>12 DEF DeleteAlbumCommit, WithoutAlbum, RowsHaveAlbums, Rows
      <3> QED
        BY <3>3, <3>4
    <2>13. ASSUME NEW r \in Requests, DeleteArtist(r) PROVE ForeignKey'
      <3>1. RowsHaveAlbums'
        BY <2>13 DEF DeleteArtist, RowsHaveAlbums, Rows, Empty
      <3>2. ASSUME NEW q \in Requests, req[q].step \in Uploading
            PROVE  Rows(req[q].staged) = {}
        <4> SUFFICES ASSUME NEW p \in Rows(req[q].staged) PROVE FALSE
          OBVIOUS
        <4>1. req[q].album \in live
          BY <3>2 DEF StagedHaveAlbums
        <4>2. Inserting(req[q].album)
          BY <3>2 DEF Inserting
        <4> QED
          BY <2>13, <4>1, <4>2 DEF DeleteArtist
      <3>3. StagedHaveAlbums'
        BY <2>13, <3>2 DEF DeleteArtist, StagedHaveAlbums, Rows
      <3> QED
        BY <3>1, <3>3
    <2>14. ASSUME NEW r \in Requests, PruneRead(r) PROVE ForeignKey'
      <3>1. StagedHaveAlbums'
        BY <2>14, SetStaged DEF PruneRead, Uploading
      <3> QED
        BY <2>14, <3>1 DEF PruneRead, RowsHaveAlbums, Rows
    <2>15. ASSUME NEW r \in Requests, PruneScan(r) PROVE ForeignKey'
      <3>1. StagedHaveAlbums'
        BY <2>15, SetStaged DEF PruneScan, Uploading
      <3> QED
        BY <2>15, <3>1 DEF PruneScan, RowsHaveAlbums, Rows
    <2>16. ASSUME NEW r \in Requests, NEW x \in Paths, Unlink(r, x)
           PROVE  ForeignKey'
      <3>1. [req[r] EXCEPT !.paths = @ \ {x}].step \notin Uploading
        BY <2>16 DEF Unlink, TypeOK, Request, Idle, Uploading
      <3>2. StagedHaveAlbums'
        BY <2>16, <3>1, SetStaged DEF Unlink
      <3> QED
        BY <2>16, <3>2 DEF Unlink, RowsHaveAlbums, Rows
    <2>17. ASSUME NEW r \in Requests, UnlinkEnd(r) PROVE ForeignKey'
      <3>1. StagedHaveAlbums'
        BY <2>17, <2>0, SetStaged DEF UnlinkEnd
      <3> QED
        BY <2>17, <3>1 DEF UnlinkEnd, RowsHaveAlbums, Rows
    <2>18. ASSUME NEW r \in Requests, Die(r) PROVE ForeignKey'
      <3>1. StagedHaveAlbums'
        BY <2>18, <2>0, SetStaged DEF Die
      <3> QED
        BY <2>18, <3>1 DEF Die, RowsHaveAlbums, Rows
    <2>19. ASSUME NEW r \in Requests, NEW p \in Photos, GetRead(r, p) PROVE ForeignKey'
      <3>1. StagedHaveAlbums'
        BY <2>19, SetStaged DEF GetRead, Uploading
      <3> QED
        BY <2>19, <3>1 DEF GetRead, RowsHaveAlbums, Rows
    <2>20. ASSUME NEW r \in Requests, GetFile(r) PROVE ForeignKey'
      <3>1. StagedHaveAlbums'
        BY <2>20, SetStaged DEF GetFile, Uploading
      <3> QED
        BY <2>20, <3>1 DEF GetFile, RowsHaveAlbums, Rows
    <2> QED
      BY <2>1, <2>2, <2>3, <2>4, <2>5, <2>6, <2>7, <2>8, <2>9, <2>10, <2>11,
         <2>12, <2>13, <2>14, <2>15, <2>16, <2>17, <2>18, <2>19, <2>20
         DEF Next, Upload, Delete, PruneMedia, UnlinkFiles, Download
  <1> QED
    BY <1>1, <1>2, TypeCorrect, PTL DEF Spec

\* A committed photo always has its album's row.
THEOREM ForeignKeyHolds == Spec => []RowsHaveAlbums
PROOF
  <1>1. ForeignKey => RowsHaveAlbums
    BY DEF ForeignKey
  <1> QED
    BY <1>1, ForeignKeyKept, PTL

-----------------------------------------------------------------------------
(* Photos keep their bytes.  Every path has at most one request or row that *)
(* counts on it, and none that will unlink it, unless two requests were      *)
(* about it at once, or photo_paths cuts the suffixes off its name.          *)

\* The photos at the other paths have their bytes.
IntactUnlessUnsure ==
    \A p \in Rows(photos) : photos[p].path \notin Unsure => Intact(p)

RowsAt(x) == {p \in Rows(photos) : photos[p].path = x}
OthersAt(r, x) == {q \in Requests \ {r} : x \in req[q].paths}

\* A row's path is in the folder of its album, and no other live album has it.
RowsFit ==
    /\ \A p \in Rows(photos) : photos[p].path[1] = SlugOf[photos[p].album]
    /\ \A a, b \in live : SlugOf[a] = SlugOf[b] => a = b

\* What an upload has staged is on disk; the path it is writing is another.
StagedFits(r) ==
    /\ \A p \in Rows(req[r].staged) :
         LET row == req[r].staged[p]
         IN  /\ row.path \in req[r].paths
             /\ row.path[1] = SlugOf[row.album]
             /\ row.path \notin Unsure => disk[row.path] = p
    /\ req[r].step \in {"write", "insert"} =>
         /\ req[r].path \in req[r].paths
         /\ req[r].path[1] = SlugOf[req[r].album]
         /\ req[r].path \notin Unsure =>
              \A p \in Rows(req[r].staged) : req[r].staged[p].path # req[r].path
    /\ (req[r].step = "insert" /\ req[r].path \notin Unsure) =>
         disk[req[r].path] = req[r].photo

\* No row but those it is about to delete is at a path a request holds, and an
\* upload holds its paths alone.
Exclusive(r, x) ==
    /\ req[r].step \in Uploading => OthersAt(r, x) = {}
    /\ req[r].step \in Uploading \cup {"unlink", "scan", "sweep"} => RowsAt(x) = {}
    /\ req[r].step = "drop" => RowsAt(x) \subseteq {req[r].photo}
    /\ req[r].step = "dropAlbum" =>
         \A p \in RowsAt(x) : photos[p].album = req[r].album

Holds(r) ==
    /\ req[r].step \in Uploading => StagedFits(r)
    /\ \A x \in req[r].paths \ Unsure : Exclusive(r, x)

Settled ==
    /\ RowsFit
    /\ IntactUnlessUnsure
    /\ \A r \in Requests : Holds(r)

\* A request is not disturbed by a step of another that leaves the rows, and an
\* upload's files, at its paths alone and takes none of an upload's paths.
LEMMA Undisturbed ==
    ASSUME TypeOK, NEW r \in Requests, NEW value, Set(r, value),
           NEW q \in Requests, q # r, Holds(q), Unsure \subseteq Unsure',
           \A x \in req[q].paths \ Unsure' :
             /\ \A p \in Photos : photos'[p] # Nothing /\ photos'[p].path = x
                                  => photos'[p] = photos[p]
             /\ req[q].step \in Uploading =>
                  disk'[x] = disk[x] /\ (x \in value.paths => x \in req[r].paths)
    PROVE  Holds(q)'
PROOF
  <1>1. /\ req'[q] = req[q] /\ req'[r] = value
        /\ \A o \in Requests \ {r} : req'[o] = req[o]
    BY DEF Set, TypeOK
  <1>2. ASSUME req[q].step \in Uploading PROVE StagedFits(q)'
    <2>1. /\ StagedFits(q)
          /\ \A x \in req[q].paths \ Unsure' : disk'[x] = disk[x] /\ x \notin Unsure
      BY <1>2 DEF Holds
    <2> QED
      BY <1>1, <1>2, <2>1 DEF StagedFits, Rows
  <1>3. ASSUME NEW x \in req[q].paths \ Unsure' PROVE Exclusive(q, x)'
    <2>1. Exclusive(q, x)
      BY <1>3 DEF Holds
    <2>2. \A p \in RowsAt(x)' : p \in RowsAt(x) /\ photos'[p] = photos[p]
      BY <1>3 DEF RowsAt, Rows
    <2>3. req[q].step \in Uploading => OthersAt(q, x)' = {}
      <3>1. SUFFICES ASSUME req[q].step \in Uploading, NEW o \in Requests \ {q},
                            x \in req'[o].paths
                     PROVE  FALSE
        BY DEF OthersAt
      <3>2. OthersAt(q, x) = {}
        BY <2>1, <3>1 DEF Exclusive
      <3> QED
        BY <1>1, <1>3, <3>1, <3>2 DEF OthersAt
    <2> QED
      BY <1>1, <2>1, <2>2, <2>3 DEF Exclusive
  <1> QED
    BY <1>1, <1>2, <1>3 DEF Holds

\* A step that leaves tables and files alone keeps the invariant if the request
\* that takes it does.
LEMMA QuietStep ==
    ASSUME TypeOK, Settled, NEW r \in Requests, NEW value, Set(r, value),
           UNCHANGED <<live, photos, disk>>, Unsure \subseteq Unsure',
           \A q \in Requests \ {r} : \A x \in value.paths \ Unsure' :
             (req[q].step \in Uploading /\ x \in req[q].paths) => x \in req[r].paths,
           Holds(r)'
    PROVE  Settled'
PROOF
  <1>1. ASSUME NEW q \in Requests, q # r PROVE Holds(q)'
    BY <1>1, Undisturbed DEF Settled
  <1>2. RowsFit' /\ IntactUnlessUnsure'
    BY DEF Settled, RowsFit, IntactUnlessUnsure, Rows, Intact
  <1> QED
    BY <1>1, <1>2 DEF Settled

\* A path under a short name is the one its stem names: only under a long name can
\* two stems of an album share a path.
LEMMA ShortStemsStay ==
    ASSUME NEW a \in Albums, NEW stem \in Stems
    PROVE  /\ PathOf(a, stem)[1] = SlugOf[a]
           /\ PathOf(a, stem)[2][1] \notin LongNames =>
                PathOf(a, stem) = <<SlugOf[a], stem>>
PROOF
  BY DEF PathOf, SafeStem

\* The stem picked is no row's, and no other request's unless that is noted.
LEMMA PickKeepsSettled ==
    ASSUME TypeOK, TypeOK', ForeignKey, Settled,
           NEW r \in Requests, NEW name \in Names, PickStem(r, name)
    PROVE  Settled'
PROOF
  <1>1. PICK n, x :
          /\ n \in 1 .. MaxBump
          /\ x = PathOf(req[r].album, <<name, n>>)
          /\ <<name, n>> \notin UsedStems(req[r].album, req[r].staged)
          /\ Set(r, [step |-> "write", paths |-> req[r].paths \cup {x},
                     album |-> req[r].album, staged |-> req[r].staged, path |-> x])
          /\ raced' = IF RacedPick(r, x) THEN raced \cup {x} ELSE raced
    BY DEF PickStem, FreeStem
  <1>2. /\ req[r].step = "batch" /\ req[r].step \in Uploading
        /\ UNCHANGED <<live, photos, disk>>
    BY DEF PickStem, Uploading
  <1>3. /\ req[r].album \in Albums /\ x \in Paths /\ x[1] = SlugOf[req[r].album]
        /\ x \notin Unsure' => x = <<SlugOf[req[r].album], <<name, n>>>>
    <2>1. req[r].album \in Albums /\ <<name, n>> \in Stems
      BY <1>1, <1>2, HeldTypes DEF Stems
    <2>2. x \in Paths
      BY <1>1, <2>1, PathsAreClosed
    <2> QED
      BY <1>1, <2>1, <2>2, ShortStemsStay DEF Unsure
  <1>4. req'[r] = [step |-> "write", paths |-> req[r].paths \cup {x},
                   album |-> req[r].album, staged |-> req[r].staged, path |-> x]
    BY <1>1 DEF Set, TypeOK
  <1>5. StagedFits(r) /\ \A y \in req[r].paths \ Unsure : Exclusive(r, y)
    BY <1>2 DEF Settled, Holds
  <1>6. x \notin Unsure' => \A p \in Rows(req[r].staged) : req[r].staged[p].path # x
    <2>1. ASSUME x \notin Unsure', NEW p \in Rows(req[r].staged),
                 req[r].staged[p].path = x
          PROVE  FALSE
      <3>1. req[r].staged[p].path[2] = <<name, n>>
        BY <1>3, <2>1
      <3>2. req[r].staged[p].path[2] \in UsedStems(req[r].album, req[r].staged)
        BY <2>1 DEF UsedStems
      <3> QED
        BY <1>1, <3>1, <3>2
    <2> QED
      BY <2>1
  <1>12. Unsure \subseteq Unsure'
    BY <1>1 DEF Unsure
  <1>7. StagedFits(r)'
    <2>1. /\ req'[r].staged = req[r].staged /\ req'[r].paths = req[r].paths \cup {x}
          /\ req'[r].album = req[r].album /\ req'[r].path = x /\ req'[r].step = "write"
      BY <1>4
    <2>2. ASSUME NEW p \in Rows(req[r].staged)
          PROVE  LET row == req[r].staged[p]
                 IN  /\ row.path \in req'[r].paths
                     /\ row.path[1] = SlugOf[row.album]
                     /\ row.path \notin Unsure' => disk'[row.path] = p
      BY <1>2, <1>5, <1>12, <2>1 DEF StagedFits
    <2>3. Rows(req'[r].staged) = Rows(req[r].staged)
      BY <2>1 DEF Rows
    <2>4. /\ x \in req'[r].paths /\ x[1] = SlugOf[req'[r].album]
          /\ x \notin Unsure' => \A p \in Rows(req'[r].staged) :
                                   req'[r].staged[p].path # x
      BY <1>3, <1>6, <2>1, <2>3
    <2> QED
      BY <2>1, <2>2, <2>3, <2>4 DEF StagedFits
  <1>8. ASSUME x \notin Unsure' PROVE OthersAt(r, x) = {} /\ RowsAt(x) = {}
    <2>1. ~RacedPick(r, x)
      BY <1>1, <1>8 DEF Unsure
    <2>2. ASSUME NEW p \in RowsAt(x) PROVE FALSE
      <3>1. /\ photos[p].album \in live /\ photos[p].path = x
            /\ x[1] = SlugOf[photos[p].album] /\ p \in Rows(photos)
            /\ live \subseteq Albums
        BY <2>2 DEF RowsAt, Settled, RowsFit, ForeignKey, RowsHaveAlbums, TypeOK
      <3>2. photos[p].album = req[r].album
        BY <1>3, <1>8, <2>1, <3>1 DEF RacedPick, Settled, RowsFit
      <3>3. photos[p].path[2] \in UsedStems(req[r].album, req[r].staged)
        BY <3>1, <3>2 DEF UsedStems
      <3> QED
        BY <1>1, <1>3, <1>8, <3>1, <3>3
    <2> QED
      BY <2>1, <2>2 DEF RacedPick, OthersAt
  <1>9. ASSUME NEW y \in req'[r].paths \ Unsure' PROVE Exclusive(r, y)'
    <2>1. OthersAt(r, y) = {} /\ RowsAt(y) = {}
      <3>1. CASE y = x
        BY <1>8, <1>9, <3>1
      <3>2. CASE y # x
        BY <1>1, <1>2, <1>4, <1>5, <1>9, <1>12, <3>2 DEF Exclusive
      <3> QED
        BY <3>1, <3>2
    <2>2. OthersAt(r, y)' = {}
      BY <1>1, <2>1 DEF OthersAt, Set, TypeOK
    <2>3. RowsAt(y)' = {}
      BY <1>2, <2>1 DEF RowsAt, Rows
    <2> QED
      BY <1>4, <2>2, <2>3 DEF Exclusive
  <1>10. Holds(r)'
    BY <1>7, <1>9 DEF Holds
  <1>11. ASSUME NEW q \in Requests \ {r}, NEW y \in (req[r].paths \cup {x}) \ Unsure',
                y \in req[q].paths
         PROVE  y \in req[r].paths
    BY <1>8, <1>11 DEF OthersAt
  <1> QED
    BY <1>1, <1>2, <1>10, <1>11, <1>12, QuietStep

\* Writing the files of a new photo overwrites none that a row counts on.
LEMMA WriteKeepsSettled ==
    ASSUME TypeOK, Settled, NEW r \in Requests, WriteFiles(r)
    PROVE  Settled'
PROOF
  <1>1. PICK p, value :
          /\ p \in Photos
          /\ disk' = [disk EXCEPT ![req[r].path] = p]
          /\ value = [step |-> "insert", paths |-> req[r].paths,
                      album |-> req[r].album, staged |-> req[r].staged,
                      path |-> req[r].path, photo |-> p]
          /\ Set(r, value)
    BY DEF WriteFiles
  <1>2. /\ req[r].step = "write" /\ req[r].step \in Uploading
        /\ UNCHANGED <<live, photos, Unsure>>
    BY DEF WriteFiles, Uploading, Unsure
  <1>3. PICK x : x = req[r].path
    OBVIOUS
  <1>4. StagedFits(r) /\ x \in req[r].paths /\ x \in Paths
    BY <1>2, <1>3, HeldTypes DEF Settled, Holds, StagedFits
  <1>5. x \notin Unsure => OthersAt(r, x) = {} /\ RowsAt(x) = {}
    BY <1>2, <1>4 DEF Settled, Holds, Exclusive
  <1>6. /\ disk'[x] = p
        /\ \A y \in Paths : y # x => disk'[y] = disk[y]
    BY <1>1, <1>3, <1>4 DEF TypeOK
  <1>7. req'[r] = value /\ \A q \in Requests \ {r} : req'[q] = req[q]
    BY <1>1 DEF Set, TypeOK
  <1>8. ASSUME NEW q \in Requests, q # r PROVE Holds(q)'
    <2>1. ASSUME req[q].step \in Uploading, NEW y \in req[q].paths \ Unsure
          PROVE  y # x
      BY <1>4, <1>8, <2>1 DEF Settled, Holds, Exclusive, OthersAt
    <2>2. req[q].paths \subseteq Paths
      BY HeldTypes
    <2>3. ASSUME NEW y \in req[q].paths \ Unsure'
          PROVE  /\ \A o \in Photos : photos'[o] = photos[o]
                 /\ req[q].step \in Uploading =>
                      disk'[y] = disk[y] /\ (y \in value.paths => y \in req[r].paths)
      BY <1>1, <1>2, <1>6, <2>1, <2>2, <2>3
    <2> QED
      BY <1>1, <1>2, <1>8, <2>3, Undisturbed DEF Settled
  <1>9. Holds(r)'
    <2>1. StagedFits(r)'
      <3>1. \A o \in Rows(req[r].staged) :
              /\ req[r].staged[o].path \in Paths
              /\ x \notin Unsure => req[r].staged[o].path # x
        BY <1>2, <1>3, <1>4, HeldTypes DEF StagedFits
      <3>2. /\ req'[r].step = "insert" /\ req'[r].photo = p
            /\ req'[r].staged = req[r].staged /\ req'[r].paths = req[r].paths
            /\ req'[r].album = req[r].album /\ req'[r].path = x
        BY <1>1, <1>3, <1>7
      <3>3. Rows(req[r].staged)' = Rows(req[r].staged)
        BY <3>2 DEF Rows
      <3>4. ASSUME NEW o \in Rows(req[r].staged)
            PROVE  LET row == req[r].staged[o]
                   IN  /\ row.path \in req[r].paths
                       /\ row.path[1] = SlugOf[row.album]
                       /\ row.path \notin Unsure => disk'[row.path] = o
        BY <1>4, <1>6, <3>1 DEF StagedFits
      <3>5. x[1] = SlugOf[req[r].album]
        BY <1>2, <1>3, <1>4 DEF StagedFits
      <3> QED
        BY <1>2, <1>4, <1>6, <3>1, <3>2, <3>3, <3>4, <3>5 DEF StagedFits
    <2>2. ASSUME NEW y \in req[r].paths \ Unsure PROVE Exclusive(r, y)'
      <3>1. OthersAt(r, y) = {} /\ RowsAt(y) = {}
        BY <1>2, <2>2 DEF Settled, Holds, Exclusive
      <3>2. OthersAt(r, y)' = {} /\ RowsAt(y)' = {}
        BY <1>2, <1>7, <3>1 DEF OthersAt, RowsAt, Rows
      <3> QED
        BY <1>1, <1>7, <3>2 DEF Exclusive
    <2> QED
      BY <1>1, <1>2, <1>7, <2>1, <2>2 DEF Holds
  <1>10. RowsFit'
    BY <1>2 DEF Settled, RowsFit, Rows
  <1>11. IntactUnlessUnsure'
    <2>1. ASSUME NEW o \in Rows(photos), photos[o].path \notin Unsure
          PROVE  disk'[photos[o].path] = o
      <3>1. photos[o].path \in Paths
        BY DEF TypeOK, Rows, Row
      <3>2. photos[o].path # x
        BY <1>5, <2>1 DEF RowsAt
      <3> QED
        BY <1>6, <2>1, <3>1, <3>2 DEF Settled, IntactUnlessUnsure, Intact
    <2> QED
      BY <1>2, <2>1 DEF IntactUnlessUnsure, Intact, Rows
  <1> QED
    BY <1>8, <1>9, <1>10, <1>11 DEF Settled

\* The rows an upload commits are at paths that nobody else holds.
LEMMA CommitKeepsSettled ==
    ASSUME TypeOK, Settled, NEW r \in Requests, UploadEnd(r)
    PROVE  Settled'
PROOF
  <1>1. /\ req[r].step \in Uploading /\ UNCHANGED <<live, disk, Unsure>>
        /\ \A p \in Photos : photos'[p] = IF req[r].staged[p] # Nothing
                                          THEN req[r].staged[p] ELSE photos[p]
        /\ Set(r, Idle)
    BY DEF UploadEnd, Uploading, Unsure
  <1>2. StagedFits(r)
    BY <1>1 DEF Settled, Holds
  <1>3. ASSUME NEW q \in Requests, q # r PROVE Holds(q)'
    <2>1. ASSUME NEW x \in req[q].paths \ Unsure, NEW p \in Rows(req[r].staged)
          PROVE  req[r].staged[p].path # x
      BY <1>1, <1>2, <1>3, <2>1 DEF Settled, Holds, Exclusive, OthersAt, StagedFits
    <2>2. ASSUME NEW x \in req[q].paths \ Unsure', NEW p \in Photos,
                 photos'[p] # Nothing, photos'[p].path = x
          PROVE  photos'[p] = photos[p]
      BY <1>1, <2>1, <2>2 DEF Rows
    <2>3. Idle.paths = {}
      BY DEF Idle
    <2> QED
      BY <1>1, <1>3, <2>2, <2>3, Undisturbed DEF Settled
  <1>4. Holds(r)'
    <2>1. req'[r] = Idle
      BY <1>1 DEF Set, TypeOK
    <2> QED
      BY <2>1 DEF Holds, Idle, Uploading
  <1>5. ASSUME NEW p \in Photos, photos'[p] # Nothing
        PROVE  /\ photos'[p].path[1] = SlugOf[photos'[p].album]
               /\ photos'[p].path \notin Unsure => disk[photos'[p].path] = p
    <2>1. CASE p \in Rows(req[r].staged)
      BY <1>1, <1>2, <2>1 DEF StagedFits, Rows
    <2>2. CASE p \notin Rows(req[r].staged)
      BY <1>1, <1>5, <2>2 DEF Settled, RowsFit, IntactUnlessUnsure, Intact, Rows
    <2> QED
      BY <2>1, <2>2
  <1>6. RowsFit' /\ IntactUnlessUnsure'
    BY <1>1, <1>5 DEF Settled, RowsFit, IntactUnlessUnsure, Intact, Rows
  <1> QED
    BY <1>3, <1>4, <1>6 DEF Settled

\* Rows that go disturb nobody: what Settled says of the others still holds.
LEMMA FewerRows ==
    ASSUME TypeOK, Settled, NEW r \in Requests, NEW value, Set(r, value),
           UNCHANGED <<disk, Unsure>>, live' \subseteq live,
           \A p \in Photos : photos'[p] \in {photos[p], Nothing},
           value.paths \subseteq req[r].paths, Holds(r)'
    PROVE  Settled'
PROOF
  <1>1. ASSUME NEW q \in Requests, q # r PROVE Holds(q)'
    BY <1>1, Undisturbed DEF Settled
  <1>2. RowsFit' /\ IntactUnlessUnsure'
    BY DEF Settled, RowsFit, IntactUnlessUnsure, Rows, Intact
  <1> QED
    BY <1>1, <1>2 DEF Settled

\* What a delete or prune-media unlinks is no row's and no upload's.
LEMMA UnlinkKeepsSettled ==
    ASSUME TypeOK, Settled, NEW r \in Requests, NEW x \in Paths, Unlink(r, x)
    PROVE  Settled'
PROOF
  <1>1. PICK value :
          value = [req[r] EXCEPT !.paths = req[r].paths \ {x}] /\ Set(r, value)
    BY DEF Unlink
  <1>2. /\ req[r].step \in {"unlink", "sweep"} /\ req[r].step \notin Uploading
        /\ x \in req[r].paths /\ UNCHANGED <<live, photos, Unsure>>
        /\ disk' = [disk EXCEPT ![x] = Nothing]
    BY DEF Unlink, Uploading, Unsure
  <1>3. value.step = req[r].step /\ value.paths = req[r].paths \ {x}
    BY <1>1, <1>2 DEF TypeOK, Request, Idle
  <1>4. req'[r] = value /\ \A q \in Requests \ {r} : req'[q] = req[q]
    BY <1>1 DEF Set, TypeOK
  <1>5. \A y \in Paths : y # x => disk'[y] = disk[y]
    BY <1>2 DEF TypeOK
  <1>6. x \notin Unsure => RowsAt(x) = {}
    BY <1>2 DEF Settled, Holds, Exclusive
  <1>7. ASSUME NEW q \in Requests, q # r PROVE Holds(q)'
    <2>1. ASSUME req[q].step \in Uploading, NEW y \in req[q].paths \ Unsure
          PROVE  y # x
      BY <1>2, <1>7, <2>1 DEF Settled, Holds, Exclusive, OthersAt
    <2>2. req[q].paths \subseteq Paths
      BY HeldTypes
    <2>3. ASSUME NEW y \in req[q].paths \ Unsure'
          PROVE  /\ \A o \in Photos : photos'[o] = photos[o]
                 /\ req[q].step \in Uploading =>
                      disk'[y] = disk[y] /\ (y \in value.paths => y \in req[r].paths)
      BY <1>2, <1>3, <1>5, <2>1, <2>2, <2>3
    <2>4. Holds(q) /\ Unsure \subseteq Unsure' /\ Set(r, value)
      BY <1>1, <1>2 DEF Settled
    <2> QED
      BY <1>7, <2>3, <2>4, Undisturbed
  <1>8. Holds(r)'
    <2>1. ASSUME NEW y \in req[r].paths \ Unsure PROVE RowsAt(y)' = {}
      BY <1>2, <2>1 DEF Settled, Holds, Exclusive, RowsAt, Rows
    <2> QED
      BY <1>2, <1>3, <1>4, <2>1 DEF Holds, Exclusive
  <1>9. RowsFit'
    BY <1>2 DEF Settled, RowsFit, Rows
  <1>10. IntactUnlessUnsure'
    <2>1. ASSUME NEW o \in Rows(photos), photos[o].path \notin Unsure
          PROVE  disk'[photos[o].path] = o
      <3>1. photos[o].path \in Paths
        BY DEF TypeOK, Rows, Row
      <3>2. photos[o].path # x
        BY <1>6, <2>1 DEF RowsAt
      <3> QED
        BY <1>5, <2>1, <3>1, <3>2 DEF Settled, IntactUnlessUnsure, Intact
    <2> QED
      BY <1>2, <2>1 DEF IntactUnlessUnsure, Intact, Rows
  <1> QED
    BY <1>7, <1>8, <1>9, <1>10 DEF Settled

\* The inductive invariant behind IntactUnlessRaced.
THEOREM PathsSettled == Spec => []Settled
PROOF
  <1>1. Init => Settled
    BY DEF Init, Settled, RowsFit, IntactUnlessUnsure, Holds, Rows, Empty, Idle, Uploading
  <1>2. ASSUME TypeOK, TypeOK', ForeignKey, Settled, [Next]_vars PROVE Settled'
    <2>0. raced' = raced => Unsure' = Unsure
      BY DEF Unsure
    <2>1. CASE UNCHANGED vars
      BY <1>2, <2>0, <2>1 DEF vars, Settled, RowsFit, IntactUnlessUnsure, Intact, Holds,
                        StagedFits, Exclusive, OthersAt, RowsAt, Rows
    <2>2. ASSUME NEW a \in Albums, CreateAlbum(a) PROVE Settled'
      <3>1. \A r \in Requests : Holds(r)'
        BY <1>2, <2>0, <2>2 DEF CreateAlbum, Settled, Holds, StagedFits, Exclusive, OthersAt,
                          RowsAt, Rows
      <3>2. RowsFit' /\ IntactUnlessUnsure'
        BY <1>2, <2>0, <2>2 DEF CreateAlbum, Settled, RowsFit, IntactUnlessUnsure, Intact, Rows
      <3> QED
        BY <3>1, <3>2 DEF Settled
    <2>3. ASSUME NEW r \in Requests, NEW a \in Albums, UploadBegin(r, a)
          PROVE  Settled'
      <3>1. PICK value :
              /\ value = [step |-> "batch", paths |-> {}, album |-> a, staged |-> Empty]
              /\ Set(r, value) /\ req'[r] = value
        BY <1>2, <2>3 DEF UploadBegin, Set, TypeOK
      <3>2. Holds(r)'
        BY <3>1 DEF Holds, StagedFits, Rows, Empty
      <3> QED
        BY <1>2, <2>0, <2>3, <3>1, <3>2, QuietStep DEF UploadBegin
    <2>4. ASSUME NEW r \in Requests, NEW name \in Names, PickStem(r, name)
          PROVE  Settled'
      BY <1>2, <2>4, PickKeepsSettled
    <2>5. ASSUME NEW r \in Requests, WriteFiles(r) PROVE Settled'
      BY <1>2, <2>5, WriteKeepsSettled
    <2>6. ASSUME NEW r \in Requests, RejectFile(r) PROVE Settled'
      <3>1. PICK value :
              /\ value = [step |-> "batch", paths |-> req[r].paths,
                          album |-> req[r].album, staged |-> req[r].staged]
              /\ Set(r, value) /\ req'[r] = value
              /\ \A q \in Requests \ {r} : req'[q] = req[q]
        BY <1>2, <2>6 DEF RejectFile, Set, TypeOK
      <3>2. req[r].step \in Uploading /\ UNCHANGED <<live, photos, disk, Unsure>>
        BY <2>6 DEF RejectFile, Uploading, Unsure
      <3>3. StagedFits(r)'
        BY <1>2, <3>1, <3>2 DEF Settled, Holds, StagedFits, Rows
      <3>4. ASSUME NEW y \in req[r].paths \ Unsure PROVE Exclusive(r, y)'
        BY <1>2, <3>1, <3>2, <3>4 DEF Settled, Holds, Exclusive, OthersAt, RowsAt, Rows
      <3>5. Holds(r)'
        BY <3>1, <3>2, <3>3, <3>4 DEF Holds
      <3> QED
        BY <1>2, <3>1, <3>2, <3>5, QuietStep
    <2>7. ASSUME NEW r \in Requests, InsertRow(r) PROVE Settled'
      <3>1. PICK staged, value :
              /\ staged = [req[r].staged EXCEPT ![req[r].photo] =
                             [album |-> req[r].album, path |-> req[r].path]]
              /\ value = [step |-> "batch", paths |-> req[r].paths,
                          album |-> req[r].album, staged |-> staged]
              /\ Set(r, value) /\ req'[r] = value
              /\ \A q \in Requests \ {r} : req'[q] = req[q]
        BY <1>2, <2>7 DEF InsertRow, Set, TypeOK
      <3>2. /\ req[r].step = "insert" /\ req[r].step \in Uploading
            /\ UNCHANGED <<live, photos, disk, Unsure>>
        BY <2>7 DEF InsertRow, Uploading, Unsure
      <3>3. /\ StagedFits(r) /\ req[r].photo \in Photos
            /\ req[r].staged \in [Photos -> Row \cup {Nothing}]
        BY <1>2, <3>2, HeldTypes DEF Settled, Holds
      <3>4. ASSUME NEW p \in Rows(staged)
            PROVE  /\ staged[p].path \in req[r].paths
                   /\ staged[p].path[1] = SlugOf[staged[p].album]
                   /\ staged[p].path \notin Unsure => disk[staged[p].path] = p
        <4>1. CASE p = req[r].photo
          <5>1. staged[p] = [album |-> req[r].album, path |-> req[r].path]
            BY <3>1, <3>3, <4>1
          <5> QED
            BY <3>2, <3>3, <4>1, <5>1 DEF StagedFits
        <4>2. CASE p # req[r].photo
          <5>1. staged[p] = req[r].staged[p] /\ p \in Rows(req[r].staged)
            BY <3>1, <3>3, <3>4, <4>2 DEF Rows
          <5> QED
            BY <3>3, <5>1 DEF StagedFits
        <4> QED
          BY <4>1, <4>2
      <3>5. StagedFits(r)'
        <4>1. /\ req'[r].step = "batch" /\ req'[r].staged = staged
              /\ req'[r].paths = req[r].paths
          BY <3>1
        <4>2. Rows(req[r].staged)' = Rows(staged)
          BY <4>1 DEF Rows
        <4> QED
          BY <3>2, <3>4, <4>1, <4>2 DEF StagedFits
      <3>6. ASSUME NEW y \in req[r].paths \ Unsure PROVE Exclusive(r, y)'
        <4>1. OthersAt(r, y) = {} /\ RowsAt(y) = {}
          BY <1>2, <3>2, <3>6 DEF Settled, Holds, Exclusive
        <4>2. OthersAt(r, y)' = {}
          BY <3>1, <3>2, <4>1 DEF OthersAt
        <4>3. RowsAt(y)' = {}
          BY <3>2, <4>1 DEF RowsAt, Rows
        <4> QED
          BY <3>1, <4>2, <4>3 DEF Exclusive
      <3>7. Holds(r)'
        BY <3>1, <3>2, <3>5, <3>6 DEF Holds
      <3> QED
        BY <1>2, <3>1, <3>2, <3>7, QuietStep
    <2>8. ASSUME NEW r \in Requests, UploadEnd(r) PROVE Settled'
      BY <1>2, <2>8, CommitKeepsSettled
    <2>9. ASSUME NEW r \in Requests, NEW p \in Photos, DeleteRead(r, p)
          PROVE  Settled'
      <3>1. PICK value :
              /\ value = [step |-> "drop", paths |-> {photos[p].path}, photo |-> p]
              /\ Set(r, value) /\ req'[r] = value
        BY <1>2, <2>9 DEF DeleteRead, Set, TypeOK
      <3>2. /\ photos[p] # Nothing /\ p \in RowsAt(photos[p].path)
            /\ UNCHANGED <<live, photos, disk, Unsure>>
        BY <2>9 DEF DeleteRead, RowsAt, Rows, Unsure
      <3>3. photos[p].path \notin Unsure => RowsAt(photos[p].path) \subseteq {p}
        BY <1>2, <3>2 DEF Settled, IntactUnlessUnsure, Intact, RowsAt
      <3>4. Holds(r)'
        BY <3>1, <3>2, <3>3 DEF Holds, Exclusive, RowsAt, Rows, Uploading
      <3>5. ASSUME NEW q \in Requests \ {r}, req[q].step \in Uploading,
                   NEW x \in value.paths \ Unsure', x \in req[q].paths
            PROVE  FALSE
        BY <1>2, <3>1, <3>2, <3>5 DEF Settled, Holds, Exclusive
      <3> QED
        BY <1>2, <3>1, <3>2, <3>4, <3>5, QuietStep
    <2>10. ASSUME NEW r \in Requests, DeleteCommit(r) PROVE Settled'
      <3>1. PICK value : /\ value = [step |-> "unlink", paths |-> req[r].paths]
                         /\ Set(r, value) /\ req'[r] = value
        BY <1>2, <2>10 DEF DeleteCommit, Set, TypeOK
      <3>2. /\ req[r].step = "drop" /\ UNCHANGED <<live, disk, Unsure>>
            /\ photos' = [photos EXCEPT ![req[r].photo] = Nothing]
            /\ req[r].photo \in Photos
        BY <1>2, <2>10, HeldTypes DEF DeleteCommit, Unsure
      <3>3. /\ photos'[req[r].photo] = Nothing
            /\ \A p \in Photos : photos'[p] \in {photos[p], Nothing}
        BY <1>2, <3>2 DEF TypeOK
      <3>4. ASSUME NEW x \in req[r].paths \ Unsure PROVE RowsAt(x)' = {}
        <4>1. RowsAt(x) \subseteq {req[r].photo}
          BY <1>2, <3>2, <3>4 DEF Settled, Holds, Exclusive
        <4> QED
          BY <3>3, <4>1 DEF RowsAt, Rows
      <3>5. Holds(r)'
        BY <3>1, <3>2, <3>4 DEF Holds, Exclusive, Uploading
      <3> QED
        BY <1>2, <3>1, <3>2, <3>3, <3>5, FewerRows
    <2>11. ASSUME NEW r \in Requests, NEW a \in Albums, DeleteAlbumRead(r, a)
           PROVE  Settled'
      <3>1. PICK value :
              /\ value = [step |-> "dropAlbum", album |-> a, paths |->
                   {photos[p].path : p \in {q \in Rows(photos) : photos[q].album = a}}]
              /\ Set(r, value) /\ req'[r] = value
        BY <1>2, <2>11 DEF DeleteAlbumRead, Set, TypeOK
      <3>2. UNCHANGED <<live, photos, disk, Unsure>>
        BY <2>11 DEF DeleteAlbumRead, Unsure
      <3>3. ASSUME NEW x \in value.paths \ Unsure
            PROVE  RowsAt(x) # {} /\ \A p \in RowsAt(x) : photos[p].album = a
        <4>1. PICK p \in Rows(photos) : photos[p].album = a /\ photos[p].path = x
          BY <3>1, <3>3
        <4>2. \A o \in RowsAt(x) : o = p
          BY <1>2, <3>3, <4>1 DEF Settled, IntactUnlessUnsure, Intact, RowsAt
        <4> QED
          BY <4>1, <4>2 DEF RowsAt
      <3>4. Holds(r)'
        BY <3>1, <3>2, <3>3 DEF Holds, Exclusive, RowsAt, Rows, Uploading
      <3>5. ASSUME NEW q \in Requests \ {r}, req[q].step \in Uploading,
                   NEW x \in value.paths \ Unsure', x \in req[q].paths
            PROVE  FALSE
        BY <1>2, <3>2, <3>3, <3>5 DEF Settled, Holds, Exclusive
      <3> QED
        BY <1>2, <3>1, <3>2, <3>4, <3>5, QuietStep
    <2>12. ASSUME NEW r \in Requests, DeleteAlbumCommit(r) PROVE Settled'
      <3>1. PICK value : /\ value = [step |-> "unlink", paths |-> req[r].paths]
                         /\ Set(r, value) /\ req'[r] = value
        BY <1>2, <2>12 DEF DeleteAlbumCommit, Set, TypeOK
      <3>2. /\ req[r].step = "dropAlbum" /\ UNCHANGED <<disk, Unsure>>
            /\ photos' = WithoutAlbum(req[r].album) /\ live' \subseteq live
        BY <2>12 DEF DeleteAlbumCommit, Unsure
      <3>3. /\ \A p \in Photos : photos'[p] \in {photos[p], Nothing}
            /\ \A p \in Photos : photos'[p] # Nothing => photos[p].album # req[r].album
        BY <3>2 DEF WithoutAlbum
      <3>4. ASSUME NEW x \in req[r].paths \ Unsure PROVE RowsAt(x)' = {}
        <4>1. \A p \in RowsAt(x) : photos[p].album = req[r].album
          BY <1>2, <3>2, <3>4 DEF Settled, Holds, Exclusive
        <4> QED
          BY <3>3, <4>1 DEF RowsAt, Rows
      <3>5. Holds(r)'
        BY <3>1, <3>2, <3>4 DEF Holds, Exclusive, Uploading
      <3> QED
        BY <1>2, <3>1, <3>2, <3>3, <3>5, FewerRows
    <2>13. ASSUME NEW r \in Requests, DeleteArtist(r) PROVE Settled'
      <3>1. live' = {} /\ photos' = Empty /\ UNCHANGED <<disk, req, Unsure>>
        BY <2>13 DEF DeleteArtist, Unsure
      <3>2. Rows(photos)' = {} /\ \A x : RowsAt(x)' = {}
        BY <3>1 DEF Rows, RowsAt, Empty
      <3>3. ASSUME NEW q \in Requests PROVE Holds(q)'
        <4>1. req[q].step \in Uploading => StagedFits(q)'
          BY <1>2, <3>1 DEF Settled, Holds, StagedFits, Rows
        <4>2. ASSUME NEW x \in req[q].paths \ Unsure PROVE Exclusive(q, x)'
          BY <1>2, <3>1, <3>2, <4>2 DEF Settled, Holds, Exclusive, OthersAt
        <4> QED
          BY <3>1, <4>1, <4>2 DEF Holds
      <3> QED
        BY <3>1, <3>2, <3>3 DEF Settled, RowsFit, IntactUnlessUnsure
    <2>14. ASSUME NEW r \in Requests, PruneRead(r) PROVE Settled'
      <3>1. PICK value : /\ value = [step |-> "scan", paths |-> Unreferenced]
                         /\ Set(r, value) /\ req'[r] = value
        BY <1>2, <2>14 DEF PruneRead, Set, TypeOK
      <3>2. /\ UNCHANGED <<live, photos, disk>> /\ Unsure \subseteq Unsure'
            /\ \A q \in Requests : req[q].step \in Uploading =>
                 Unreferenced \cap req[q].paths \subseteq Unsure'
        BY <2>14 DEF PruneRead, Unsure
      <3>3. \A x \in Unreferenced : RowsAt(x)' = {}
        BY <3>2 DEF Unreferenced, RowsAt, Rows
      <3>4. Holds(r)'
        BY <3>1, <3>3 DEF Holds, Exclusive, Uploading
      <3> QED
        BY <1>2, <3>1, <3>2, <3>4, QuietStep
    <2>15. ASSUME NEW r \in Requests, PruneScan(r) PROVE Settled'
      <3>1. PICK value : /\ value = [step |-> "sweep", paths |-> OnDisk \cap req[r].paths]
                         /\ Set(r, value) /\ req'[r] = value
        BY <1>2, <2>15 DEF PruneScan, Set, TypeOK
      <3>2. UNCHANGED <<live, photos, disk, Unsure>> /\ req[r].step = "scan"
        BY <2>15 DEF PruneScan, Unsure
      <3>3. \A x \in req[r].paths \ Unsure : RowsAt(x)' = {}
        BY <1>2, <3>2 DEF Settled, Holds, Exclusive, RowsAt, Rows
      <3>4. Holds(r)'
        BY <3>1, <3>2, <3>3 DEF Holds, Exclusive, Uploading
      <3> QED
        BY <1>2, <3>1, <3>2, <3>4, QuietStep
    <2>16. ASSUME NEW r \in Requests, NEW x \in Paths, Unlink(r, x) PROVE Settled'
      BY <1>2, <2>16, UnlinkKeepsSettled
    <2>17. ASSUME NEW r \in Requests, UnlinkEnd(r) \/ Die(r) PROVE Settled'
      <3>1. Set(r, Idle) /\ req'[r] = Idle /\ UNCHANGED <<live, photos, disk, Unsure>>
        BY <1>2, <2>17 DEF UnlinkEnd, Die, Set, TypeOK, Unsure
      <3>2. Holds(r)' /\ Idle.paths = {}
        BY <3>1 DEF Holds, Idle, Uploading
      <3> QED
        BY <1>2, <3>1, <3>2, QuietStep
    <2>18. ASSUME NEW r \in Requests, GetFile(r) \/ \E p \in Photos : GetRead(r, p)
           PROVE  Settled'
      <3>1. PICK value : /\ value.step \in {"open", "sent"} /\ value.paths = {}
                         /\ Set(r, value) /\ req'[r] = value
        BY <1>2, <2>18 DEF GetRead, GetFile, Set, TypeOK
      <3>2. UNCHANGED <<live, photos, disk, Unsure>>
        BY <2>18 DEF GetRead, GetFile, Unsure
      <3>3. Holds(r)'
        BY <3>1 DEF Holds, Uploading
      <3> QED
        BY <1>2, <3>1, <3>2, <3>3, QuietStep
    <2> QED
      BY <1>2, <2>1, <2>2, <2>3, <2>4, <2>5, <2>6, <2>7, <2>8, <2>9, <2>10, <2>11,
         <2>12, <2>13, <2>14, <2>15, <2>16, <2>17, <2>18
         DEF Next, Upload, Delete, PruneMedia, UnlinkFiles, Download
  <1> QED
    BY <1>1, <1>2, TypeCorrect, ForeignKeyKept, PTL DEF Spec

\* A committed photo keeps the bytes uploaded with it, unless two requests were
\* about its path at once or its file name fills safe_stem's 80 characters.
THEOREM PhotosKeepTheirBytes == Spec => []IntactUnlessUnsure
PROOF
  <1>1. Settled => IntactUnlessUnsure
    BY DEF Settled
  <1> QED
    BY <1>1, PathsSettled, PTL

\* Where no name is so long, and only there, it takes two requests.
THEOREM ShortNamesKeepTheirBytes ==
    ASSUME LongNames = {} PROVE Spec => []IntactUnlessRaced
PROOF
  <1>1. IntactUnlessUnsure => IntactUnlessRaced
    BY DEF IntactUnlessUnsure, IntactUnlessRaced, Unsure
  <1> QED
    BY <1>1, PhotosKeepTheirBytes, PTL

\* And then two rows share files only if two requests were about the path at once.
THEOREM ShortNamesAreNotShared ==
    ASSUME LongNames = {} PROVE Spec => []OwnPathUnlessRaced
PROOF
  <1>1. IntactUnlessRaced => OwnPathUnlessRaced
    BY DEF IntactUnlessRaced, Intact, OwnPathUnlessRaced
  <1> QED
    BY <1>1, ShortNamesKeepTheirBytes, PTL
-----------------------------------------------------------------------------
(* A download sends the bytes of the photo asked for.  Between its two      *)
(* reads that photo can be deleted but never come back, for its id was      *)
(* drawn once; so the path read first is still the row's when the file is   *)
(* opened, and PathsSettled says whose bytes are there.                     *)

\* The ids of photos an upload has drawn and not committed.
Upcoming(q) ==
    (IF req[q].step = "insert" THEN {req[q].photo} ELSE {})
    \cup (IF req[q].step \in Uploading THEN Rows(req[q].staged) ELSE {})

\* An id is one row's or one upload's.
DrawnOnce ==
    /\ Rows(photos) \subseteq taken
    /\ \A q \in Requests : Upcoming(q) \subseteq taken \ Rows(photos)
    /\ \A q, o \in Requests : q # o => Upcoming(q) \cap Upcoming(o) = {}

\* What a download knows of the photo it was asked for.
Knows(q) ==
    LET d == req[q]
    IN  d.step \in {"open", "sent"} =>
          /\ d.photo \in taken /\ \A o \in Requests : d.photo \notin Upcoming(o)
          /\ photos[d.photo] # Nothing =>
               /\ photos[d.photo].path = d.path
               /\ (d.step = "sent" /\ d.path \notin Unsure) => d.bytes = d.photo

Asking == DrawnOnce /\ \A q \in Requests : Knows(q)

\* A step that adds no row, and whose uploads hold no id but their own and new
\* ones, keeps the invariant if the request that takes it does.
LEMMA AskingStep ==
    ASSUME TypeOK, TypeOK', Asking, NEW r \in Requests, NEW value, Set(r, value),
           taken \subseteq taken', Unsure \subseteq Unsure',
           \A p \in Photos : photos'[p] \in {photos[p], Nothing},
           Upcoming(r)' \subseteq Upcoming(r) \cup (taken' \ taken), Knows(r)'
    PROVE  Asking'
PROOF
  <1>1. \A q \in Requests \ {r} : req'[q] = req[q] /\ Upcoming(q)' = Upcoming(q)
    BY DEF Set, TypeOK, Upcoming, Rows
  <1>2. Rows(photos)' \subseteq Rows(photos)
    BY DEF Rows
  <1>3. DrawnOnce'
    <2>1. \A q \in Requests : Upcoming(q) \subseteq taken \ Rows(photos)
      BY DEF Asking, DrawnOnce
    <2>2. Rows(photos)' \subseteq taken'
      BY <1>2 DEF Asking, DrawnOnce
    <2>3. ASSUME NEW q \in Requests PROVE Upcoming(q)' \subseteq taken' \ Rows(photos)'
      <3>1. Upcoming(q)' \subseteq Upcoming(q) \cup (taken' \ taken)
        BY <1>1
      <3>2. Rows(photos) \subseteq taken
        BY DEF Asking, DrawnOnce
      <3> QED
        BY <1>2, <2>1, <3>1, <3>2
    <2>4. ASSUME NEW q \in Requests, NEW o \in Requests, q # o
          PROVE  Upcoming(q)' \cap Upcoming(o)' = {}
      <3>1. Upcoming(q) \cap Upcoming(o) = {}
        BY <2>4 DEF Asking, DrawnOnce
      <3>2. Upcoming(q) \subseteq taken /\ Upcoming(o) \subseteq taken
        BY <2>1
      <3>3. CASE q = r
        <4>1. Upcoming(o)' = Upcoming(o)
          BY <1>1, <2>4, <3>3
        <4> QED
          BY <3>1, <3>2, <3>3, <4>1
      <3>4. CASE q # r
        <4>1. /\ Upcoming(q)' = Upcoming(q)
              /\ Upcoming(o)' \subseteq Upcoming(o) \cup (taken' \ taken)
          BY <1>1, <3>4
        <4> QED
          BY <3>1, <3>2, <4>1
      <3> QED
        BY <3>3, <3>4
    <2> QED
      BY <2>2, <2>3, <2>4 DEF DrawnOnce
  <1>4. ASSUME NEW q \in Requests \ {r} PROVE Knows(q)'
    <2>1. SUFFICES ASSUME req[q].step \in {"open", "sent"} PROVE Knows(q)'
      BY <1>1 DEF Knows
    <2>2. /\ req'[q] = req[q] /\ req[q].photo \in Photos /\ req[q].photo \in taken
          /\ \A o \in Requests : req[q].photo \notin Upcoming(o)
      BY <1>1, <2>1, HeldTypes DEF Asking, Knows
    <2>3. \A o \in Requests : req[q].photo \notin Upcoming(o)'
      BY <1>1, <2>2
    <2>4. photos'[req[q].photo] # Nothing => photos'[req[q].photo] = photos[req[q].photo]
      BY <2>2
    <2>5. Knows(q)
      BY DEF Asking
    <2> QED
      BY <2>1, <2>2, <2>3, <2>4, <2>5 DEF Knows
  <1> QED
    BY <1>3, <1>4 DEF Asking

\* The ids of the rows an upload commits are no other upload's, and nobody has
\* asked for them.
LEMMA AskingCommit ==
    ASSUME TypeOK, Asking, NEW r \in Requests, UploadEnd(r)
    PROVE  Asking'
PROOF
  <1>1. /\ req[r].step \in Uploading /\ UNCHANGED <<taken, Unsure>>
        /\ \A p \in Photos : photos'[p] = IF req[r].staged[p] # Nothing
                                          THEN req[r].staged[p] ELSE photos[p]
        /\ req'[r] = Idle /\ \A q \in Requests \ {r} : req'[q] = req[q]
    BY DEF UploadEnd, Uploading, Unsure, Set, TypeOK
  <1>2. /\ Rows(req[r].staged) \subseteq Upcoming(r) /\ Upcoming(r)' = {}
        /\ \A q \in Requests \ {r} : Upcoming(q)' = Upcoming(q)
    BY <1>1 DEF Upcoming, Idle, Uploading, Rows
  <1>3. Rows(photos)' \subseteq Rows(photos) \cup Upcoming(r)
    BY <1>1, <1>2 DEF Rows
  <1>4. DrawnOnce'
    <2>1. Rows(photos)' \subseteq taken'
      BY <1>1, <1>3 DEF Asking, DrawnOnce
    <2>2. ASSUME NEW q \in Requests PROVE Upcoming(q)' \subseteq taken' \ Rows(photos)'
      <3>1. CASE q = r
        BY <1>2, <3>1
      <3>2. CASE q # r
        BY <1>1, <1>2, <1>3, <3>2 DEF Asking, DrawnOnce
      <3> QED
        BY <3>1, <3>2
    <2>3. ASSUME NEW q \in Requests, NEW o \in Requests, q # o
          PROVE  Upcoming(q)' \cap Upcoming(o)' = {}
      BY <1>2, <2>3 DEF Asking, DrawnOnce
    <2> QED
      BY <2>1, <2>2, <2>3 DEF DrawnOnce
  <1>5. ASSUME NEW q \in Requests PROVE Knows(q)'
    <2>1. CASE q = r
      BY <1>1, <2>1 DEF Knows, Idle
    <2>2. CASE q # r
      <3>1. SUFFICES ASSUME req[q].step \in {"open", "sent"} PROVE Knows(q)'
        BY <1>1, <2>2 DEF Knows
      <3>2. Knows(q) /\ req'[q] = req[q] /\ req[q].photo \in Photos
        BY <1>1, <2>2, <3>1, HeldTypes DEF Asking
      <3>3. photos'[req[q].photo] = photos[req[q].photo]
        BY <1>1, <1>2, <3>1, <3>2 DEF Knows, Rows
      <3>4. \A o \in Requests : Upcoming(o)' \subseteq Upcoming(o)
        BY <1>2
      <3> QED
        BY <1>1, <3>1, <3>2, <3>3, <3>4 DEF Knows
    <2> QED
      BY <2>1, <2>2
  <1> QED
    BY <1>4, <1>5 DEF Asking

\* Reading the row of a photo, and opening its file where the row put it.
LEMMA AskingDownload ==
    ASSUME TypeOK, TypeOK', Asking, IntactUnlessUnsure, NEW r \in Requests,
           GetFile(r) \/ \E p \in Photos : GetRead(r, p)
    PROVE  Asking'
PROOF
  <1>1. UNCHANGED <<photos, taken, disk, Unsure>>
    BY DEF GetFile, GetRead, Unsure
  <1>2. PICK value : Set(r, value) /\ value.step \in {"open", "sent"}
    <2>1. ASSUME GetFile(r)
          PROVE  \E value : Set(r, value) /\ value.step \in {"open", "sent"}
      BY <2>1 DEF GetFile
    <2>2. ASSUME NEW p \in Photos, GetRead(r, p)
          PROVE  \E value : Set(r, value) /\ value.step \in {"open", "sent"}
      BY <2>2 DEF GetRead
    <2> QED
      BY <2>1, <2>2
  <1>3. req'[r] = value /\ \A q \in Requests \ {r} : req'[q] = req[q]
    BY <1>2 DEF Set, TypeOK
  <1>4. Upcoming(r)' = {} /\ \A o \in Requests : Upcoming(o)' \subseteq Upcoming(o)
    BY <1>2, <1>3 DEF Upcoming, Uploading, Rows
  <1>5. Knows(r)'
    <2>1. ASSUME GetFile(r) PROVE Knows(r)'
      <3>1. /\ req[r].step = "open" /\ req'[r].step = "sent"
            /\ req'[r].photo = req[r].photo /\ req'[r].path = req[r].path
            /\ req'[r].bytes = disk[req[r].path]
        BY <2>1 DEF GetFile, Set, TypeOK
      <3>2. Knows(r) /\ req[r].photo \in Photos
        BY <3>1, HeldTypes DEF Asking
      <3>3. (photos[req[r].photo] # Nothing /\ req[r].path \notin Unsure) =>
              disk[req[r].path] = req[r].photo
        BY <3>1, <3>2 DEF Knows, IntactUnlessUnsure, Intact, Rows
      <3> QED
        BY <1>1, <1>4, <3>1, <3>2, <3>3 DEF Knows
    <2>2. ASSUME NEW p \in Photos, GetRead(r, p) PROVE Knows(r)'
      <3>1. /\ req'[r].step = "open" /\ req'[r].photo = p
            /\ req'[r].path = photos[p].path /\ p \in Rows(photos)
        BY <2>2 DEF GetRead, Set, TypeOK, Rows
      <3>2. p \in taken /\ \A o \in Requests : p \notin Upcoming(o)
        BY <3>1 DEF Asking, DrawnOnce
      <3> QED
        BY <1>1, <1>4, <3>1, <3>2 DEF Knows
    <2> QED
      BY <2>1, <2>2
  <1> QED
    BY <1>1, <1>2, <1>4, <1>5, AskingStep

\* Every other step of a request leaves its ids where they were, draws a new one
\* or drops some.
LEMMA AskingRequest ==
    ASSUME TypeOK, TypeOK', Asking, NEW r \in Requests,
           \/ \E a \in Albums : UploadBegin(r, a) \/ DeleteAlbumRead(r, a)
           \/ \E name \in Names : PickStem(r, name)
           \/ RejectFile(r) \/ InsertRow(r) \/ WriteFiles(r)
           \/ \E p \in Photos : DeleteRead(r, p)
           \/ DeleteCommit(r) \/ DeleteAlbumCommit(r)
           \/ PruneRead(r) \/ PruneScan(r)
           \/ \E x \in Paths : Unlink(r, x)
           \/ UnlinkEnd(r) \/ Die(r)
    PROVE  Asking'
PROOF
  <1>1. ASSUME NEW value, Set(r, value), taken' = taken, Unsure \subseteq Unsure',
               \A p \in Photos : photos'[p] \in {photos[p], Nothing},
               value.step \notin Uploading \cup {"open", "sent"}
        PROVE  Asking'
    <2>1. req'[r] = value
      BY <1>1 DEF Set, TypeOK
    <2>2. Upcoming(r)' = {} /\ Knows(r)'
      BY <1>1, <2>1 DEF Upcoming, Uploading, Knows
    <2> QED
      BY <1>1, <2>2, AskingStep
  <1>2. ASSUME NEW value, Set(r, value), taken' = taken, Unsure \subseteq Unsure',
               photos' = photos, value.step \in {"batch", "write"},
               Rows(value.staged) \subseteq Upcoming(r)
        PROVE  Asking'
    <2>1. req'[r] = value
      BY <1>2 DEF Set, TypeOK
    <2>2. Upcoming(r)' \subseteq Upcoming(r) /\ Knows(r)'
      BY <1>2, <2>1 DEF Upcoming, Uploading, Knows, Rows
    <2> QED
      BY <1>2, <2>2, AskingStep
  <1>3. raced \subseteq raced' => Unsure \subseteq Unsure'
    BY DEF Unsure
  <1>4. ASSUME NEW a \in Albums, UploadBegin(r, a) PROVE Asking'
    BY <1>2, <1>3, <1>4 DEF UploadBegin, Rows, Empty
  <1>5. ASSUME NEW name \in Names, PickStem(r, name) PROVE Asking'
    <2>1. PICK value : /\ Set(r, value) /\ value.step = "write"
                       /\ value.staged = req[r].staged
      BY <1>5 DEF PickStem
    <2>2. Rows(value.staged) \subseteq Upcoming(r) /\ raced \subseteq raced'
      BY <1>5, <2>1 DEF PickStem, Upcoming, Uploading
    <2> QED
      BY <1>2, <1>3, <1>5, <2>1, <2>2 DEF PickStem
  <1>6. CASE RejectFile(r)
    <2>1. PICK value : /\ Set(r, value) /\ value.step = "batch"
                       /\ value.staged = req[r].staged
      BY <1>6 DEF RejectFile
    <2>2. Rows(value.staged) \subseteq Upcoming(r)
      BY <1>6, <2>1 DEF RejectFile, Upcoming, Uploading
    <2> QED
      BY <1>2, <1>3, <1>6, <2>1, <2>2 DEF RejectFile
  <1>7. CASE InsertRow(r)
    <2>1. PICK value, row :
            /\ row = [album |-> req[r].album, path |-> req[r].path]
            /\ value = [step |-> "batch", paths |-> req[r].paths, album |-> req[r].album,
                        staged |-> [req[r].staged EXCEPT ![req[r].photo] = row]]
            /\ Set(r, value)
      BY <1>7 DEF InsertRow
    <2>2. req[r].step = "insert" /\ req[r].staged \in [Photos -> Row \cup {Nothing}]
      BY <1>7, HeldTypes DEF InsertRow, Uploading
    <2>3. Rows(value.staged) \subseteq Rows(req[r].staged) \cup {req[r].photo}
      BY <2>1, <2>2 DEF Rows
    <2>4. Rows(value.staged) \subseteq Upcoming(r)
      BY <2>2, <2>3 DEF Upcoming, Uploading
    <2> QED
      BY <1>2, <1>3, <1>7, <2>1, <2>4 DEF InsertRow
  <1>8. CASE WriteFiles(r)
    <2>1. PICK p, value :
            /\ p \notin taken /\ taken' = taken \cup {p}
            /\ Set(r, value) /\ value.step = "insert" /\ value.photo = p
            /\ value.staged = req[r].staged
      BY <1>8 DEF WriteFiles
    <2>2. /\ req[r].step = "write" /\ UNCHANGED <<photos, Unsure>>
          /\ req'[r] = value
      BY <1>8, <2>1 DEF WriteFiles, Unsure, Set, TypeOK
    <2>3. Upcoming(r)' \subseteq Upcoming(r) \cup {p} /\ Knows(r)'
      BY <2>1, <2>2 DEF Upcoming, Uploading, Knows, Rows
    <2> QED
      BY <2>1, <2>2, <2>3, AskingStep
  <1>9. CASE \/ \E p \in Photos : DeleteRead(r, p)
             \/ \E a \in Albums : DeleteAlbumRead(r, a)
             \/ PruneRead(r) \/ PruneScan(r)
    <2> DEFINE Reads == \E value :
                 /\ Set(r, value)
                 /\ value.step \in {"drop", "dropAlbum", "scan", "sweep"}
    <2>1. ASSUME NEW p \in Photos, DeleteRead(r, p) PROVE Reads
      BY <2>1 DEF DeleteRead
    <2>2. ASSUME NEW a \in Albums, DeleteAlbumRead(r, a) PROVE Reads
      BY <2>2 DEF DeleteAlbumRead
    <2>3. ASSUME PruneRead(r) PROVE Reads
      BY <2>3 DEF PruneRead
    <2>4. ASSUME PruneScan(r) PROVE Reads
      BY <2>4 DEF PruneScan
    <2>5. PICK value : /\ Set(r, value)
                       /\ value.step \in {"drop", "dropAlbum", "scan", "sweep"}
      BY <1>9, <2>1, <2>2, <2>3, <2>4
    <2>6. UNCHANGED <<photos, taken>> /\ raced \subseteq raced'
      BY <1>9 DEF DeleteRead, DeleteAlbumRead, PruneRead, PruneScan
    <2> QED
      BY <1>1, <1>3, <2>5, <2>6 DEF Uploading
  <1>10. CASE DeleteCommit(r) \/ DeleteAlbumCommit(r)
    <2>1. PICK value : Set(r, value) /\ value.step = "unlink"
      BY <1>10 DEF DeleteCommit, DeleteAlbumCommit
    <2>2. UNCHANGED <<taken, raced>>
      BY <1>10 DEF DeleteCommit, DeleteAlbumCommit
    <2>3. \A p \in Photos : photos'[p] \in {photos[p], Nothing}
      BY <1>10 DEF DeleteCommit, DeleteAlbumCommit, WithoutAlbum, TypeOK
    <2> QED
      BY <1>1, <1>3, <2>1, <2>2, <2>3 DEF Uploading
  <1>11. CASE \E x \in Paths : Unlink(r, x)
    <2>1. PICK x \in Paths : Unlink(r, x)
      BY <1>11
    <2>2. PICK value : value = [req[r] EXCEPT !.paths = req[r].paths \ {x}] /\ Set(r, value)
      BY <2>1 DEF Unlink
    <2>3. value.step \in {"unlink", "sweep"}
      BY <2>1, <2>2 DEF Unlink, TypeOK, Request, Idle
    <2>4. UNCHANGED <<photos, taken, raced>>
      BY <2>1 DEF Unlink
    <2> QED
      BY <1>1, <1>3, <2>2, <2>3, <2>4 DEF Uploading
  <1>12. CASE UnlinkEnd(r) \/ Die(r)
    <2>1. Set(r, Idle) /\ UNCHANGED <<photos, taken, raced>>
      BY <1>12 DEF UnlinkEnd, Die
    <2> QED
      BY <1>1, <1>3, <2>1 DEF Idle, Uploading
  <1> QED
    BY <1>4, <1>5, <1>6, <1>7, <1>8, <1>9, <1>10, <1>11, <1>12

\* Steps of no request: an album is created, an artist deleted, or nothing moves.
LEMMA AskingElsewhere ==
    ASSUME TypeOK, Asking, UNCHANGED <<taken, req, Unsure>>,
           \A p \in Photos : photos'[p] \in {photos[p], Nothing}
    PROVE  Asking'
PROOF
  <1>1. \A q \in Requests : Upcoming(q)' = Upcoming(q)
    BY DEF Upcoming, Rows
  <1>2. Rows(photos)' \subseteq Rows(photos)
    BY DEF Rows
  <1>3. DrawnOnce'
    BY <1>1, <1>2 DEF Asking, DrawnOnce
  <1>4. ASSUME NEW q \in Requests PROVE Knows(q)'
    <2>1. Knows(q) /\ (req[q].step \in {"open", "sent"} => req[q].photo \in Photos)
      BY HeldTypes DEF Asking
    <2> QED
      BY <1>1, <2>1 DEF Knows
  <1> QED
    BY <1>3, <1>4 DEF Asking

\* The inductive invariant behind BytesAsked; it leans on PathsSettled.
THEOREM DownloadsKeepAsking == Spec => []Asking
PROOF
  <1>1. Init => Asking
    BY DEF Init, Asking, DrawnOnce, Knows, Upcoming, Rows, Empty, Idle, Uploading
  <1>2. ASSUME TypeOK, TypeOK', Asking, Settled, [Next]_vars PROVE Asking'
    <2>1. raced' = raced => Unsure' = Unsure
      BY DEF Unsure
    <2>2. CASE UNCHANGED vars
      BY <1>2, <2>1, <2>2, AskingElsewhere DEF vars
    <2>3. ASSUME NEW a \in Albums, CreateAlbum(a) PROVE Asking'
      BY <1>2, <2>1, <2>3, AskingElsewhere DEF CreateAlbum
    <2>4. ASSUME NEW r \in Requests, DeleteArtist(r) PROVE Asking'
      BY <1>2, <2>1, <2>4, AskingElsewhere DEF DeleteArtist, Empty
    <2>5. ASSUME NEW r \in Requests, UploadEnd(r) PROVE Asking'
      BY <1>2, <2>5, AskingCommit
    <2>6. ASSUME NEW r \in Requests, Download(r) PROVE Asking'
      BY <1>2, <2>6, AskingDownload DEF Download, Settled
    <2>7. ASSUME NEW r \in Requests,
                 \/ Upload(r) /\ ~UploadEnd(r)
                 \/ Delete(r) \/ PruneMedia(r) \/ UnlinkFiles(r) \/ Die(r)
          PROVE  Asking'
      BY <1>2, <2>7, AskingRequest DEF Upload, Delete, PruneMedia, UnlinkFiles
    <2> QED
      BY <1>2, <2>2, <2>3, <2>4, <2>5, <2>6, <2>7 DEF Next
  <1> QED
    BY <1>1, <1>2, TypeCorrect, PathsSettled, PTL DEF Spec

\* What a download sends is what was asked for, unless the photo was deleted or
\* its path is one that another photo's bytes can be at.
THEOREM DownloadsAreAskedFor == Spec => []BytesAsked
PROOF
  <1>1. Asking => BytesAsked
    BY DEF Asking, Knows, BytesAsked
  <1> QED
    BY <1>1, DownloadsKeepAsking, PTL
=============================================================================
