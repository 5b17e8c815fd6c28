--------------------------- MODULE Gallery_proofs ---------------------------
(***************************************************************************)
(* Proofs about Gallery: type correctness, that downloads are given to     *)
(* those entitled to them, and that edits and grants take effect, for any  *)
(* number of customers, albums, photos and requests.                       *)
(***************************************************************************)
EXTENDS Gallery, TLAPS

-----------------------------------------------------------------------------
(* Tiers and levels.                                                       *)

\* A level is a tier, and the ladder has three rungs.
LEMMA Ladder ==
  /\ Levels \subseteq Tiers
  /\ \A t \in Tiers : Rank(t) \in 0 .. 2
  /\ \A t \in Tiers : Rank(t) = 0 <=> t = "free"
  /\ \A t \in Tiers : Rank(t) = 2 <=> t = "premium"
BY DEF Tiers, Levels, Rank

\* Of several tiers, Lowest is one of them and at or below each.
LEMMA LowestIsLowest ==
  ASSUME NEW T \in SUBSET Tiers, NEW t \in T
  PROVE  Lowest(T) \in T /\ Rank(Lowest(T)) <= Rank(t)
<1>1. \E l \in T : \A o \in T : Rank(l) <= Rank(o)
  <2>1. CASE "free" \in T
    BY <2>1 DEF Tiers, Rank
  <2>2. CASE "free" \notin T /\ "paid" \in T
    BY <2>2 DEF Tiers, Rank
  <2>3. CASE "free" \notin T /\ "paid" \notin T
    BY <2>3 DEF Tiers, Rank
  <2>4. QED
    BY <2>1, <2>2, <2>3
<1>2. QED
  BY <1>1 DEF Lowest

\* Of several levels, Highest is one of them and at or above each.
LEMMA HighestIsHighest ==
  ASSUME NEW L \in SUBSET Levels, NEW l \in L
  PROVE  Highest(L) \in L /\ Rank(Highest(L)) >= Rank(l)
<1>1. \E h \in L : \A o \in L : Rank(h) >= Rank(o)
  <2>1. CASE "premium" \in L
    BY <2>1 DEF Levels, Rank
  <2>2. CASE "premium" \notin L
    BY <2>2 DEF Levels, Rank
  <2>3. QED
    BY <2>1, <2>2
<1>2. QED
  BY <1>1 DEF Highest

-----------------------------------------------------------------------------
(* What a fetch notices.                                                   *)

Callers == Customers \cup {Visitor}

\* The tables a fetch looks at are well typed.
TablesOK ==
    /\ role \in [Customers -> Roles \cup {Nothing}]
    /\ subs \in [Customers -> Levels \cup {Nothing}]
    /\ albums \in [Albums -> AlbumRow \cup {Nothing}]

\* `seen' has noticed all that now speaks for caller u and album a.
Covers(seen, u, a) ==
    /\ albums[a] # Nothing =>
         /\ albums[a].published => seen.shown
         /\ seen.tier # Nothing /\ Rank(seen.tier) <= Rank(albums[a].access)
    /\ u # Visitor =>
         /\ subs[u] # Nothing =>
              seen.level # Nothing /\ Rank(seen.level) >= Rank(subs[u])
         /\ role[u] = "staff" => seen.staff

\* `new' speaks for the caller at least as much as `old'.
NoLess(old, new) ==
    /\ old.shown => new.shown
    /\ old.staff => new.staff
    /\ old.tier # Nothing =>
         new.tier # Nothing /\ Rank(new.tier) <= Rank(old.tier)

\* A look adds what the new state says and forgets nothing.
LEMMA LookNotices ==
  ASSUME TablesOK', NEW seen \in Seen, NEW u \in Callers, NEW a \in Albums
  PROVE  /\ Look(seen, u, a) \in Seen
         /\ NoLess(seen, Look(seen, u, a))
         /\ albums'[a] # Nothing =>
              /\ albums'[a].published => Look(seen, u, a).shown
              /\ Look(seen, u, a).tier # Nothing
              /\ Rank(Look(seen, u, a).tier) <= Rank(albums'[a].access)
         /\ u # Visitor =>
              /\ subs'[u] # Nothing =>
                   /\ Look(seen, u, a).level # Nothing
                   /\ Rank(Look(seen, u, a).level) >= Rank(subs'[u])
              /\ role'[u] = "staff" => Look(seen, u, a).staff
<1> DEFINE tiers == ({seen.tier} \cup
              (IF albums'[a] = Nothing THEN {} ELSE {albums'[a].access})) \ {Nothing}
           levels == {seen.level, subs'[u]} \ {Nothing}
           new == Look(seen, u, a)
<1>0. /\ Nothing \notin Tiers /\ Nothing \notin Levels
      /\ seen.tier \in Tiers \cup {Nothing}
      /\ seen.level \in Levels \cup {Nothing}
      /\ seen.shown \in BOOLEAN /\ seen.staff \in BOOLEAN
  BY NothingApart, Ladder DEF Seen
<1>1. albums'[a] # Nothing =>
        albums'[a].access \in Tiers /\ albums'[a].published \in BOOLEAN
  BY DEF TablesOK, AlbumRow
<1>2. u # Visitor => subs'[u] \in Levels \cup {Nothing}
  BY DEF TablesOK, Callers
<1>3. tiers \in SUBSET Tiers
  BY <1>0, <1>1
<1>4. u # Visitor => levels \in SUBSET Levels
  BY <1>0, <1>2
<1>5. /\ new.shown = (seen.shown \/ (albums'[a] # Nothing /\ albums'[a].published))
      /\ new.tier = Lowest(tiers)
      /\ new.level = IF u = Visitor THEN Nothing ELSE Highest(levels)
      /\ new.staff = (seen.staff \/ (u # Visitor /\ role'[u] = "staff"))
      /\ new = [shown |-> new.shown, tier |-> new.tier, level |-> new.level,
                staff |-> new.staff]
  BY DEF Look
<1> HIDE DEF new
<1>6. /\ new.tier \in Tiers \cup {Nothing}
      /\ \A t \in tiers : new.tier \in tiers /\ Rank(new.tier) <= Rank(t)
  <2>1. CASE tiers = {}
    BY <1>5, <2>1 DEF Lowest
  <2>2. CASE tiers # {}
    <3> HIDE DEF tiers
    <3>1. QED
      BY <1>3, <1>5, <2>2, LowestIsLowest
  <2>3. QED
    BY <2>1, <2>2
<1>7. u # Visitor =>
        /\ new.level \in Levels \cup {Nothing}
        /\ \A l \in levels : new.level \in levels /\ Rank(new.level) >= Rank(l)
  <2>1. CASE levels = {}
    BY <1>5, <2>1 DEF Highest
  <2>2. CASE levels # {}
    <3> HIDE DEF levels
    <3>1. QED
      BY <1>4, <1>5, <2>2, HighestIsHighest
  <2>3. QED
    BY <2>1, <2>2
<1>8. new \in Seen
  BY <1>0, <1>1, <1>5, <1>6, <1>7 DEF Seen
<1>9. NoLess(seen, new)
  BY <1>0, <1>5, <1>6, <1>7 DEF NoLess
<1>10. /\ albums'[a] # Nothing =>
            /\ albums'[a].published => new.shown
            /\ new.tier # Nothing /\ Rank(new.tier) <= Rank(albums'[a].access)
       /\ u # Visitor =>
            /\ subs'[u] # Nothing =>
                 new.level # Nothing /\ Rank(new.level) >= Rank(subs'[u])
            /\ role'[u] = "staff" => new.staff
  BY <1>0, <1>1, <1>5, <1>6, <1>7
<1>11. QED
  BY <1>8, <1>9, <1>10 DEF new

-----------------------------------------------------------------------------
(* Type correctness.                                                       *)

\* The requests a step can overtake.
Overtakable == {q \in Requests : req[q].step \in {"patch", "grant"}}

\* A fetch that is still deciding has a caller, an album and what it has seen.
LEMMA DecidingTypes ==
  ASSUME NEW q \in Request, q.step \in Deciding
  PROVE  /\ q \in Fetch
         /\ q.user \in Callers /\ q.album \in Albums /\ q.seen \in Seen
         /\ q.role \in Roles \cup {Nothing} /\ q.kind \in Kinds
         /\ q.asked \in Photos \cup {Nothing}
         /\ q.step = "access" => q.tier \in Tiers
BY DEF Request, Idle, Fetch, Deciding, Callers

\* A look at the tables leaves a request what it is but for what it has seen.
LEMMA NoticingTypes ==
  ASSUME TablesOK', NEW q \in Request
  PROVE  /\ Noticing(q) \in Request
         /\ q.step \notin Deciding => Noticing(q) = q
         /\ q.step \in Deciding =>
              /\ Noticing(q).step = q.step
              /\ Noticing(q).seen = Look(q.seen, q.user, q.album)
              /\ Noticing(q).user = q.user /\ Noticing(q).album = q.album
              /\ Noticing(q).role = q.role /\ Noticing(q).kind = q.kind
              /\ Noticing(q).asked = q.asked
              /\ q.step = "access" => Noticing(q).tier = q.tier
<1>1. CASE q.step \notin Deciding
  BY <1>1 DEF Noticing
<1>2. CASE q.step \in Deciding
  <2>1. PICK look \in Seen : look = Look(q.seen, q.user, q.album)
    BY <1>2, DecidingTypes, LookNotices
  <2>2. Noticing(q) = [q EXCEPT !.seen = look]
    BY <1>2, <2>1 DEF Noticing
  <2>3. q \in Fetch
    BY <1>2, DecidingTypes
  <2>4. CASE q.step = "album"
    BY <2>1, <2>2, <2>3, <2>4 DEF Fetch, Deciding, Request
  <2>5. CASE q.step = "access"
    BY <2>1, <2>2, <2>3, <2>5 DEF Fetch, Deciding, Request
  <2>6. QED
    BY <1>2, <2>4, <2>5 DEF Deciding
<1>3. QED
  BY <1>1, <1>2

PatchRequest == [step : {"patch"}, album : Albums, patch : Patch,
                 dirty : BOOLEAN, raced : BOOLEAN]
GrantRequest == [step : {"grant"}, user : Customers, level : Levels,
                 loaded : Levels \cup {Nothing}, raced : BOOLEAN]

\* An edit and a grant in flight have these fields.
LEMMA EditTypes ==
  ASSUME NEW q \in Request
  PROVE  /\ q.step = "patch" => q \in PatchRequest
         /\ q.step = "grant" => q \in GrantRequest
BY DEF Request, Idle, Fetch, PatchRequest, GrantRequest

\* A request that is overtaken is still a request, and says so.
LEMMA RacedTypes ==
  ASSUME NEW q \in Request, q.step \in {"patch", "grant"}
  PROVE  /\ [q EXCEPT !.raced = TRUE] \in Request
         /\ [q EXCEPT !.raced = TRUE].step = q.step
         /\ [q EXCEPT !.raced = TRUE].raced = TRUE
<1>1. CASE q.step = "patch"
  <2>1. q \in PatchRequest
    BY <1>1, EditTypes
  <2>2. [q EXCEPT !.raced = TRUE] \in PatchRequest
    BY <2>1 DEF PatchRequest
  <2>3. QED
    BY <1>1, <2>1, <2>2 DEF Request, PatchRequest
<1>2. CASE q.step = "grant"
  <2>1. q \in GrantRequest
    BY <1>2, EditTypes
  <2>2. [q EXCEPT !.raced = TRUE] \in GrantRequest
    BY <2>1 DEF GrantRequest
  <2>3. QED
    BY <1>2, <2>1, <2>2 DEF Request, GrantRequest
<1>3. QED
  BY <1>1, <1>2

\* What the requests are after a step that sets r to `value' and overtakes
\* `raced'.
LEMMA PutGives ==
  ASSUME TypeOK, TablesOK', NEW r \in Requests, NEW value \in Request,
         NEW raced \in SUBSET Overtakable, Put(r, value, raced)
  PROVE  /\ req' \in [Requests -> Request]
         /\ req'[r] = Noticing(value)
         /\ \A q \in Requests \ {r} :
              \/ q \notin raced /\ req'[q] = Noticing(req[q])
              \/ q \in raced /\ req'[q] = [req[q] EXCEPT !.raced = TRUE]
<1>1. \A q \in Requests : req[q] \in Request
  BY DEF TypeOK
<1>2. /\ Noticing(value) \in Request
      /\ \A q \in Requests : Noticing(req[q]) \in Request
      /\ \A q \in raced : [req[q] EXCEPT !.raced = TRUE] \in Request
  BY <1>1, NoticingTypes, RacedTypes DEF Overtakable
<1>3. QED
  BY <1>2 DEF Put

\* The same for a step without a request.
LEMMA UnattendedGives ==
  ASSUME TypeOK, TablesOK', NEW raced \in SUBSET Overtakable, Unattended(raced)
  PROVE  /\ req' \in [Requests -> Request]
         /\ \A q \in Requests :
              \/ q \notin raced /\ req'[q] = Noticing(req[q])
              \/ q \in raced /\ req'[q] = [req[q] EXCEPT !.raced = TRUE]
<1>1. \A q \in Requests : req[q] \in Request
  BY DEF TypeOK
<1>2. /\ \A q \in Requests : Noticing(req[q]) \in Request
      /\ \A q \in raced : [req[q] EXCEPT !.raced = TRUE] \in Request
  BY <1>1, NoticingTypes, RacedTypes DEF Overtakable
<1>3. QED
  BY <1>2 DEF Unattended

\* What a step that changes no table leaves as it was.
LEMMA SameTables ==
  ASSUME TypeOK, UNCHANGED <<Accounts, subs, Catalogue>>
  PROVE  /\ TablesOK'
         /\ \A f : f \in [Requests -> Request] => (req' = f => TypeOK')
BY DEF TypeOK, TablesOK, Accounts, Catalogue

\* Nobody is overtaken by a step that overtakes Nobody.
LEMMA RacedSets ==
  ASSUME TypeOK
  PROVE  /\ Nobody \in SUBSET Overtakable
         /\ \A a : PatchesOf(a) \in SUBSET Overtakable
         /\ \A u : GrantsTo(u) \in SUBSET Overtakable
BY DEF Nobody, PatchesOf, GrantsTo, Overtakable

\* The steps of a fetch and the read of an edit: they change one request.
LEMMA ServeTypes ==
  ASSUME TypeOK, UNCHANGED <<Accounts, subs, Catalogue>>,
         NEW r \in Requests, NEW value \in Request, Put(r, value, Nobody)
  PROVE  TypeOK'
BY SameTables, RacedSets, PutGives

\* The album's row read, a fetch is still a fetch.
LEMMA ReadTypes ==
  ASSUME TypeOK, NEW r \in Requests, ReadAlbum(r)
  PROVE  WithRow(req[r]) \in Request
<1>1. req[r].step = "album" /\ req[r] \in Request /\ req[r].step \in Deciding
  BY DEF ReadAlbum, Deciding, TypeOK
<1>2. /\ req[r].user \in Callers /\ req[r].album \in Albums
      /\ req[r].seen \in Seen /\ req[r].kind \in Kinds
      /\ req[r].role \in Roles \cup {Nothing}
      /\ req[r].asked \in Photos \cup {Nothing}
  BY <1>1, DecidingTypes
<1>3. albums[req[r].album].access \in Tiers
  BY <1>2 DEF ReadAlbum, TypeOK, AlbumRow
<1>4. QED
  BY <1>2, <1>3 DEF WithRow, Request, Fetch, Callers

\* An edited album is an album.
LEMMA PatchedTypes ==
  ASSUME NEW now \in AlbumRow, NEW q \in PatchRequest
  PROVE  /\ Patched(now, q) \in AlbumRow
         /\ q.dirty => Patched(now, q)[q.patch.column] = q.patch.value
         /\ ~q.dirty => Patched(now, q) = now
         /\ q.patch.column # "published" => Patched(now, q).published = now.published
<1>1. q.patch \in Patch /\ q.dirty \in BOOLEAN
  BY DEF PatchRequest
<1>2. CASE ~q.dirty
  BY <1>2 DEF Patched
<1>3. CASE q.dirty /\ q.patch.column = "access"
  <2>1. q.patch.value \in Tiers
    BY <1>1, <1>3 DEF Patch
  <2>2. Patched(now, q) = [now EXCEPT !["access"] = q.patch.value]
    BY <1>3 DEF Patched
  <2>3. QED
    BY <1>3, <2>1, <2>2 DEF AlbumRow
<1>4. CASE q.dirty /\ q.patch.column = "published"
  <2>1. q.patch.value \in BOOLEAN
    BY <1>1, <1>4 DEF Patch
  <2>2. Patched(now, q) = [now EXCEPT !["published"] = q.patch.value]
    BY <1>4 DEF Patched
  <2>3. QED
    BY <1>4, <2>1, <2>2 DEF AlbumRow
<1>5. q.patch.column \in {"access", "published"}
  BY <1>1 DEF Patch
<1>6. QED
  BY <1>1, <1>2, <1>3, <1>4, <1>5

-----------------------------------------------------------------------------
\* Every reachable state is well typed, and a subscription has both its ends.
THEOREM TypeCorrect == Spec => []TypeOK
<1>1. Init => TypeOK
  BY DEF Init, TypeOK, Request, Roles
<1>2. ASSUME TypeOK, [Next]_vars PROVE TypeOK'
  <2>0. /\ req \in [Requests -> Request]
        /\ Nobody \in SUBSET Overtakable
        /\ \A a : PatchesOf(a) \in SUBSET Overtakable
        /\ \A u : GrantsTo(u) \in SUBSET Overtakable
        /\ Idle \in Request
    BY <1>2, RacedSets DEF TypeOK, Request
  <2>1. ASSUME NEW r \in Requests, BeginFetch(r) PROVE TypeOK'
    <3>1. PICK u \in Callers, a \in Albums, kind \in Kinds,
               p \in Photos \cup {Nothing} :
                 Begin(r, u, kind, a, p)
      BY <2>1 DEF BeginFetch, Callers, Kinds
    <3> DEFINE value == [step |-> "album", kind |-> kind, user |-> u, album |-> a,
               asked |-> p, role |-> IF u = Visitor THEN Nothing ELSE role[u],
               seen |-> Blind]
    <3>2. value \in Request
      BY <1>2, <3>1 DEF TypeOK, Request, Fetch, Callers, Seen, Blind
    <3> HIDE DEF value
    <3>3. UNCHANGED <<Accounts, subs, Catalogue>> /\ Put(r, value, Nobody)
      BY <3>1 DEF Begin, value
    <3>4. QED
      BY <1>2, <3>2, <3>3, ServeTypes
  <2>2. ASSUME NEW r \in Requests, ReadAlbum(r) PROVE TypeOK'
    <3>1. WithRow(req[r]) \in Request
      BY <1>2, <2>2, ReadTypes
    <3>2. UNCHANGED <<Accounts, subs, Catalogue>> /\ Put(r, WithRow(req[r]), Nobody)
      BY <2>2 DEF ReadAlbum
    <3>3. QED
      BY <1>2, <3>1, <3>2, ServeTypes
  <2>3. ASSUME NEW r \in Requests, Decide(r) PROVE TypeOK'
    <3>1. /\ req[r].step = "access" /\ req[r] \in Request
          /\ req[r].step \in Deciding
      BY <2>0, <2>3 DEF Decide, Deciding
    <3>2. PICK may \in BOOLEAN :
            /\ UNCHANGED <<Accounts, subs, Catalogue>>
            /\ Put(r, [step |-> "files", kind |-> req[r].kind, user |-> req[r].user,
                   album |-> req[r].album, asked |-> req[r].asked,
                   seen |-> req[r].seen, may |-> may], Nobody)
      BY <2>3 DEF Decide, MayDownload
    <3> DEFINE value == [step |-> "files", kind |-> req[r].kind, user |-> req[r].user,
                   album |-> req[r].album, asked |-> req[r].asked,
                   seen |-> req[r].seen, may |-> may]
    <3>3. value \in Request
      BY <3>1, DecidingTypes DEF Request, Fetch, Callers
    <3>4. Put(r, value, Nobody)
      BY <3>2
    <3> HIDE DEF value
    <3>5. QED
      BY <1>2, <3>2, <3>3, <3>4, ServeTypes
  <2>4. ASSUME NEW r \in Requests, HandOver(r) PROVE TypeOK'
    <3>1. req[r] \in Request /\ req[r].step = "files"
      BY <2>0, <2>4 DEF HandOver
    <3> DEFINE value == [req[r] EXCEPT !.step = "done"]
    <3>2. value \in Request
      BY <3>1 DEF Request, Idle, Fetch
    <3>3. UNCHANGED <<Accounts, subs, Catalogue>> /\ Put(r, value, Nobody)
      BY <2>4 DEF HandOver
    <3> HIDE DEF value
    <3>4. QED
      BY <1>2, <3>2, <3>3, ServeTypes
  <2>5. ASSUME NEW r \in Requests, End(r) PROVE TypeOK'
    BY <1>2, <2>0, <2>5, ServeTypes DEF End
  <2>6. ASSUME NEW r \in Requests, NEW a \in Albums, NEW sent \in Patch,
               PatchRead(r, a, sent)
        PROVE  TypeOK'
    <3> DEFINE value == [step |-> "patch", album |-> a, patch |-> sent,
               dirty |-> albums[a][sent.column] # sent.value, raced |-> FALSE]
    <3>1. value \in Request
      BY DEF Request
    <3>2. UNCHANGED <<Accounts, subs, Catalogue>> /\ Put(r, value, Nobody)
      BY <2>6 DEF PatchRead
    <3> HIDE DEF value
    <3>3. QED
      BY <1>2, <3>1, <3>2, ServeTypes
  <2>7. ASSUME NEW r \in Requests, PatchWrite(r) PROVE TypeOK'
    <3>1. PICK q \in PatchRequest : q = req[r]
      BY <2>0, <2>7, EditTypes DEF PatchWrite
    <3>2. q.album \in Albums /\ albums[q.album] \in AlbumRow
      BY <1>2, <2>7, <3>1 DEF PatchWrite, PatchRequest, TypeOK
    <3>3. albums' = [albums EXCEPT ![q.album] = Patched(albums[q.album], q)]
      BY <2>7, <3>1 DEF PatchWrite
    <3>4. albums' \in [Albums -> AlbumRow \cup {Nothing}]
      BY <1>2, <3>2, <3>3, PatchedTypes DEF TypeOK
    <3>5. /\ UNCHANGED <<role, ownerLives, subs, made, photos, taken>>
          /\ Put(r, Idle, PatchesOf(req[r].album) \ {r})
      BY <2>7 DEF PatchWrite, Accounts
    <3>6. TablesOK'
      BY <1>2, <3>4, <3>5 DEF TypeOK, TablesOK
    <3>7. PatchesOf(req[r].album) \ {r} \in SUBSET Overtakable
      BY <2>0
    <3>8. req' \in [Requests -> Request]
      BY <1>2, <2>0, <3>5, <3>6, <3>7, PutGives
    <3>9. QED
      BY <1>2, <3>4, <3>5, <3>8 DEF TypeOK
  <2>8. ASSUME NEW a \in Albums, NEW access \in Tiers, NEW published \in BOOLEAN,
               CreateAlbum(a, access, published)
        PROVE  TypeOK'
    <3>1. /\ albums' \in [Albums -> AlbumRow \cup {Nothing}] /\ made' \subseteq Albums
          /\ UNCHANGED <<role, ownerLives, subs, photos, taken>>
          /\ Unattended(Nobody)
      BY <1>2, <2>8 DEF CreateAlbum, TypeOK, Accounts, AlbumRow
    <3>2. TablesOK'
      BY <1>2, <3>1 DEF TypeOK, TablesOK
    <3>3. QED
      BY <1>2, <2>0, <3>1, <3>2, UnattendedGives DEF TypeOK
  <2>9. ASSUME NEW a \in Albums, NEW new \in SUBSET Photos, AddPhotos(a, new)
        PROVE  TypeOK'
    <3>1. /\ photos' \in [Photos -> Albums \cup {Nothing}] /\ taken' \subseteq Photos
          /\ UNCHANGED <<role, ownerLives, subs, albums, made>>
          /\ Unattended(Nobody)
      BY <1>2, <2>9 DEF AddPhotos, TypeOK, Accounts
    <3>2. TablesOK'
      BY <1>2, <3>1 DEF TypeOK, TablesOK
    <3>3. QED
      BY <1>2, <2>0, <3>1, <3>2, UnattendedGives DEF TypeOK
  <2>10. ASSUME NEW p \in Photos, DeletePhoto(p) PROVE TypeOK'
    <3>1. /\ photos' \in [Photos -> Albums \cup {Nothing}]
          /\ UNCHANGED <<role, ownerLives, subs, albums, made, taken>>
          /\ Unattended(Nobody)
      BY <1>2, <2>10 DEF DeletePhoto, Accounts, TypeOK
    <3>2. TablesOK'
      BY <1>2, <3>1 DEF TypeOK, TablesOK
    <3>3. QED
      BY <1>2, <2>0, <3>1, <3>2, UnattendedGives DEF TypeOK
  <2>11. ASSUME NEW a \in Albums, DeleteAlbum(a) PROVE TypeOK'
    <3>1. /\ photos' \in [Photos -> Albums \cup {Nothing}]
          /\ albums' = [albums EXCEPT ![a] = Nothing]
          /\ UNCHANGED <<role, ownerLives, subs, made, taken>>
          /\ Unattended(PatchesOf(a))
      BY <1>2, <2>11 DEF DeleteAlbum, Accounts, TypeOK
    <3>2. TablesOK'
      BY <1>2, <3>1 DEF TypeOK, TablesOK
    <3>3. QED
      BY <1>2, <2>0, <3>1, <3>2, UnattendedGives DEF TypeOK, TablesOK
  <2>12. ASSUME NEW r \in Requests, NEW u \in Customers, NEW level \in Levels,
                GrantRead(r, u, level)
         PROVE  TypeOK'
    <3> DEFINE value == [step |-> "grant", user |-> u, level |-> level,
               loaded |-> subs[u], raced |-> FALSE]
    <3>1. value \in Request
      BY <1>2 DEF Request, TypeOK
    <3>2. UNCHANGED <<Accounts, subs, Catalogue>> /\ Put(r, value, Nobody)
      BY <2>12 DEF GrantRead
    <3> HIDE DEF value
    <3>3. QED
      BY <1>2, <3>1, <3>2, ServeTypes
  <2>13. ASSUME NEW r \in Requests, GrantWrite(r) PROVE TypeOK'
    <3>1. PICK q \in GrantRequest : q = req[r]
      BY <2>0, <2>13, EditTypes DEF GrantWrite
    <3>2. /\ \/ q.loaded = Nothing /\ ownerLives /\ role[q.user] # Nothing
             \/ q.loaded # Nothing /\ (subs[q.user] # Nothing \/ q.level = q.loaded)
          /\ subs' = [subs EXCEPT ![q.user] =
                        IF q.level = q.loaded THEN subs[q.user] ELSE q.level]
          /\ UNCHANGED <<role, ownerLives, albums, made, photos, taken>>
          /\ Put(r, Idle, GrantsTo(q.user) \ {r})
      BY <2>13, <3>1 DEF GrantWrite, Accounts, Catalogue
    <3>3. q.user \in Customers /\ q.level \in Levels
      BY DEF GrantRequest
    <3>4. /\ subs' \in [Customers -> Levels \cup {Nothing}]
          /\ \A u \in Customers : subs'[u] # Nothing => ownerLives /\ role[u] # Nothing
      BY <1>2, <3>2, <3>3 DEF TypeOK
    <3>5. TablesOK'
      BY <1>2, <3>2, <3>4 DEF TypeOK, TablesOK
    <3>6. GrantsTo(q.user) \ {r} \in SUBSET Overtakable
      BY <2>0
    <3>7. req' \in [Requests -> Request]
      BY <1>2, <2>0, <3>2, <3>5, <3>6, PutGives
    <3>8. QED
      BY <1>2, <3>2, <3>4, <3>7 DEF TypeOK
  <2>14. ASSUME NEW u \in Customers, Revoke(u) \/ DeleteCustomer(u) PROVE TypeOK'
    <3>1. /\ subs' = [subs EXCEPT ![u] = Nothing]
          /\ role' \in [Customers -> Roles \cup {Nothing}]
          /\ \A v \in Customers \ {u} : role'[v] = role[v]
          /\ UNCHANGED <<ownerLives, albums, made, photos, taken>>
          /\ Unattended(GrantsTo(u))
      BY <1>2, <2>14 DEF Revoke, DeleteCustomer, TypeOK, Accounts, Catalogue
    <3>2. /\ subs' \in [Customers -> Levels \cup {Nothing}]
          /\ \A v \in Customers : subs'[v] # Nothing => ownerLives /\ role'[v] # Nothing
      BY <1>2, <3>1 DEF TypeOK
    <3>3. TablesOK'
      BY <1>2, <3>1, <3>2 DEF TypeOK, TablesOK
    <3>4. QED
      BY <1>2, <2>0, <3>1, <3>2, <3>3, UnattendedGives DEF TypeOK
  <2>15. ASSUME NEW u \in Customers, NEW new \in Roles, SetRole(u, new)
         PROVE  TypeOK'
    <3>1. /\ role' \in [Customers -> Roles \cup {Nothing}]
          /\ \A v \in Customers : role'[v] = Nothing <=> role[v] = Nothing
          /\ UNCHANGED <<ownerLives, subs, albums, made, photos, taken>>
          /\ Unattended(Nobody)
      BY <1>2, <2>15, NothingApart DEF SetRole, TypeOK, Catalogue
    <3>2. TablesOK'
      BY <1>2, <3>1 DEF TypeOK, TablesOK
    <3>3. QED
      BY <1>2, <2>0, <3>1, <3>2, UnattendedGives DEF TypeOK
  <2>16. CASE DeleteOwner
    <3>1. /\ subs' = [u \in Customers |-> Nothing]
          /\ albums' = [a \in Albums |-> Nothing]
          /\ photos' = [p \in Photos |-> Nothing]
          /\ ownerLives' = FALSE /\ UNCHANGED <<role, made, taken>>
          /\ Unattended(Overtakable)
      BY <2>16 DEF DeleteOwner, Overtakable
    <3>2. TablesOK'
      BY <1>2, <3>1 DEF TypeOK, TablesOK
    <3>3. Overtakable \in SUBSET Overtakable
      OBVIOUS
    <3>4. QED
      BY <1>2, <3>1, <3>2, <3>3, UnattendedGives DEF TypeOK
  <2>17. CASE UNCHANGED vars
    BY <1>2, <2>17 DEF vars, TypeOK
  <2>18. QED
    BY <1>2, <2>1, <2>2, <2>3, <2>4, <2>5, <2>6, <2>7, <2>8, <2>9, <2>10, <2>11,
       <2>12, <2>13, <2>14, <2>15, <2>16, <2>17
       DEF Next, Serve, Manage, Subscribe, People
<1>3. QED
  BY <1>1, <1>2, PTL DEF Spec

-----------------------------------------------------------------------------
(* What a step can do to one request, whoever takes it.                    *)

\* A request looks on, is overtaken, ends, or takes the step itself.
LEMMA StepOfRequest ==
  ASSUME TypeOK, TypeOK', Next, NEW r \in Requests
  PROVE  \/ req'[r] = Noticing(req[r])
         \/ r \in Overtakable /\ req'[r] = [req[r] EXCEPT !.raced = TRUE]
         \/ req'[r] = Idle
         \/ BeginFetch(r) \/ ReadAlbum(r) \/ Decide(r) \/ HandOver(r)
         \/ \E a \in Albums, sent \in Patch : PatchRead(r, a, sent)
         \/ \E u \in Customers, level \in Levels : GrantRead(r, u, level)
<1> DEFINE Follows == \/ req'[r] = Noticing(req[r])
                      \/ r \in Overtakable /\ req'[r] = [req[r] EXCEPT !.raced = TRUE]
<1>0. /\ TablesOK'
      /\ Nobody \in SUBSET Overtakable
      /\ \A a : PatchesOf(a) \in SUBSET Overtakable
      /\ \A u : GrantsTo(u) \in SUBSET Overtakable
      /\ Idle \in Request /\ Noticing(Idle) = Idle
  BY RacedSets DEF TypeOK, TablesOK, Request, Noticing, Idle, Deciding
<1>1. ASSUME NEW s \in Requests \ {r}, NEW value, NEW raced \in SUBSET Overtakable,
             Put(s, value, raced)
      PROVE  Follows
  BY <1>1 DEF Put
<1>2. ASSUME NEW raced \in SUBSET Overtakable, Unattended(raced)
      PROVE  Follows
  BY <1>2 DEF Unattended
<1>3. ASSUME NEW raced \in SUBSET Overtakable, Put(r, Idle, raced)
      PROVE  req'[r] = Idle
  BY <1>0, <1>3, PutGives
<1> HIDE DEF Follows
<1>4. ASSUME NEW s \in Requests \ {r}, BeginFetch(s) \/ ReadAlbum(s) \/ Decide(s)
                                         \/ HandOver(s) \/ End(s)
      PROVE  Follows
  BY <1>0, <1>1, <1>4 DEF BeginFetch, Begin, ReadAlbum, Decide, HandOver, End
<1>5. ASSUME NEW s \in Requests \ {r}, NEW a \in Albums, NEW sent \in Patch,
             PatchRead(s, a, sent)
      PROVE  Follows
  BY <1>0, <1>1, <1>5 DEF PatchRead
<1>6. ASSUME NEW s \in Requests, PatchWrite(s)
      PROVE  Follows \/ req'[r] = Idle
  <2>1. PICK a : Put(s, Idle, PatchesOf(a) \ {s})
    BY <1>6 DEF PatchWrite
  <2>2. PatchesOf(a) \ {s} \in SUBSET Overtakable
    BY <1>0
  <2>3. CASE s = r
    BY <1>3, <2>1, <2>2, <2>3
  <2>4. CASE s # r
    BY <1>1, <2>1, <2>2, <2>4
  <2>5. QED
    BY <2>3, <2>4
<1>7. ASSUME NEW s \in Requests \ {r}, NEW u \in Customers, NEW level \in Levels,
             GrantRead(s, u, level)
      PROVE  Follows
  BY <1>0, <1>1, <1>7 DEF GrantRead
<1>8. ASSUME NEW s \in Requests, GrantWrite(s)
      PROVE  Follows \/ req'[r] = Idle
  <2>1. PICK u : Put(s, Idle, GrantsTo(u) \ {s})
    BY <1>8 DEF GrantWrite
  <2>2. GrantsTo(u) \ {s} \in SUBSET Overtakable
    BY <1>0
  <2>3. CASE s = r
    BY <1>3, <2>1, <2>2, <2>3
  <2>4. CASE s # r
    BY <1>1, <2>1, <2>2, <2>4
  <2>5. QED
    BY <2>3, <2>4
<1>9. ASSUME Manage
      PROVE  Follows
  BY <1>0, <1>2, <1>9
     DEF Manage, CreateAlbum, AddPhotos, DeletePhoto, DeleteAlbum
<1>10. ASSUME NEW u \in Customers, Revoke(u)
       PROVE  Follows
  BY <1>0, <1>2, <1>10 DEF Revoke
<1>11. ASSUME People
       PROVE  Follows
  <2>1. ASSUME DeleteOwner
        PROVE  Follows
    <3>1. Unattended(Overtakable)
      BY <2>1 DEF DeleteOwner, Overtakable
    <3>2. QED
      BY <1>2, <3>1
  <2>2. ASSUME NEW u \in Customers, DeleteCustomer(u) \/ \E new \in Roles : SetRole(u, new)
        PROVE  Follows
    BY <1>0, <1>2, <2>2 DEF DeleteCustomer, SetRole
  <2>3. QED
    BY <1>11, <2>1, <2>2 DEF People
<1>12. ASSUME End(r)
       PROVE  req'[r] = Idle
  BY <1>0, <1>3, <1>12 DEF End
<1>13. QED
  BY <1>4, <1>5, <1>6, <1>7, <1>8, <1>9, <1>10, <1>11, <1>12
     DEF Next, Serve, Subscribe, Follows

-----------------------------------------------------------------------------
(* Downloads are given to those entitled to them.                          *)

\* What a fetch has read, it has also noticed.
Noted(q) ==
    /\ q.role = "staff" => q.seen.staff
    /\ q.step = "access" =>
         /\ q.seen.shown
         /\ q.seen.tier # Nothing /\ Rank(q.seen.tier) <= Rank(q.tier)

\* What EntitledSince says of a request, from the decision on.
Granted(q) ==
    /\ q.seen.shown
    /\ q.may => q.user # Visitor /\ Entitled(q.seen)
    /\ q.kind # "view" => q.may

FetchHonest(r) ==
    /\ req[r].step \in Deciding =>
         Noted(req[r]) /\ Covers(req[r].seen, req[r].user, req[r].album)
    /\ req[r].step \in {"files", "done"} => Granted(req[r])

\* A fetch in flight has noticed what it read and all that is the case now;
\* one that was let through had noticed enough.
Honest == \A r \in Requests : FetchHonest(r)

\* A fetch that takes a look has then noticed all that is the case.
LEMMA LookingCovers ==
  ASSUME TypeOK', NEW r \in Requests, NEW q \in Request, q.step \in Deciding,
         req'[r] = Noticing(q)
  PROVE  /\ Covers(req[r].seen, req[r].user, req[r].album)'
         /\ NoLess(q.seen, req'[r].seen) /\ req'[r].seen \in Seen
         /\ req'[r].step = q.step /\ req'[r].role = q.role
         /\ req'[r].user = q.user /\ req'[r].album = q.album
         /\ q.step = "access" => req'[r].tier = q.tier
<1>1. TablesOK'
  BY DEF TypeOK, TablesOK
<1>2. q.user \in Callers /\ q.album \in Albums /\ q.seen \in Seen
  BY DecidingTypes
<1>3. /\ req'[r].seen = Look(q.seen, q.user, q.album)
      /\ req'[r].step = q.step /\ req'[r].role = q.role
      /\ req'[r].user = q.user /\ req'[r].album = q.album
      /\ q.step = "access" => req'[r].tier = q.tier
  BY <1>1, NoticingTypes
<1>4. QED
  BY <1>1, <1>2, <1>3, LookNotices DEF Covers

\* May_download lets through only what the docstring's rule allows for what
\* has been noticed, if that covers what was read.
LEMMA MayMeansEntitled ==
  ASSUME NEW seen \in Seen, NEW r, NEW tier \in Tiers,
         NEW level \in Levels \cup {Nothing}, MayDownload(r, tier, level),
         r = "staff" => seen.staff,
         seen.tier # Nothing /\ Rank(seen.tier) <= Rank(tier),
         level # Nothing => seen.level # Nothing /\ Rank(seen.level) >= Rank(level)
  PROVE  Entitled(seen)
<1>1. seen.tier \in Tiers /\ (level # Nothing => level \in Levels /\ seen.level \in Levels)
  BY DEF Seen
<1>2. CASE tier = "free"
  BY <1>1, <1>2 DEF Entitled, Tiers, Rank
<1>3. CASE r = "staff"
  BY <1>3 DEF Entitled
<1>4. CASE level # Nothing /\ Opens(tier, level)
  <2>1. Rank(seen.tier) <= Rank(seen.level)
    BY <1>1, <1>4, Ladder DEF Opens
  <2>2. QED
    BY <1>1, <1>4, <2>1 DEF Entitled, Tiers, Levels, Rank
<1>5. QED
  BY <1>2, <1>3, <1>4 DEF MayDownload

\* The inductive invariant behind EntitledSince.
THEOREM HonestFetches == Spec => []Honest
<1>1. Init => Honest
  BY DEF Init, Honest, FetchHonest, Idle, Deciding
<1>2. ASSUME TypeOK, TypeOK', Honest, Next PROVE Honest'
  <2> SUFFICES ASSUME NEW r \in Requests PROVE FetchHonest(r)'
    BY DEF Honest
  <2>0. /\ FetchHonest(r) /\ req[r] \in Request /\ TablesOK'
        /\ Nobody \in SUBSET Overtakable
    BY <1>2, RacedSets DEF Honest, TypeOK, TablesOK
  <2>1. CASE req'[r] = Noticing(req[r])
    <3>1. CASE req[r].step \in Deciding
      <4>a. PICK old \in Seen, new \in Seen :
              /\ old = req[r].seen /\ new = req'[r].seen /\ NoLess(old, new)
        BY <1>2, <2>0, <2>1, <3>1, LookingCovers, DecidingTypes
      <4>b. /\ req'[r].step = req[r].step /\ req'[r].role = req[r].role
            /\ req[r].step = "access" =>
                 req'[r].tier = req[r].tier /\ req[r].tier \in Tiers
        BY <1>2, <2>0, <2>1, <3>1, LookingCovers, DecidingTypes
      <4>c. Noted(req[r])
        BY <2>0, <3>1 DEF FetchHonest
      <4>1. Noted(req[r])'
        <5>1. req[r].step = "access" =>
                /\ new.shown /\ new.tier # Nothing
                /\ Rank(new.tier) <= Rank(req[r].tier)
          BY <4>a, <4>b, <4>c, Ladder DEF Noted, NoLess, Seen
        <5>2. req[r].role = "staff" => new.staff
          BY <4>a, <4>c DEF Noted, NoLess
        <5>3. QED
          BY <4>a, <4>b, <5>1, <5>2 DEF Noted
      <4>2. QED
        BY <1>2, <2>0, <2>1, <3>1, <4>1, LookingCovers DEF FetchHonest, Deciding
    <3>2. CASE req[r].step \notin Deciding
      <4>1. req'[r] = req[r]
        BY <2>0, <2>1, <3>2, NoticingTypes
      <4>2. QED
        BY <2>0, <3>2, <4>1 DEF FetchHonest, Granted
    <3>3. QED
      BY <3>1, <3>2
  <2>2. CASE r \in Overtakable /\ req'[r] = [req[r] EXCEPT !.raced = TRUE]
    BY <2>0, <2>2, RacedTypes DEF Overtakable, FetchHonest, Deciding
  <2>3. CASE req'[r] = Idle
    BY <2>3 DEF FetchHonest, Idle, Deciding
  <2>4. CASE BeginFetch(r)
    <3>1. PICK u \in Callers, a \in Albums, kind \in Kinds,
               p \in Photos \cup {Nothing} :
                 Begin(r, u, kind, a, p)
      BY <2>4 DEF BeginFetch, Callers, Kinds
    <3>2. PICK q : q = [step |-> "album", kind |-> kind, user |-> u, album |-> a,
               asked |-> p, role |-> IF u = Visitor THEN Nothing ELSE role[u],
               seen |-> Blind]
      OBVIOUS
    <3>3. q \in Request /\ q.step \in Deciding
      BY <1>2, <3>1, <3>2
         DEF TypeOK, Request, Fetch, Callers, Seen, Blind, Deciding
    <3>4. req'[r] = Noticing(q) /\ role' = role
      BY <1>2, <2>0, <3>1, <3>2, <3>3, PutGives DEF Begin, Accounts
    <3>5. Noted(req[r])'
      <4>1. req'[r].step = "album" /\ req'[r].role = q.role /\ req'[r].user = u
        BY <1>2, <3>2, <3>3, <3>4, LookingCovers
      <4>2. u # Visitor /\ role'[u] = "staff" => req'[r].seen.staff
        BY <1>2, <3>2, <3>3, <3>4, <4>1, LookingCovers DEF Covers
      <4>3. q.role = "staff" => u # Visitor /\ role'[u] = "staff"
        BY <3>2, <3>4, NothingApart DEF Roles
      <4>4. QED
        BY <4>1, <4>2, <4>3 DEF Noted
    <3>6. QED
      BY <1>2, <3>2, <3>3, <3>4, <3>5, LookingCovers DEF FetchHonest
  <2>5. CASE ReadAlbum(r)
    <3>1. PICK q : q = WithRow(req[r])
      OBVIOUS
    <3>2. req[r].step \in Deciding
      BY <2>5 DEF ReadAlbum, Deciding
    <3>3. q \in Request
      BY <1>2, <2>0, <2>5, <3>1, <3>2, ReadTypes
    <3>4. /\ q.step = "access" /\ q.step \in Deciding
          /\ q.seen = req[r].seen /\ q.role = req[r].role /\ q.album = req[r].album
          /\ q.tier = albums[req[r].album].access
      BY <3>1 DEF WithRow, Deciding
    <3>5. /\ req'[r] = Noticing(q) /\ albums' = albums
          /\ albums[q.album] # Nothing /\ albums[q.album].published
      BY <1>2, <2>0, <2>5, <3>1, <3>3, <3>4, PutGives DEF ReadAlbum, Catalogue
    <3>6. /\ Covers(req[r].seen, req[r].user, req[r].album)'
          /\ NoLess(q.seen, req'[r].seen) /\ req'[r].step = "access"
          /\ req'[r].role = q.role /\ req'[r].album = q.album
          /\ req'[r].tier = q.tier
      BY <1>2, <3>3, <3>4, <3>5, LookingCovers
    <3>7. Noted(req[r])'
      BY <2>0, <3>2, <3>4, <3>5, <3>6 DEF Noted, Covers, NoLess, FetchHonest
    <3>8. QED
      BY <3>6, <3>7 DEF FetchHonest
  <2>6. CASE Decide(r)
    <3>1. /\ req[r].step = "access" /\ req[r].step \in Deciding
      BY <2>6 DEF Decide, Deciding
    <3>2. PICK may \in BOOLEAN :
            /\ may = (/\ req[r].user # Visitor
                      /\ MayDownload(req[r].role, req[r].tier, subs[req[r].user]))
            /\ may \/ req[r].kind = "view"
            /\ \E value :
                 /\ value = [step |-> "files", kind |-> req[r].kind,
                      user |-> req[r].user, album |-> req[r].album,
                      asked |-> req[r].asked, seen |-> req[r].seen,
                      may |-> may]
                 /\ Put(r, value, Nobody)
      BY <2>6 DEF Decide, MayDownload
    <3>3. PICK value :
             /\ value = [step |-> "files", kind |-> req[r].kind,
                  user |-> req[r].user, album |-> req[r].album,
                  asked |-> req[r].asked, seen |-> req[r].seen,
                  may |-> may]
             /\ Put(r, value, Nobody)
      BY <3>2
    <3>4. value \in Request
      BY <2>0, <3>1, <3>3, DecidingTypes DEF Request, Fetch, Callers
    <3>5. req'[r] = value
      BY <1>2, <2>0, <3>2, <3>3, <3>4, PutGives, NoticingTypes DEF Deciding
    <3>6. may => Entitled(req[r].seen)
      <4>1. /\ req[r].seen \in Seen /\ req[r].tier \in Tiers /\ req[r].user \in Callers
        BY <2>0, <3>1, DecidingTypes
      <4>2. may => subs[req[r].user] \in Levels \cup {Nothing}
        BY <1>2, <3>2, <4>1 DEF Callers, TypeOK
      <4>3. QED
        BY <2>0, <3>1, <3>2, <4>1, <4>2, MayMeansEntitled
           DEF FetchHonest, Noted, Covers
    <3>7. Granted(value)
      BY <2>0, <3>1, <3>2, <3>3, <3>6 DEF Granted, FetchHonest, Noted
    <3>8. QED
      BY <3>2, <3>3, <3>5, <3>7 DEF FetchHonest, Granted, Deciding
  <2>7. CASE HandOver(r)
    <3>1. req[r].step = "files"
      BY <2>7 DEF HandOver
    <3>2. PICK value :
            value = [req[r] EXCEPT !.step = "done"] /\ Put(r, value, Nobody)
      BY <2>7 DEF HandOver
    <3>3. /\ value.step = "done" /\ value.user = req[r].user /\ value.kind = req[r].kind
          /\ value.seen = req[r].seen /\ value.may = req[r].may
      BY <2>0, <3>1, <3>2 DEF Request, Idle, Fetch
    <3>4. req'[r] = value
      BY <1>2, <3>2, <3>3 DEF Put, Noticing, Deciding, TypeOK
    <3>5. QED
      BY <2>0, <3>1, <3>3, <3>4 DEF FetchHonest, Granted, Deciding
  <2>8. ASSUME NEW a \in Albums, NEW sent \in Patch, PatchRead(r, a, sent)
        PROVE  FetchHonest(r)'
    <3>1. req'[r].step = "patch"
      BY <1>2, <2>8 DEF PatchRead, Put, Noticing, Deciding, TypeOK
    <3>2. QED
      BY <3>1 DEF FetchHonest, Deciding
  <2>9. ASSUME NEW u \in Customers, NEW level \in Levels, GrantRead(r, u, level)
        PROVE  FetchHonest(r)'
    <3>1. req'[r].step = "grant"
      BY <1>2, <2>9 DEF GrantRead, Put, Noticing, Deciding, TypeOK
    <3>2. QED
      BY <3>1 DEF FetchHonest, Deciding
  <2>10. QED
    BY <1>2, <2>1, <2>2, <2>3, <2>4, <2>5, <2>6, <2>7, <2>8, <2>9, StepOfRequest
<1>3. ASSUME Honest, UNCHANGED vars PROVE Honest'
  BY <1>3 DEF vars, Honest, FetchHonest, Noted, Granted, Covers
<1>4. QED
  BY <1>1, <1>2, <1>3, TypeCorrect, PTL DEF Spec

\* Originals and the unlock flag go to none but those the rule allowed at some
\* instant of their request, and only of albums then published.
THEOREM DownloadsAreEntitled == Spec => []EntitledSince
<1>1. Honest => EntitledSince
  BY DEF Honest, FetchHonest, Granted, EntitledSince, Done
<1>2. QED
  BY <1>1, HonestFetches, PTL

-----------------------------------------------------------------------------
(* What a step can do to one album and to one subscription.                *)

\* An album that changes is a new one, or goes, or is edited; and then the other
\* edits of it that are in flight are overtaken.
LEMMA StepOfAlbum ==
  ASSUME TypeOK, TypeOK', Next, NEW a \in Albums, albums'[a] # albums[a]
  PROVE  \/ a \notin made /\ a \in made'
         \/ /\ \A r \in PatchesOf(a) : req'[r] = Idle \/ req'[r].raced = TRUE
            /\ \/ albums'[a] = Nothing
               \/ \E r \in Requests :
                    /\ PatchWrite(r) /\ req[r].album = a
                    /\ albums[a] # Nothing /\ albums'[a] = Patched(albums[a], req[r])
<1>0. /\ TablesOK'
      /\ \A b : PatchesOf(b) \in SUBSET Overtakable
      /\ Idle \in Request /\ Noticing(Idle) = Idle
      /\ \A r \in Requests : req[r] \in Request
  BY RacedSets DEF TypeOK, TablesOK, Request, Noticing, Idle, Deciding
<1>1. ASSUME NEW s \in Requests, PatchWrite(s)
      PROVE  /\ req[s].album = a
             /\ albums[a] # Nothing /\ albums'[a] = Patched(albums[a], req[s])
             /\ \A r \in PatchesOf(a) : req'[r] = Idle \/ req'[r].raced = TRUE
  <2>1. PICK q \in PatchRequest : q = req[s]
    BY <1>0, <1>1, EditTypes DEF PatchWrite
  <2>2. /\ albums' = [albums EXCEPT ![q.album] = Patched(albums[q.album], q)]
        /\ albums[q.album] # Nothing /\ q.album \in Albums
        /\ Put(s, Idle, PatchesOf(q.album) \ {s})
    BY <1>1, <2>1 DEF PatchWrite, PatchRequest
  <2>3. q.album = a /\ albums'[a] = Patched(albums[a], q)
    BY <2>2 DEF TypeOK
  <2>4. PatchesOf(a) \ {s} \in SUBSET Overtakable
    BY <1>0
  <2>5. ASSUME NEW r \in PatchesOf(a)
        PROVE  req'[r] = Idle \/ req'[r].raced = TRUE
    <3>1. r \in Requests /\ req[r].step \in {"patch", "grant"}
      BY DEF PatchesOf
    <3>2. \/ r = s /\ req'[r] = Idle
          \/ req'[r] = [req[r] EXCEPT !.raced = TRUE]
      BY <1>0, <2>2, <2>3, <2>4, <3>1, PutGives
    <3>3. QED
      BY <1>0, <3>1, <3>2, RacedTypes
  <2>6. QED
    BY <2>1, <2>2, <2>3, <2>5
<1>2. ASSUME NEW b \in Albums, NEW access \in Tiers, NEW published \in BOOLEAN,
             CreateAlbum(b, access, published)
      PROVE  a \notin made /\ a \in made'
  BY <1>2 DEF CreateAlbum, TypeOK
<1>3. ASSUME NEW b \in Albums, DeleteAlbum(b)
      PROVE  /\ albums'[a] = Nothing
             /\ \A r \in PatchesOf(a) : req'[r].raced = TRUE
  <2>1. a = b /\ albums'[a] = Nothing /\ Unattended(PatchesOf(a))
    BY <1>3 DEF DeleteAlbum, TypeOK
  <2>2. PatchesOf(a) \in SUBSET Overtakable
    BY <1>0
  <2>3. \A r \in PatchesOf(a) : req'[r] = [req[r] EXCEPT !.raced = TRUE]
    BY <1>0, <2>1, <2>2, UnattendedGives DEF PatchesOf
  <2>4. QED
    BY <1>0, <2>1, <2>3, RacedTypes DEF PatchesOf
<1>4. ASSUME DeleteOwner
      PROVE  /\ albums'[a] = Nothing
             /\ \A r \in PatchesOf(a) : req'[r].raced = TRUE
  <2>1. albums'[a] = Nothing /\ Unattended(Overtakable)
    BY <1>4 DEF DeleteOwner, Overtakable
  <2>2. Overtakable \in SUBSET Overtakable
    OBVIOUS
  <2>3. \A r \in PatchesOf(a) : r \in Overtakable
                                  /\ req'[r] = [req[r] EXCEPT !.raced = TRUE]
    BY <1>0, <2>1, <2>2, UnattendedGives DEF PatchesOf, Overtakable
  <2>4. QED
    BY <1>0, <2>1, <2>3, RacedTypes DEF Overtakable
<1>5. ASSUME NEW r \in Requests, Serve(r), ~PatchWrite(r)
      PROVE  albums' = albums
  BY <1>5 DEF Serve, BeginFetch, Begin, ReadAlbum, Decide, HandOver, End, PatchRead,
              Catalogue
<1>6. Subscribe => albums' = albums
  BY DEF Subscribe, GrantRead, GrantWrite, Revoke, Catalogue
<1>7. People => DeleteOwner \/ albums' = albums
  BY DEF People, DeleteCustomer, SetRole, Catalogue
<1>8. ASSUME (\E p \in Photos : DeletePhoto(p))
               \/ \E b \in Albums, new \in SUBSET Photos : AddPhotos(b, new)
      PROVE  albums' = albums
  BY <1>8 DEF DeletePhoto, AddPhotos
<1>9. QED
  <2>1. CASE \E r \in Requests : Serve(r)
    BY <1>1, <1>5, <2>1
  <2>2. CASE Manage
    BY <1>2, <1>3, <1>8, <2>2 DEF Manage
  <2>3. CASE Subscribe \/ People
    BY <1>4, <1>6, <1>7, <2>3
  <2>4. QED
    BY <2>1, <2>2, <2>3 DEF Next

\* Grants in flight to a customer whose level changes are overtaken.
LEMMA StepOfSub ==
  ASSUME TypeOK, TypeOK', Next, NEW u \in Customers, subs'[u] # subs[u]
  PROVE  \A r \in GrantsTo(u) : req'[r] = Idle \/ req'[r].raced = TRUE
<1>0. /\ TablesOK'
      /\ \A v : GrantsTo(v) \in SUBSET Overtakable
      /\ Idle \in Request /\ Noticing(Idle) = Idle
      /\ \A r \in Requests : req[r] \in Request
  BY RacedSets DEF TypeOK, TablesOK, Request, Noticing, Idle, Deciding
<1>1. ASSUME NEW raced \in SUBSET Overtakable, GrantsTo(u) \subseteq raced,
             Unattended(raced)
      PROVE  \A r \in GrantsTo(u) : req'[r].raced = TRUE
  <2>1. \A r \in GrantsTo(u) : r \in raced /\ req'[r] = [req[r] EXCEPT !.raced = TRUE]
    BY <1>0, <1>1, UnattendedGives DEF GrantsTo
  <2>2. QED
    BY <1>0, <2>1, RacedTypes DEF GrantsTo
<1>2. ASSUME NEW s \in Requests, GrantWrite(s)
      PROVE  \A r \in GrantsTo(u) : req'[r] = Idle \/ req'[r].raced = TRUE
  <2>1. PICK q \in GrantRequest : q = req[s]
    BY <1>0, <1>2, EditTypes DEF GrantWrite
  <2>2. q.user = u /\ Put(s, Idle, GrantsTo(u) \ {s})
    BY <1>2, <2>1 DEF GrantWrite, TypeOK
  <2>3. GrantsTo(u) \ {s} \in SUBSET Overtakable
    BY <1>0
  <2>4. ASSUME NEW r \in GrantsTo(u)
        PROVE  req'[r] = Idle \/ req'[r].raced = TRUE
    <3>1. r \in Requests /\ req[r].step \in {"patch", "grant"}
      BY DEF GrantsTo
    <3>2. \/ r = s /\ req'[r] = Idle
          \/ req'[r] = [req[r] EXCEPT !.raced = TRUE]
      BY <1>0, <2>2, <2>3, <3>1, PutGives
    <3>3. QED
      BY <1>0, <3>1, <3>2, RacedTypes
  <2>5. QED
    BY <2>4
<1>3. ASSUME NEW v \in Customers, Revoke(v) \/ DeleteCustomer(v)
      PROVE  \A r \in GrantsTo(u) : req'[r].raced = TRUE
  <2>1. u = v /\ Unattended(GrantsTo(u))
    BY <1>3 DEF Revoke, DeleteCustomer, TypeOK
  <2>2. QED
    BY <1>0, <1>1, <2>1
<1>4. ASSUME DeleteOwner
      PROVE  \A r \in GrantsTo(u) : req'[r].raced = TRUE
  <2>1. Unattended(Overtakable)
    BY <1>4 DEF DeleteOwner, Overtakable
  <2>2. Overtakable \in SUBSET Overtakable
    OBVIOUS
  <2>3. QED
    BY <1>0, <1>1, <2>1, <2>2
<1>5. ASSUME NEW r \in Requests, Serve(r)
      PROVE  subs' = subs
  <2>1. BeginFetch(r) => subs' = subs
    BY DEF BeginFetch, Begin
  <2>2. ReadAlbum(r) => subs' = subs
    BY DEF ReadAlbum
  <2>3. Decide(r) => subs' = subs
    BY DEF Decide
  <2>4. HandOver(r) \/ End(r) => subs' = subs
    BY DEF HandOver, End
  <2>5. (\E a \in Albums, sent \in Patch : PatchRead(r, a, sent)) => subs' = subs
    BY DEF PatchRead
  <2>6. PatchWrite(r) => subs' = subs
    BY DEF PatchWrite
  <2>7. QED
    BY <1>5, <2>1, <2>2, <2>3, <2>4, <2>5, <2>6 DEF Serve
<1>6. Manage => subs' = subs
  BY DEF Manage, CreateAlbum, AddPhotos, DeletePhoto, DeleteAlbum
<1>7. ASSUME NEW v \in Customers,
             (\E new \in Roles : SetRole(v, new))
               \/ (\E r \in Requests, level \in Levels : GrantRead(r, v, level))
      PROVE  subs' = subs
  BY <1>7 DEF SetRole, GrantRead
<1>8. QED
  BY <1>2, <1>3, <1>4, <1>5, <1>6, <1>7 DEF Next, Subscribe, People

\* Ids of albums are not given back.
LEMMA AlbumsStayMade ==
  ASSUME Next
  PROVE  made \subseteq made'
<1>1. ASSUME NEW r \in Requests, Serve(r) PROVE UNCHANGED made
  BY <1>1 DEF Serve, BeginFetch, Begin, ReadAlbum, Decide, HandOver, End, PatchRead,
              PatchWrite, Catalogue
<1>2. Subscribe => UNCHANGED made
  BY DEF Subscribe, GrantRead, GrantWrite, Revoke, Catalogue
<1>3. People => UNCHANGED made
  BY DEF People, DeleteCustomer, SetRole, DeleteOwner, Catalogue
<1>4. Manage => made \subseteq made'
  BY DEF Manage, CreateAlbum, AddPhotos, DeletePhoto, DeleteAlbum
<1>5. QED
  BY <1>1, <1>2, <1>3, <1>4 DEF Next

\* After a step of its own a fetch is one still.
LEMMA FetchStays ==
  ASSUME TypeOK, NEW r \in Requests,
         BeginFetch(r) \/ ReadAlbum(r) \/ Decide(r) \/ HandOver(r)
  PROVE  req'[r].step \in {"album", "access", "files", "done"}
<1>1. ASSUME NEW u, NEW kind, NEW a, NEW p, Begin(r, u, kind, a, p)
      PROVE  req'[r].step = "album"
  BY <1>1 DEF Begin, Put, Noticing, Deciding, TypeOK
<1>2. ReadAlbum(r) => req'[r].step = "access"
  BY DEF ReadAlbum, Put, WithRow, Noticing, Deciding, TypeOK
<1>3. Decide(r) => req'[r].step = "files"
  BY DEF Decide, Put, Noticing, Deciding, TypeOK
<1>4. HandOver(r) => req'[r].step = "done"
  BY DEF HandOver, Put, Noticing, Deciding, TypeOK, Request, Idle, Fetch
<1>5. QED
  BY <1>1, <1>2, <1>3, <1>4 DEF BeginFetch

-----------------------------------------------------------------------------
(* Edits and grants take effect.                                           *)

\* An edit that nobody overtook finds what it loaded: the album is there, and
\* has the value already if that was not to be written.  A grant likewise.
Undisturbed(r) ==
    /\ req[r].step = "patch" /\ ~req[r].raced =>
         /\ albums[req[r].album] # Nothing
         /\ ~req[r].dirty =>
              albums[req[r].album][req[r].patch.column] = req[r].patch.value
    /\ req[r].step = "grant" /\ ~req[r].raced => subs[req[r].user] = req[r].loaded

Loaded ==
    /\ \A a \in Albums : albums[a] # Nothing => a \in made
    /\ \A r \in Requests : Undisturbed(r)

\* The inductive invariant behind PatchTakes and GrantTakes.
THEOREM LoadedIsCurrent == Spec => []Loaded
<1>1. Init => Loaded
  BY DEF Init, Loaded, Undisturbed, Idle
<1>2. ASSUME TypeOK, TypeOK', Loaded, Next PROVE Loaded'
  <2>1. \A a \in Albums : albums'[a] # Nothing => a \in made'
    <3>1. ASSUME NEW a \in Albums, albums'[a] # Nothing PROVE a \in made'
      BY <1>2, <3>1, StepOfAlbum, AlbumsStayMade DEF Loaded
    <3>2. QED
      BY <3>1
  <2>2. ASSUME NEW r \in Requests PROVE Undisturbed(r)'
    <3>0. /\ Undisturbed(r) /\ req[r] \in Request /\ TablesOK' /\ Nobody \in SUBSET Overtakable
      BY <1>2, RacedSets DEF Loaded, TypeOK, TablesOK
    <3>1. CASE req'[r] = Noticing(req[r]) /\ req[r].step = "patch"
      <4>1. req'[r] = req[r]
        BY <3>0, <3>1, NoticingTypes DEF Deciding
      <4>2. PICK q \in PatchRequest : q = req[r]
        BY <3>0, <3>1, EditTypes
      <4>3. q.album \in Albums /\ q.step = "patch"
        BY <4>2 DEF PatchRequest
      <4>4. ~q.raced => albums[q.album] # Nothing /\ q.album \in made
        BY <1>2, <3>0, <3>1, <4>2, <4>3 DEF Undisturbed, Loaded
      <4>5. ~q.raced => albums'[q.album] = albums[q.album]
        <5>1. r \in PatchesOf(q.album)
          BY <3>1, <4>2 DEF PatchesOf
        <5>2. q # Idle
          BY <4>3 DEF Idle
        <5>3. QED
          BY <1>2, <4>1, <4>2, <4>3, <4>4, <5>1, <5>2, StepOfAlbum
      <4>6. QED
        BY <3>0, <3>1, <4>1, <4>2, <4>3, <4>5 DEF Undisturbed
    <3>2. CASE req'[r] = Noticing(req[r]) /\ req[r].step = "grant"
      <4>1. req'[r] = req[r]
        BY <3>0, <3>2, NoticingTypes DEF Deciding
      <4>2. PICK q \in GrantRequest : q = req[r]
        BY <3>0, <3>2, EditTypes
      <4>3. q.user \in Customers /\ q # Idle
        BY <4>2 DEF GrantRequest, Idle
      <4>4. r \in GrantsTo(q.user)
        BY <3>2, <4>2 DEF GrantsTo
      <4>5. ~q.raced => subs'[q.user] = subs[q.user]
        BY <1>2, <4>1, <4>2, <4>3, <4>4, StepOfSub
      <4>6. QED
        BY <3>0, <3>2, <4>1, <4>2, <4>5 DEF Undisturbed
    <3>3. CASE req'[r] = Noticing(req[r]) /\ req[r].step \notin {"patch", "grant"}
      BY <3>0, <3>3, NoticingTypes DEF Undisturbed, Deciding
    <3>4. CASE r \in Overtakable /\ req'[r] = [req[r] EXCEPT !.raced = TRUE]
      BY <3>0, <3>4, RacedTypes DEF Overtakable, Undisturbed
    <3>5. CASE req'[r] = Idle
      BY <3>5 DEF Undisturbed, Idle
    <3>6. ASSUME NEW a \in Albums, NEW sent \in Patch, PatchRead(r, a, sent)
          PROVE  Undisturbed(r)'
      <4>1. PICK dirty \in BOOLEAN : dirty <=> albums[a][sent.column] # sent.value
        OBVIOUS
      <4>2. /\ req'[r] = [step |-> "patch", album |-> a, patch |-> sent,
                    dirty |-> dirty, raced |-> FALSE]
            /\ albums' = albums /\ albums[a] # Nothing
        BY <1>2, <3>6, <4>1 DEF PatchRead, Put, Noticing, Deciding, TypeOK, Catalogue
      <4>3. QED
        BY <4>1, <4>2 DEF Undisturbed
    <3>7. ASSUME NEW u \in Customers, NEW level \in Levels, GrantRead(r, u, level)
          PROVE  Undisturbed(r)'
      <4>1. /\ req'[r] = [step |-> "grant", user |-> u, level |-> level,
                    loaded |-> subs[u], raced |-> FALSE]
            /\ subs' = subs
        BY <1>2, <3>7 DEF GrantRead, Put, Noticing, Deciding, TypeOK
      <4>2. QED
        BY <4>1 DEF Undisturbed
    <3>8. ASSUME BeginFetch(r) \/ ReadAlbum(r) \/ Decide(r) \/ HandOver(r)
          PROVE  Undisturbed(r)'
      <4>1. req'[r].step \in {"album", "access", "files", "done"}
        BY <1>2, <3>8, FetchStays
      <4>2. QED
        BY <4>1 DEF Undisturbed
    <3>9. QED
      BY <1>2, <3>1, <3>2, <3>3, <3>4, <3>5, <3>6, <3>7, <3>8, StepOfRequest
  <2>3. QED
    BY <2>1, <2>2 DEF Loaded
<1>3. ASSUME Loaded, UNCHANGED vars PROVE Loaded'
  BY <1>3 DEF vars, Loaded, Undisturbed
<1>4. QED
  BY <1>1, <1>2, <1>3, TypeCorrect, PTL DEF Spec

\* An edit answered with 200 has taken effect, unless another overtook it.
THEOREM EditsTakeEffect == Spec => PatchTakes
<1>1. ASSUME TypeOK, Loaded, Next, NEW r \in Requests, PatchWrite(r), ~req[r].raced
      PROVE  albums'[req[r].album][req[r].patch.column] = req[r].patch.value
  <2>1. PICK q \in PatchRequest : q = req[r]
    BY <1>1, EditTypes DEF PatchWrite, TypeOK
  <2>2. /\ q.album \in Albums /\ albums[q.album] \in AlbumRow /\ q.dirty \in BOOLEAN
        /\ albums'[q.album] = Patched(albums[q.album], q)
    BY <1>1, <2>1 DEF PatchWrite, PatchRequest, TypeOK
  <2>3. ~q.dirty => albums[q.album][q.patch.column] = q.patch.value
    BY <1>1, <2>1 DEF Loaded, Undisturbed, PatchWrite
  <2>4. QED
    BY <2>1, <2>2, <2>3, PatchedTypes
<1>2. ASSUME TypeOK, Loaded, [Next]_vars
      PROVE  [\A r \in Requests : (PatchWrite(r) /\ ~req[r].raced) =>
                albums'[req[r].album][req[r].patch.column] = req[r].patch.value]_vars
  BY <1>1, <1>2
<1>3. []TypeOK /\ []Loaded /\ [][Next]_vars => PatchTakes
  BY <1>2, PTL DEF PatchTakes
<1>4. QED
  BY <1>3, TypeCorrect, LoadedIsCurrent, PTL DEF Spec

\* Set-subscription that reports success has set its level, unless another
\* command overtook it.
THEOREM GrantsTakeEffect == Spec => GrantTakes
<1>1. ASSUME TypeOK, Loaded, NEW r \in Requests, GrantWrite(r), ~req[r].raced
      PROVE  subs'[req[r].user] = req[r].level
  <2>1. PICK q \in GrantRequest : q = req[r]
    BY <1>1, EditTypes DEF GrantWrite, TypeOK
  <2>2. /\ q.user \in Customers
        /\ subs'[q.user] = IF q.level = q.loaded THEN subs[q.user] ELSE q.level
    BY <1>1, <2>1 DEF GrantWrite, GrantRequest, TypeOK
  <2>3. subs[q.user] = q.loaded
    BY <1>1, <2>1 DEF Loaded, Undisturbed, GrantWrite
  <2>4. QED
    BY <2>1, <2>2, <2>3
<1>2. ASSUME TypeOK, Loaded, [Next]_vars
      PROVE  [\A r \in Requests : (GrantWrite(r) /\ ~req[r].raced) =>
                subs'[req[r].user] = req[r].level]_vars
  BY <1>1, <1>2
<1>3. []TypeOK /\ []Loaded /\ [][Next]_vars => GrantTakes
  BY <1>2, PTL DEF GrantTakes
<1>4. QED
  BY <1>3, TypeCorrect, LoadedIsCurrent, PTL DEF Spec

\* A hidden album is not put back but by an edit of is_published.
THEOREM HiddenAlbumsStayHidden == Spec => HiddenStaysHidden
<1>1. ASSUME TypeOK, TypeOK', Loaded, Next, NEW a \in Albums,
             albums[a] # Nothing, ~albums[a].published,
             albums'[a] # Nothing, albums'[a].published
      PROVE  \E r \in Requests : /\ PatchWrite(r) /\ req[r].album = a
                                 /\ req[r].patch.column = "published"
  <2>1. PICK r \in Requests :
          /\ PatchWrite(r) /\ req[r].album = a
          /\ albums'[a] = Patched(albums[a], req[r])
    BY <1>1, StepOfAlbum DEF Loaded
  <2>2. req[r] \in PatchRequest /\ albums[a] \in AlbumRow
    BY <1>1, <2>1, EditTypes DEF PatchWrite, TypeOK
  <2>3. req[r].patch.column = "published"
    BY <1>1, <2>1, <2>2, PatchedTypes
  <2>4. QED
    BY <2>1, <2>3
<1>2. ASSUME TypeOK, TypeOK', Loaded, [Next]_vars
      PROVE  [\A a \in Albums :
                (albums[a] # Nothing /\ ~albums[a].published
                   /\ albums'[a] # Nothing /\ albums'[a].published)
                => \E r \in Requests : /\ PatchWrite(r)
                                       /\ req[r].album = a
                                       /\ req[r].patch.column = "published"]_vars
  BY <1>1, <1>2
<1>3. []TypeOK /\ []Loaded /\ [][Next]_vars => HiddenStaysHidden
  BY <1>2, PTL DEF HiddenStaysHidden
<1>4. QED
  BY <1>3, TypeCorrect, LoadedIsCurrent, PTL DEF Spec
=============================================================================
