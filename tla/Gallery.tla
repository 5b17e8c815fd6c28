------------------------------ MODULE Gallery -------------------------------
(***************************************************************************)
(* Albums, who may download them, and the downloads: app/api/media.py,     *)
(* services/access.py, models/tiers.py, the album half of api/manage.py,   *)
(* and the subscription commands of cli.py.                                *)
(*                                                                         *)
(* A download reads the caller's row, then the album's, then his           *)
(* subscription, then hands over: four reads at four instants, with album  *)
(* edits, subscriptions, roles and deletions in between.  Edits are ORM    *)
(* read-modify-writes: a column is written only if it differs from what    *)
(* was loaded.  Albums here are all Owner's.  Of photos there are the rows *)
(* alone, which an upload or a delete commits in one transaction; the      *)
(* files, and whose bytes a download finds in them, are MediaStore's.      *)
(***************************************************************************)
EXTENDS Integers, FiniteSets

CONSTANTS
    Customers,      \* user ids other than the artist's
    Owner,          \* the artist
    Visitor,        \* a caller without a session
    Albums,         \* album ids; SlugOf gives the slug of each
    SlugOf,
    Photos,         \* photo ids
    Requests,       \* handlers and commands running at a time
    MaxFetches,     \* bound: how many of them serve downloads and pages
    Nothing         \* no row

ASSUME OwnerIsNoCustomer == Owner \notin Customers /\ Visitor \notin Customers
ASSUME FetchesBound      == MaxFetches \in Nat

Tiers  == {"free", "paid", "premium"}
Levels == {"paid", "premium"}          \* SUBSCRIPTION_LEVELS
Roles  == {"client", "staff"}          \* of customers; the owner's is "artist"

AlbumRow == [access : Tiers, published : BOOLEAN]

ASSUME NothingApart ==
    Nothing \notin Photos \cup Albums \cup Tiers \cup Roles \cup AlbumRow

\* Patches of one column, as the artist's page sends them; columns are flushed
\* one by one, so a patch of two is no different.
Patch == [column : {"access"}, value : Tiers]
            \cup [column : {"published"}, value : BOOLEAN]

VARIABLES
    role,           \* of each customer, or Nothing once deleted
    ownerLives,     \* the artist has an account
    subs,           \* level each customer subscribes at, or Nothing
    albums,         \* rows of table albums, by id
    made,           \* history: albums ever created
    photos,         \* the album of each photo row, or Nothing
    taken,          \* history: photo ids handed out
    req             \* what each request in flight has read

vars == <<role, ownerLives, subs, albums, made, photos, taken, req>>

Idle == [step |-> "idle"]

(* A download, or a view of an album: "album" has read the caller, "access" *)
(* the album's row, "files" was let through (`may'), "done" is handed over. *)
(* `asked' is the photo, or Nothing for the zip and the page.               *)
(* `seen' is history, of the instants from the start of the request to the  *)
(* decision: was the album published at one, the lowest tier it had, the    *)
(* highest level the caller had, was he staff.                              *)
Seen == [shown : BOOLEAN, tier : Tiers \cup {Nothing},
         level : Levels \cup {Nothing}, staff : BOOLEAN]

Kinds == {"photo", "zip", "view"}

Fetch ==
    [step : {"album"}, kind : Kinds, user : Customers \cup {Visitor}, album : Albums,
     asked : Photos \cup {Nothing}, role : Roles \cup {Nothing}, seen : Seen]
    \cup
    [step : {"access"}, kind : Kinds, user : Customers \cup {Visitor}, album : Albums,
     asked : Photos \cup {Nothing}, role : Roles \cup {Nothing}, seen : Seen,
     tier : Tiers]
    \cup
    [step : {"files", "done"}, kind : Kinds, user : Customers \cup {Visitor},
     album : Albums, asked : Photos \cup {Nothing}, seen : Seen, may : BOOLEAN]

(* A PATCH of an album (`dirty': the value is not the one loaded), and      *)
(* set-subscription with the level it found.  `raced' is history: the row   *)
(* changed since, under another.                                            *)
Request ==
    {Idle} \cup Fetch
    \cup [step : {"patch"}, album : Albums, patch : Patch,
          dirty : BOOLEAN, raced : BOOLEAN]
    \cup [step : {"grant"}, user : Customers, level : Levels,
          loaded : Levels \cup {Nothing}, raced : BOOLEAN]

Deciding == {"album", "access"}

Init ==
    /\ role = [u \in Customers |-> "client"] /\ ownerLives = TRUE
    /\ subs = [u \in Customers |-> Nothing]
    /\ albums = [a \in Albums |-> Nothing] /\ made = {}
    /\ photos = [p \in Photos |-> Nothing] /\ taken = {}
    /\ req = [r \in Requests |-> Idle]

-----------------------------------------------------------------------------
(* The rule.                                                               *)

Rank(t) == CASE t = "free" -> 0 [] t = "paid" -> 1 [] t = "premium" -> 2

OpensAbove(tier, level) == Rank(tier) >= Rank(level)  \* mutant: ladder upside down

\* tiers.opens: a level reaches every tier at or below its own.
Opens(tier, level) == Rank(tier) <= Rank(level)

\* access.may_download, for a caller who is not the owner himself.
MayDownload(r, tier, level) ==
    \/ tier = "free"
    \/ r = "staff"
    \/ level # Nothing /\ Opens(tier, level)

-----------------------------------------------------------------------------
(* What the requests in flight notice, as history.                         *)

Lowest(tiers) ==
    IF tiers = {} THEN Nothing ELSE CHOOSE t \in tiers : \A o \in tiers : Rank(t) <= Rank(o)
Highest(levels) ==
    IF levels = {} THEN Nothing ELSE CHOOSE l \in levels : \A o \in levels : Rank(l) >= Rank(o)

\* Evaluated in the new state, once a step has said what it is.
Look(seen, u, a) ==
    [shown |-> seen.shown \/ (albums'[a] # Nothing /\ albums'[a].published),
     tier  |-> Lowest(({seen.tier} \cup
                  (IF albums'[a] = Nothing THEN {} ELSE {albums'[a].access})) \ {Nothing}),
     level |-> IF u = Visitor THEN Nothing
               ELSE Highest({seen.level, subs'[u]} \ {Nothing}),
     staff |-> seen.staff \/ (u # Visitor /\ role'[u] = "staff")]

Blind == [shown |-> FALSE, tier |-> Nothing, level |-> Nothing, staff |-> FALSE]

Noticing(q) ==
    IF q.step \in Deciding THEN [q EXCEPT !.seen = Look(@, q.user, q.album)] ELSE q

\* Request r becomes `value', those of `raced' have been overtaken, and every
\* fetch sees the new state.
Put(r, value, raced) ==
    req' = [q \in Requests |->
              IF q = r THEN Noticing(value)
              ELSE IF q \in raced THEN [req[q] EXCEPT !.raced = TRUE]
              ELSE Noticing(req[q])]

Nobody == {}
PatchesOf(a) == {q \in Requests : req[q].step = "patch" /\ req[q].album = a}
GrantsTo(u)  == {q \in Requests : req[q].step = "grant" /\ req[q].user = u}

\* A step of one of the actions below that has no request of its own.
Unattended(raced) ==
    req' = [q \in Requests |-> IF q \in raced THEN [req[q] EXCEPT !.raced = TRUE]
                               ELSE Noticing(req[q])]

Accounts  == <<role, ownerLives>>
Catalogue == <<albums, made, photos, taken>>

-----------------------------------------------------------------------------
(* api/media.py.                                                           *)

\* get_current_user, and get_optional_user for the page.  A photo is asked for by
\* its id alone: `a' is the album it will turn out to be in.
Begin(r, u, kind, a, p) ==
    /\ req[r] = Idle
    /\ u = Visitor => kind = "view"
    /\ u # Visitor => role[u] # Nothing
    /\ UNCHANGED <<Accounts, subs, Catalogue>>
    /\ Put(r, [step |-> "album", kind |-> kind, user |-> u, album |-> a,
               asked |-> p, role |-> IF u = Visitor THEN Nothing ELSE role[u],
               seen |-> Blind], Nobody)

BeginFetch(r) ==
    /\ Cardinality({q \in Requests : req[q].step \in Deciding \cup {"files", "done"}})
         < MaxFetches
    /\ \E u \in Customers \cup {Visitor}, a \in Albums :
         \/ \E kind \in {"zip", "view"} : Begin(r, u, kind, a, Nothing)
         \/ \E p \in Photos : Begin(r, u, "photo", a, p)

WithRow(q) ==
    [step |-> "access", kind |-> q.kind, user |-> q.user, album |-> q.album,
     asked |-> q.asked, role |-> q.role, seen |-> q.seen,
     tier |-> albums[q.album].access]

\* _published_album and _published_photo; a 404 otherwise.
ReadAlbum(r) ==
    /\ req[r].step = "album"
    /\ albums[req[r].album] # Nothing
    /\ albums[req[r].album].published
    /\ req[r].asked # Nothing => photos[req[r].asked] = req[r].album
    /\ UNCHANGED <<Accounts, subs, Catalogue>>
    /\ Put(r, WithRow(req[r]), Nobody)

\* _can_download: for a page it is a flag, for a download a 403.
Decide(r) ==
    /\ req[r].step = "access"
    /\ LET q   == req[r]
           may == /\ q.user # Visitor
                  /\ MayDownload(q.role, q.tier, subs[q.user])
       IN  /\ may \/ q.kind = "view"
           /\ UNCHANGED <<Accounts, subs, Catalogue>>
           /\ Put(r, [step |-> "files", kind |-> q.kind, user |-> q.user,
                      album |-> q.album, asked |-> q.asked, seen |-> q.seen,
                      may |-> may], Nobody)

PhotosOf(a) == {p \in Photos : photos[p] = a}

\* A zip of an album without photos is a 404; so is a photo without its file,
\* which is one of the ways to End.
HandOver(r) ==
    /\ req[r].step = "files"
    /\ req[r].kind = "zip" => PhotosOf(req[r].album) # {}
    /\ UNCHANGED <<Accounts, subs, Catalogue>>
    /\ Put(r, [req[r] EXCEPT !.step = "done"], Nobody)

\* The answer is sent, refused or lost.
End(r) ==
    /\ req[r] # Idle
    /\ UNCHANGED <<Accounts, subs, Catalogue>>
    /\ Put(r, Idle, Nobody)

-----------------------------------------------------------------------------
(* api/manage.py.                                                          *)

CreateAlbum(a, access, published) ==
    /\ ownerLives
    /\ a \notin made
    /\ \A b \in Albums : albums[b] # Nothing => SlugOf[b] # SlugOf[a]
    /\ albums' = [albums EXCEPT ![a] = [access |-> access, published |-> published]]
    /\ made' = made \cup {a}
    /\ UNCHANGED <<Accounts, subs, photos, taken>>
    /\ Unattended(Nobody)

PatchRead(r, a, sent) ==
    /\ req[r] = Idle
    /\ albums[a] # Nothing
    /\ UNCHANGED <<Accounts, subs, Catalogue>>
    /\ Put(r, [step |-> "patch", album |-> a, patch |-> sent,
               dirty |-> albums[a][sent.column] # sent.value, raced |-> FALSE],
           Nobody)

DefaultShown(now, q) ==                       \* mutant: is_published defaults to true
    IF q.patch.column = "published" THEN [now EXCEPT !.published = q.patch.value]
    ELSE [access |-> q.patch.value, published |-> TRUE]

OnlyTruthy(now, q) ==                         \* mutant: `if body.is_published:'
    IF q.patch.column = "published" /\ ~q.patch.value THEN now
    ELSE [now EXCEPT ![q.patch.column] = q.patch.value]

\* The flush writes the column if its value is not the one loaded.
Patched(now, q) ==
    IF q.dirty THEN [now EXCEPT ![q.patch.column] = q.patch.value] ELSE now

\* The commit, and the refresh that fails if the row is gone.
PatchWrite(r) ==
    /\ req[r].step = "patch"
    /\ albums[req[r].album] # Nothing
    /\ LET q == req[r]
       IN  /\ albums' = [albums EXCEPT ![q.album] = Patched(@, q)]
           /\ UNCHANGED <<Accounts, subs, made, photos, taken>>
           /\ Put(r, Idle, PatchesOf(q.album) \ {r})

\* The commit of a batch: the foreign key needs the album's row.
AddPhotos(a, new) ==
    /\ albums[a] # Nothing
    /\ new # {} /\ new \cap taken = {}
    /\ photos' = [p \in Photos |-> IF p \in new THEN a ELSE photos[p]]
    /\ taken' = taken \cup new
    /\ UNCHANGED <<Accounts, subs, albums, made>>
    /\ Unattended(Nobody)

DeletePhoto(p) ==
    /\ photos[p] # Nothing
    /\ photos' = [photos EXCEPT ![p] = Nothing]
    /\ UNCHANGED <<Accounts, subs, albums, made, taken>>
    /\ Unattended(Nobody)

DeleteAlbum(a) ==
    /\ albums[a] # Nothing
    /\ albums' = [albums EXCEPT ![a] = Nothing]
    /\ photos' = [p \in Photos |-> IF p \in PhotosOf(a) THEN Nothing ELSE photos[p]]
    /\ UNCHANGED <<Accounts, subs, made, taken>>
    /\ Unattended(PatchesOf(a))

-----------------------------------------------------------------------------
(* app.cli set-subscription and revoke-subscription.                       *)

GrantRead(r, u, level) ==
    /\ req[r] = Idle
    /\ ownerLives /\ role[u] # Nothing
    /\ UNCHANGED <<Accounts, subs, Catalogue>>
    /\ Put(r, [step |-> "grant", user |-> u, level |-> level,
               loaded |-> subs[u], raced |-> FALSE], Nobody)

GrantOnce(r) ==                               \* mutant: a subscriber keeps his level
    /\ req[r].step = "grant"
    /\ LET q == req[r]
       IN  /\ ownerLives /\ role[q.user] # Nothing
           /\ (q.loaded = Nothing) <=> (subs[q.user] = Nothing)
           /\ subs' = [subs EXCEPT ![q.user] = IF @ = Nothing THEN q.level ELSE @]
           /\ UNCHANGED <<Accounts, Catalogue>>
           /\ Put(r, Idle, GrantsTo(q.user) \ {r})

\* An INSERT if there was no row, which must then still not be there; else an
\* UPDATE of a row that must be there - unless the level is the one loaded, and
\* then nothing is sent. The rest ends in "Failed to set subscription".
GrantWrite(r) ==
    /\ req[r].step = "grant"
    /\ LET q == req[r]
       IN  /\ \/ q.loaded = Nothing /\ subs[q.user] = Nothing
                 /\ ownerLives /\ role[q.user] # Nothing
              \/ q.loaded # Nothing /\ (subs[q.user] # Nothing \/ q.level = q.loaded)
           /\ subs' = [subs EXCEPT ![q.user] =
                         IF q.level = q.loaded THEN @ ELSE q.level]
           /\ UNCHANGED <<Accounts, Catalogue>>
           /\ Put(r, Idle, GrantsTo(q.user) \ {r})

Revoke(u) ==
    /\ subs[u] # Nothing
    /\ subs' = [subs EXCEPT ![u] = Nothing]
    /\ UNCHANGED <<Accounts, Catalogue>>
    /\ Unattended(GrantsTo(u))

-----------------------------------------------------------------------------
(* Accounts.                                                               *)

SetRole(u, new) ==
    /\ role[u] \notin {Nothing, new}
    /\ role' = [role EXCEPT ![u] = new]
    /\ UNCHANGED <<ownerLives, subs, Catalogue>>
    /\ Unattended(Nobody)

DeleteKeepingSubs(u) ==                       \* mutant: no cascade
    /\ role[u] # Nothing
    /\ role' = [role EXCEPT ![u] = Nothing]
    /\ UNCHANGED <<ownerLives, subs, Catalogue>>
    /\ Unattended(GrantsTo(u))

DeleteCustomer(u) ==
    /\ role[u] # Nothing
    /\ role' = [role EXCEPT ![u] = Nothing]
    /\ subs' = [subs EXCEPT ![u] = Nothing]
    /\ UNCHANGED <<ownerLives, Catalogue>>
    /\ Unattended(GrantsTo(u))

\* Albums, photos and subscriptions cascade.
DeleteOwner ==
    /\ ownerLives
    /\ ownerLives' = FALSE
    /\ subs' = [u \in Customers |-> Nothing]
    /\ albums' = [a \in Albums |-> Nothing]
    /\ photos' = [p \in Photos |-> Nothing]
    /\ UNCHANGED <<role, made, taken>>
    /\ Unattended({q \in Requests : req[q].step \in {"patch", "grant"}})

Serve(r) ==
    \/ BeginFetch(r) \/ ReadAlbum(r) \/ Decide(r) \/ HandOver(r) \/ End(r)
    \/ \E a \in Albums, sent \in Patch : PatchRead(r, a, sent)
    \/ PatchWrite(r)

Manage ==
    \/ \E a \in Albums, access \in Tiers, published \in BOOLEAN :
         CreateAlbum(a, access, published)
    \/ \E a \in Albums, new \in SUBSET Photos : AddPhotos(a, new)
    \/ \E p \in Photos : DeletePhoto(p)
    \/ \E a \in Albums : DeleteAlbum(a)

Subscribe ==
    \/ \E r \in Requests, u \in Customers, level \in Levels : GrantRead(r, u, level)
    \/ \E r \in Requests : GrantWrite(r)
    \/ \E u \in Customers : Revoke(u)

People ==
    \/ \E u \in Customers : DeleteCustomer(u) \/ \E new \in Roles : SetRole(u, new)
    \/ DeleteOwner

Next == (\E r \in Requests : Serve(r)) \/ Manage \/ Subscribe \/ People

Spec == Init /\ [][Next]_vars

-----------------------------------------------------------------------------
(* Properties.                                                             *)

\* Every variable keeps its type, and a subscription has both its ends.
TypeOK ==
    /\ role \in [Customers -> Roles \cup {Nothing}] /\ ownerLives \in BOOLEAN
    /\ subs \in [Customers -> Levels \cup {Nothing}]
    /\ \A u \in Customers : subs[u] # Nothing => ownerLives /\ role[u] # Nothing
    /\ albums \in [Albums -> AlbumRow \cup {Nothing}]
    /\ made \subseteq Albums
    /\ photos \in [Photos -> Albums \cup {Nothing}]
    /\ taken \subseteq Photos
    /\ req \in [Requests -> Request]

Done(r) == req[r].step = "done"

\* access.py's rule as its docstring states it, tier by tier.
Entitled(seen) ==
    \/ seen.staff
    \/ seen.tier = "free"
    \/ seen.tier = "paid" /\ seen.level \in {"paid", "premium"}
    \/ seen.tier = "premium" /\ seen.level = "premium"

\* Whatever was tested, and whenever: a caller gets an original, or the unlock
\* flag on a page, only if he was entitled by values the columns had between
\* the start of his request and the decision - not by any they had before.  And
\* only of an album that was published at some instant of that time.
EntitledSince ==
    \A r \in Requests : Done(r) =>
        /\ req[r].seen.shown
        /\ req[r].may => req[r].user # Visitor /\ Entitled(req[r].seen)
        /\ req[r].kind # "view" => req[r].may

\* Once hidden an album stays hidden until somebody sends is_published: an edit
\* of something else, from a page loaded before, does not put it back.
HiddenStaysHidden ==
    [][\A a \in Albums :
         (albums[a] # Nothing /\ ~albums[a].published
            /\ albums'[a] # Nothing /\ albums'[a].published)
         => \E r \in Requests : /\ PatchWrite(r)
                                /\ req[r].album = a
                                /\ req[r].patch.column = "published"]_vars

\* An edit answered with 200 has taken effect when it is answered, unless
\* another edit of the album overtook it.
PatchTakes ==
    [][\A r \in Requests : (PatchWrite(r) /\ ~req[r].raced) =>
         albums'[req[r].album][req[r].patch.column] = req[r].patch.value]_vars

\* set-subscription that reports success has set the level it was given, unless
\* another command overtook it.
GrantTakes ==
    [][\A r \in Requests : (GrantWrite(r) /\ ~req[r].raced) =>
         subs'[req[r].user] = req[r].level]_vars
=============================================================================
