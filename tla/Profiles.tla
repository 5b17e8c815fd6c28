------------------------------ MODULE Profiles ------------------------------
(***************************************************************************)
(* Artist profiles: app/api/artist.py, services/slugs.py,                  *)
(* models/artist.py, and the two artists of services/seeds.py.             *)
(*                                                                         *)
(* A first save asks three things of the table in three statements - is    *)
(* there a row of mine, is there any row, is this slug free - and inserts  *)
(* what the answers told it, in a row whose id is drawn at the INSERT and  *)
(* which others see at the COMMIT.  The database keeps slugs and owners    *)
(* unique; nothing keeps the primary flag unique.                          *)
(***************************************************************************)
EXTENDS Integers, FiniteSets

CONSTANTS
    Ids,            \* user ids; the sequence never gives one twice
    Names,          \* what display names slugify to
    Seeds,          \* those of Names that a development boot seeds; else {}
    FirstSeed,      \* the seed that is flagged primary
    Requests,       \* PUT /api/artist/profile handlers running at a time
    MaxSuffix,      \* bound: highest -n suffix tried
    MaxRows,        \* bound: profile ids drawn
    NoRow

ASSUME SeedsAreNames      == Seeds \subseteq Names
ASSUME SuffixIsPositive   == MaxSuffix \in Nat \ {0}
ASSUME RowsBound          == MaxRows \in Nat
ASSUME RequestsFinite     == IsFiniteSet(Requests)
ASSUME IdsFinite          == IsFiniteSet(Ids)

Slugs == Names \X (1 .. MaxSuffix)     \* <<name, n>>: "name" or "name-n"

Row == [id : 1 .. MaxRows, slug : Slugs, primary : BOOLEAN]

ASSUME NoRowApart == NoRow \notin Row \cup Ids

VARIABLES
    up,             \* the server is past its boot
    accounts,       \* users that have a row
    born,           \* history: user ids handed out
    seeded,         \* the user id behind each seed's address, or NoRow
    profiles,       \* the row of artist_profiles by user id, or NoRow
    next,           \* the next profile id
    req             \* what each request in flight has read

vars == <<up, accounts, born, seeded, profiles, next, req>>

Idle == [step |-> "idle"]

(* "mine" has found no row of its own, "slug" also knows whether there was *)
(* any (`first') and is trying <<name, n>>; "insert" has found slug free;  *)
(* "commit" has drawn the id of its row.  "edit" holds its own row.        *)
(* `raced' is history: a row or an account came or went since the request  *)
(* began.                                                                  *)
Request ==
    {Idle}
    \cup [step : {"mine"}, user : Ids, name : Names, raced : BOOLEAN]
    \cup [step : {"slug", "insert"}, user : Ids, slug : Slugs,
          first : BOOLEAN, raced : BOOLEAN]
    \cup [step : {"commit"}, user : Ids, slug : Slugs, first : BOOLEAN,
          raced : BOOLEAN, id : 1 .. MaxRows]
    \cup [step : {"edit"}, user : Ids, name : Names, raced : BOOLEAN]

Init ==
    /\ up = FALSE
    /\ accounts = {} /\ born = {}
    /\ seeded = [s \in Seeds |-> NoRow]
    /\ profiles = [u \in Ids |-> NoRow]
    /\ next = 1
    /\ req = [r \in Requests |-> Idle]

-----------------------------------------------------------------------------
Saved == {u \in Ids : profiles[u] # NoRow}

SlugFree(slug) == \A u \in Saved : profiles[u].slug # slug

Primaries == {u \in Saved : profiles[u].primary}

BeforeNewest(u, v) ==                         \* mutant: id DESC
    \/ profiles[u].primary /\ ~profiles[v].primary
    \/ /\ profiles[u].primary = profiles[v].primary
       /\ profiles[u].id > profiles[v].id

\* ORDER BY is_primary DESC, id: the order of the roster and of the front page.
Before(u, v) ==
    \/ profiles[u].primary /\ ~profiles[v].primary
    \/ /\ profiles[u].primary = profiles[v].primary
       /\ profiles[u].id < profiles[v].id

\* get_public_profile: the first row, if any.
IsFront(u) == u \in Saved /\ \A v \in Saved \ {u} : Before(u, v)

Set(r, value) == req' = [req EXCEPT ![r] = value]

\* Whoever else is in flight has been raced.
Overtaken(r) ==
    [q \in Requests |-> IF q = r \/ req[q] = Idle THEN req[q]
                        ELSE [req[q] EXCEPT !.raced = TRUE]]

-----------------------------------------------------------------------------
(* PUT /api/artist/profile.                                                *)

SignUp(u) ==
    /\ up
    /\ u \notin born
    /\ accounts' = accounts \cup {u}
    /\ born' = born \cup {u}
    /\ UNCHANGED <<up, seeded, profiles, next, req>>

ReadMine(r, u, name) ==
    /\ up /\ req[r] = Idle
    /\ u \in accounts
    /\ Set(r, [step |-> IF profiles[u] = NoRow THEN "mine" ELSE "edit",
               user |-> u, name |-> name, raced |-> FALSE])
    /\ UNCHANGED <<up, accounts, born, seeded, profiles, next>>

ReadNobody(r) ==                              \* mutant: asks for its own row
    /\ req[r].step = "mine"
    /\ Set(r, [step |-> "slug", user |-> req[r].user, slug |-> <<req[r].name, 1>>,
               first |-> profiles[req[r].user] = NoRow, raced |-> req[r].raced])
    /\ UNCHANGED <<up, accounts, born, seeded, profiles, next>>

\* The first artist to save a profile becomes the front page's.
ReadAny(r) ==
    /\ req[r].step = "mine"
    /\ Set(r, [step |-> "slug", user |-> req[r].user, slug |-> <<req[r].name, 1>>,
               first |-> Saved = {}, raced |-> req[r].raced])
    /\ UNCHANGED <<up, accounts, born, seeded, profiles, next>>

TrySlugOnce(r) ==                             \* mutant: -2 is taken on trust
    /\ req[r].step = "slug"
    /\ LET s == req[r].slug
       IN  IF SlugFree(s) THEN Set(r, [req[r] EXCEPT !.step = "insert"])
           ELSE /\ s[2] < MaxSuffix
                /\ Set(r, [req[r] EXCEPT !.slug = <<s[1], s[2] + 1>>,
                                         !.step = "insert"])
    /\ UNCHANGED <<up, accounts, born, seeded, profiles, next>>

\* One turn of the loop of unique_artist_slug.
TrySlug(r) ==
    /\ req[r].step = "slug"
    /\ LET s == req[r].slug
       IN  IF SlugFree(s) THEN Set(r, [req[r] EXCEPT !.step = "insert"])
           ELSE /\ s[2] < MaxSuffix
                /\ Set(r, [req[r] EXCEPT !.slug = <<s[1], s[2] + 1>>])
    /\ UNCHANGED <<up, accounts, born, seeded, profiles, next>>

\* The unique constraints and the foreign key.
Accepted(r) ==
    /\ req[r].user \in accounts
    /\ profiles[req[r].user] = NoRow
    /\ SlugFree(req[r].slug)

\* The flush of commit(): the INSERT draws its id from the sequence.
Insert(r) ==
    /\ req[r].step = "insert"
    /\ next <= MaxRows
    /\ Set(r, [step |-> "commit", user |-> req[r].user, slug |-> req[r].slug,
               first |-> req[r].first, raced |-> req[r].raced, id |-> next])
    /\ next' = next + 1
    /\ UNCHANGED <<up, accounts, born, seeded, profiles>>

(* The COMMIT: the row is there for others.  An INSERT that conflicts with *)
(* an uncommitted one waits for it, and the deletion of an account waits   *)
(* for an insert that refers to it, so what the constraints say is what    *)
(* they say now.                                                           *)
Commit(r) ==
    /\ req[r].step = "commit" /\ Accepted(r)
    /\ profiles' = [profiles EXCEPT ![req[r].user] =
                      [id |-> req[r].id, slug |-> req[r].slug,
                       primary |-> req[r].first]]
    /\ req' = [Overtaken(r) EXCEPT ![r] = Idle]
    /\ UNCHANGED <<up, accounts, born, seeded, next>>

\* A rejected INSERT, an UPDATE of a row that is gone, a lost request: nothing
\* is written, and the sequence does not give back an id.
Fail(r) ==
    /\ req[r] # Idle
    /\ Set(r, Idle)
    /\ UNCHANGED <<up, accounts, born, seeded, profiles, next>>

EditAfresh(r) ==                              \* mutant: every save is a first save
    /\ req[r].step = "edit"
    /\ profiles[req[r].user] # NoRow
    /\ SlugFree(<<req[r].name, 1>>)
    /\ profiles' = [profiles EXCEPT ![req[r].user].slug = <<req[r].name, 1>>,
                                    ![req[r].user].primary = FALSE]
    /\ Set(r, Idle)
    /\ UNCHANGED <<up, accounts, born, seeded, next>>

\* The words change, the slug and the flag do not, whatever the new name.
Edit(r) ==
    /\ req[r].step = "edit"
    /\ profiles[req[r].user] # NoRow
    /\ Set(r, Idle)
    /\ UNCHANGED <<up, accounts, born, seeded, profiles, next>>

-----------------------------------------------------------------------------
\* DELETE /api/users/{id}: the profile goes by cascade.
DeleteUser(u) ==
    /\ up
    /\ u \in accounts
    /\ accounts' = accounts \ {u}
    /\ seeded' = [s \in Seeds |-> IF seeded[s] = u THEN NoRow ELSE seeded[s]]
    /\ profiles' = [profiles EXCEPT ![u] = NoRow]
    /\ req' = [q \in Requests |-> IF req[q] = Idle THEN Idle
                                  ELSE [req[q] EXCEPT !.raced = TRUE]]
    /\ UNCHANGED <<up, born, next>>

\* The process ends, and every request with it.
Stop ==
    /\ up
    /\ up' = FALSE
    /\ req' = [r \in Requests |-> Idle]
    /\ UNCHANGED <<accounts, born, seeded, profiles, next>>

(* lifespan: the seeds run, each in a transaction of its own, before the   *)
(* first request is served.                                                *)

\* _seed_user, when the address is free.
SeedUser(s) ==
    /\ ~up
    /\ seeded[s] = NoRow
    /\ \E u \in Ids \ born :
         /\ accounts' = accounts \cup {u}
         /\ born' = born \cup {u}
         /\ seeded' = [seeded EXCEPT ![s] = u]
    /\ UNCHANGED <<up, profiles, next, req>>

Unprofiled(s) == seeded[s] # NoRow /\ profiles[seeded[s]] = NoRow

\* seed_dev_artist and seed_dev_artist_two, for an account without a profile.
SeedProfile(s) ==
    /\ ~up
    /\ Unprofiled(s)
    /\ SlugFree(<<s, 1>>)
    /\ next <= MaxRows
    /\ profiles' = [profiles EXCEPT ![seeded[s]] =
                      [id |-> next, slug |-> <<s, 1>>, primary |-> s = FirstSeed]]
    /\ next' = next + 1
    /\ UNCHANGED <<up, accounts, born, seeded, req>>

Start ==
    /\ ~up
    /\ \A s \in Seeds : seeded[s] # NoRow /\ profiles[seeded[s]] # NoRow
    /\ up' = TRUE
    /\ UNCHANGED <<accounts, born, seeded, profiles, next, req>>

Save(r) ==
    \/ \E u \in Ids, name \in Names : ReadMine(r, u, name)
    \/ ReadAny(r) \/ TrySlug(r) \/ Insert(r) \/ Commit(r) \/ Edit(r) \/ Fail(r)

Boot == Start \/ \E s \in Seeds : SeedUser(s) \/ SeedProfile(s)

Next ==
    \/ \E r \in Requests : Save(r)
    \/ \E u \in Ids : SignUp(u) \/ DeleteUser(u)
    \/ Stop \/ Boot

Spec == Init /\ [][Next]_vars

-----------------------------------------------------------------------------
(* Properties.                                                             *)

\* Every variable keeps its type, and a profile has an account.
TypeOK ==
    /\ up \in BOOLEAN
    /\ accounts \subseteq born /\ born \subseteq Ids
    /\ seeded \in [Seeds -> accounts \cup {NoRow}]
    /\ profiles \in [Ids -> Row \cup {NoRow}]
    /\ Saved \subseteq accounts
    /\ next \in 1 .. (MaxRows + 1)
    /\ req \in [Requests -> Request]

\* Requests that have read an empty table and not committed yet.
Claims ==
    {r \in Requests : req[r].step \in {"slug", "insert", "commit"} /\ req[r].first}

FirstSeeded == {u \in Ids : \E s \in Seeds : seeded[s] = u}

\* models/artist.py:56 wants one primary profile.  Nothing keeps it at one: a
\* request that found the table empty flags its row whatever came since.  But
\* the rows so flagged are never more than the requests that can race, and the
\* seeded artists.
PrimariesBounded ==
    Cardinality(Primaries \ FirstSeeded) + Cardinality(Claims)
      <= Cardinality(Requests)

\* Claims whose row will come before u's: they drew their id first.
Rivals(u) == {r \in Claims : req[r].step = "commit" /\ req[r].id < profiles[u].id}

RivalTakesOver(u) ==
    \E v \in Ids : /\ IsFront(v)'
                   /\ \E r \in Rivals(u) : req[r].user = v /\ Commit(r)

\* The front page stays with its flagged artist while his account lives: no save,
\* no seed and no restart takes it from him, but a first save that also found the
\* table empty, drew its id before his and is committed after.  No new such save
\* comes up, so once those are through he is there for life.
FrontPageStays ==
    [][\A u \in Ids :
         (IsFront(u) /\ profiles[u].primary /\ u \in accounts') =>
           /\ profiles'[u].primary /\ Rivals(u)' \subseteq Rivals(u)
           /\ \/ IsFront(u)'
              \/ RivalTakesOver(u)]_vars

\* models/artist.py:29: the page of an artist keeps its address for as long as
\* he has an account, however often he renames himself.
LinksSurvive ==
    [][\A u \in Saved : u \in accounts' =>
         profiles'[u] # NoRow /\ profiles'[u].slug = profiles[u].slug]_vars

\* A first save is refused by the database only if something else was saved or
\* deleted since it began: the slug it settled on is free unless raced.
RefusedOnlyIfRaced ==
    \A r \in Requests :
        (req[r].step \in {"insert", "commit"} /\ ~Accepted(r)) => req[r].raced
=============================================================================
