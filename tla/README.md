# Portfolio — verification project

TLA+ models, TLC checks and TLAPS proofs for the photo-portfolio application in
this repository: a Next.js client (`src/frontend`), a FastAPI backend
(`src/backend/app`) and PostgreSQL. Paths below are relative to
`src/backend/app` unless they start with `src/`.

## The system

Every handler runs as a coroutine of one server process with a database session
of its own (`db/session.py`). Postgres runs at READ COMMITTED. Handlers read
rows without locking them, decide in Python, and write with later statements
that mostly do not test again what was read; so between any two statements of a
handler any other handler, the clock, the mail worker, a CLI command
(`python -m app.cli …`, a process of its own) or a stop of the server may come.
That is the source of nearly every hard behaviour here. There are three kinds of
shared state: tables, the media directory (which has no transaction), and what
clients hold (signed tokens, device ids, pages already rendered).

### Inventory

| Component | State | Operations | Talks to | Hard part | What makes it correct |
| --- | --- | --- | --- | --- | --- |
| Two-factor login — `api/auth.py` 280–460, `models/login.py` | `login_codes`, `user_devices` | login, verify, resend; prune; cascade of an account's deletion | mail queue, sessions | test and write are separate statements; two commits per code | guesses, redemptions and lifetime of a code are bounded; trust is earned and slides; a spent code stays spent |
| Photo store — `services/uploads.py`, `services/storage.py`, `api/manage.py`, `cli.py` prune-media | `albums`, `photos`, media directory | create album, upload, delete photo/album/artist, prune | slugs, images, accounts | rows and files have no common transaction | a row's files exist and are its own; strays are collectable |
| Media tree — `services/importer.py`, `restore.py`, `relayout.py`, `placeholders.py` | the same | folder import, rebuild of rows from files, move of files, reset | photo store, boot | many files, one commit; folder names that change with the artist's profile | idempotent; no row points at where a file used to be |
| Mail queue — `services/email_queue.py`, `models/email.py` | `email_queue` | enqueue, poll, send, record, prune | all account handlers, SMTP | send and record are not atomic; stale batch; restarts | at-least-once, bounded retries, every mail settled |
| Accounts — `api/auth.py` 93–277, 463–489 | `users`, with verification and reset tokens | signup, verify, resend, forgot, reset, change password | mail queue | token read and cleared in separate statements; duplicate sign-ups | a token changes one account, at most once in sequence |
| Administration — `api/users.py`, `cli.py` | `users.role` and verification flags | create, resend, verify, role, reset, delete | accounts, mail | each admin is protected only from himself | an admin remains |
| Sessions — `services/security.py`, `main.py`, `api/deps.py` | signed tokens held by clients | issue, verify, renew past half life, gate on role and temporary password | every handler | stateless: nothing revokes a token | a token is accepted only while it and the account are good; idle sessions end |
| Artist profiles — `api/artist.py`, `services/slugs.py`, `models/artist.py` | `artist_profiles` | save, public profile, roster | photo paths (folder name has the slug) | "first profile" and "free slug" are read before the insert | addresses and the front page last |
| Access and downloads — `api/media.py`, `services/access.py`, `models/tiers.py`, `cli.py` subscriptions | `albums.access`, `is_published`, `subscriptions` | list, view, download; subscribe, revoke | sessions, photo store | tested, then the file is read | only entitled callers get originals; edits and grants that are reported have taken effect |
| Boot — `services/seeds.py`, migrations | all tables | idempotent seeds | restore, profiles | order of steps | a second boot changes nothing |
| Database upkeep — `services/maintenance.py` | `login_codes`, `user_devices`, `email_queue` | prune-db | the three tables above | runs beside the server | drops only what is dead |
| Web client — `src/frontend/src` | token in storage, token held by the studio, grid layout | fetch, renew, navigate, sign out, download | API | several tabs share one token; answers out of order | an active session lasts, an ended one stays ended |

`PROJECT.json` lists every component with its status, every hazard with the line
where it bites and the properties that cover it, and for every definition the
lines it models.

## Modules

| Module | Models | Kind |
| --- | --- | --- |
| `TwoFactor` | login codes and trusted devices | component |
| `MediaStore` | photo rows and photo files, request against request | component |
| `MediaTree` | the same rows and files over a database's life: relayout, restore, import, prune, reset, boots | component |
| `EmailQueue` | the mail table and its worker | component |
| `Outbox` | what the queue promises its callers | abstract specification |
| `Accounts` | the accounts table, mailed links, administration | component |
| `Profiles` | artist profiles, slugs, the primary flag, seeded artists | component |
| `Gallery` | albums, tiers, subscriptions, downloads | component |
| `WebSession` | session tokens, server side and in the browser's tabs | component |
| `MC…` | symmetry sets and constant functions for TLC, one for each component | instances |
| `…_proofs` | theorems, one for each component that has them | proofs |

Each component module has the same shape: constants with named assumptions;
helpers that translate the tests and updates of the code; one action per
statement group between two points where something else may run; `Next`; and
the properties. Definitions marked *mutant* are wrong variants of the definition
below them (a dropped guard, a swapped order): no specification uses them, they
are there to show that a property can fail.

How the components meet: `EmailQueue` implements `Outbox`, and `TwoFactor` and
`Accounts` use of the queue only what `Outbox` grants (a mail that was queued is
an event, `mailed`). The deletion of an account is an action of every module
whose tables cascade from it (`TwoFactor`, `MediaStore`, `MediaTree`, `Accounts`,
`Profiles`, `Gallery`). `Profiles` says when an artist first has a profile, which
in `MediaTree` is the step that changes the key of his folders. The gates a
signed-in request passes are in `Accounts`; in `WebSession` a request with a
live token may therefore be refused at any time.

### TwoFactor

`rows[t]` is the row of `login_codes` with pending token `t` (`Fresh` before it
is minted, `Gone` once deleted), `devices[u][d]` the expiry of a trusted device,
`req[r]` what request `r` carries from its SELECT to its UPDATE. `LoginTrusted`,
`LoginUntrusted`, `VerifyWrong`, `VerifyRight` and `ResendRead` are the reads
with the tests made on them; `InsertCode`, `CountMiss`, `Redeem`, `Rotate` and
`MailCode` the writes, each one transaction. `Die` ends a request between them.
`Prune`, `DeleteUser` and `Tick` run at any time. `mailed`, `lost`, `redeemed`
and `sessions` are history. The password check is taken as passed, mail is
modelled in `EmailQueue`, codes and tokens are model values (tokens never
repeat; codes may).

### MediaStore

`disk[x]` says whose bytes the three files of a photo at path `x` hold; `photos`
are the committed rows; a request holds the uncommitted rows of its batch
(`staged`) and every path it may still write or unlink (`paths`). An upload is
`UploadBegin`, then for each file `PickStem` (read of used stems, choice of a
free one), `WriteFiles`, `InsertRow` — or `RejectFile` — and `UploadEnd`. A
delete is a read, a commit and unlinks one by one. prune-media is `PruneRead`,
`PruneScan` and unlinks. A download, or any other answer that is a photo's file,
is `GetRead`, which reads the row, and `GetFile`, which opens the file at the
path that was read; who may have it is decided in between, in `Gallery`. A zip
is as many reads of paths that were read together, and has no step of its own.
An INSERT takes a key-share lock on its album's row, so
an album with an uncommitted insert cannot be deleted until the batch ends
(`Inserting`); this is the database's foreign key, modelled from how the code
relies on it. `raced` is history: the paths two requests were about at once, or
that an upload picked for an album deleted since it began.
`Stems` are pairs ⟨name, n⟩ for `name`, `name-2`, …; `SafeStem` is the identity
except on names that fill 80 characters, where the second cut drops `-n`.
Original and derived files move together: a suffix clash between originals
(`a.jpg`, `a.png`) is not told apart from one between previews. The paths of
which `BytesAsked` promises nothing, raced ones and those of long names, are
`Unsure`: there a living photo's row may show another photo's bytes, and a
download then sends them. A relayout that moves files under a download is not
modelled: it is run by hand, and a reader then finds no file, or one that
has been moved there since.

### MediaTree

A path is ⟨key, slug, stem⟩; the key of an artist is his id and whether he has a
profile (`artists/{id}/` or `artists/{id}-{slug}/`). Rows keep the path they were
made with, so a first profile (`SaveProfile`) leaves every row of the artist at
an old key until `relayout-media`: `RelayoutRead` is its one query,
`RelayoutRow` the loop's body for one photo, with `move_file`'s refusal, and
`RelayoutCommit` the commit at the end; `RelayoutDies` rolls the rows back and
leaves the files moved. A delete reads names, commits and unlinks in three steps
and may cross it, and so may sign-ups, profiles, uploads and artists' deletions,
except where a row the relayout has updated is locked. `Restore`, `Import`,
`PruneMedia`, `ResetDb` (`manage.sh` `reset_database`, files kept) and `Boot`
(the seeded artist, his album and placeholder, then a restore) are one step each
and run while nothing else does; an import, like an upload, may also stop between
its files and its commit. `schema` says whether the tables exist: prune-media on
a database without them makes them and deletes nothing. `pic`, `drawn`, `last`,
`halted`, `astray`, `calm` and `crossed` are history.

Abstractions: a profile's slug never changes (`Profiles` has that), so only its
existence is in the key; an artist who comes back, after a reset or after his
deletion, counts as the same with the same id, which after a deletion is more than
the code allows; the seeded artist is never deleted (the code would make him anew
with a new id); an upload is one step on a free path, with no delete under way,
as requests against requests are `MediaStore`'s;
folders are visited in the order of ids, which is the order of their names below
ten; the server is a development server that serves after a boot; original,
preview and thumbnail share one fate.

### EmailQueue and Outbox

`worker[w]` is the batch read by `Poll` with the attempts it read, and after
`Send` the outcome not yet recorded. `RecordSent` and `RecordFailure` write by
id from the batch, as the code does. `Abort` loses the batch: the process was
stopped (the task is cancelled at shutdown) and started again, or the database
raised and `email_worker` went round. A send that raises may have delivered.
`created` is the beginning of the enqueueing transaction (`func.now()`), so a
mail may appear behind one already sent, and the mails of one transaction tie.
`Outbox` knows verdicts and arrivals only.

### Accounts

`users[i]` is the row with id `i` (`Unborn` before the id is handed out, `Gone`
after deletion: ids do not return, addresses do), `mailed[t]` the link mailed
with token `t`. Sign-up and forgot-password are one transaction each; every other
handler is a read (`VerifyRead`, `ResetRead`, `ChangeRead`, `ResendRead`, the
`Ask…` actions, in which the caller's row passes the gates of `api/deps.py`) and
a later write by id that does not look again (`VerifyWrite`, `ResetWrite`,
`PatchRole`, …). `Operator` is whoever runs `set-role`. `resets` and `late` are
history. Login is in `TwoFactor`; the tokens of a session are in `WebSession`.

### Profiles

`profiles[u]` is the row of user `u`; a slug is ⟨name, n⟩ for `name-n`. A first
save asks in three statements whether its owner has a row (`ReadMine`), whether
anybody has (`ReadAny`), and, turn by turn of `unique_artist_slug`, whether a
slug is free (`TrySlug`). `db.commit()` is then two steps: `Insert`, the flush,
draws the row's id from the sequence, and `Commit` makes the row visible, if the
unique constraints and the foreign key still agree (`Accepted`). So ids do not
follow the order of commits: a row may appear with a lower id than one that is
there, and of the flagged rows the lowest id is the front page. A later save (`Edit`) changes no column
that is modelled. `Stop`, `SeedUser`, `SeedProfile` and `Start` are a restart of
the development server, one transaction for each seed. `raced` and `born` are
history.

### Gallery

A download is four reads: the caller's row (`BeginFetch`), the album's
(`ReadAlbum`), his subscription (`Decide`), and, of a zip or a page, the album's
photos (`HandOver`). A photo is asked for by its id alone. A PATCH of an
album is a load and a flush that writes a column only if its value is not the one
loaded (`dirty`), as is set-subscription, which moreover decides between INSERT
and UPDATE on what it read. `seen` is history of a fetch: whether the album was
published at some instant between its start and its decision, the lowest tier it
had, the highest level and role of the caller. Of photos there are the rows only,
which the commit of an upload's batch (`AddPhotos`) or of a delete changes in one
step; the files, their paths and whose bytes a download finds in them are in
`MediaStore`. One artist; the artist's and an
administrator's own access to an album, listings, and the preview and thumbnail
routes, which serve anyone, are left out.

### WebSession

A token is an expiry and, as history, the login it goes back to. `stored` is
`auth_token` in localStorage, shared by the tabs; `held[t]` the token a studio
tab took at its mount and never changes (`studio/page.tsx`); `net[t]` the fetch a
tab waits for. `Admit` and `Answer` are the server (the token tested at the
start, renewed at the end of the request); `OpenPage`, `CallStored`, `CallHeld`,
`Use`, `Bounce`, `Lose`, `Login` and `SignOut` the client. `Use` stores the
renewed token over whatever is stored by then. Fetches that never look for one
(downloads, uploads, the studio's lists) are of kind `quiet`. A fetch is over
within `MaxDelay`, the only timing assumption, which is what a browser's and a
server's time-outs give; `Tick` waits for it.

## Runs

| Run | Expect | Shows |
| --- | --- | --- |
| `two_factor_race` | pass | two requests racing on one token with prunes, deletions, deaths and the clock: `GuessesBounded`, `TokenSpent`, `LifetimeBounded`, `CodeIsMailed` and `SpentStaysSpent` |
| `two_factor_trust` | pass | two users on one device id: `TrustIsEarned`, `TrustSlides` |
| `media_race` | pass | two requests of any kind, stopped anywhere: a row has its own bytes unless its path was raced; files are shared only on raced paths; the foreign key holds; a download sends the photo asked for (`BytesAsked`) |
| `media_tree` | pass | profiles, relayouts, restores, imports, prunes, resets and boots: rows keep their pictures, a restore makes one row per file, a relayout leaves nothing for a second one and loses no picture, a second boot changes nothing, a delete takes its files |
| `email_queue` | pass | one fair worker with restarts: what a row says is true; bounded sends; nothing stranded or starved; the queue implements `Outbox`, liveness included, so every mail is settled |
| `accounts` | pass | two administrators acting on each other and on accounts deleted and signed up again, with racing requests about mailed links: `ResetSpent`, `LinksStayHome`, `VerifiedHoldsNoLink`, `DeadLinksStayDead` and `LastAdminStays` |
| `profiles` | pass | racing first saves with INSERT and COMMIT apart, restarts with a seeded artist, deletions: `PrimariesBounded`, `RefusedOnlyIfRaced`, `FrontPageStays`, `LinksSurvive` |
| `gallery` | pass | one fetch against edits, grants, roles and deletions at any instant: `EntitledSince`, `HiddenStaysHidden`, `PatchTakes`, `GrantTakes` |
| `web_session` | pass | two tabs, two logins, renewals out of order: `ActiveKeepsHalf`, `SignOutHolds`, `DeadStaysDead` |
| `media_longname` | violation | two names that fill 80 characters share one path |
| `media_rerun` | violation | a relayout that was stopped leaves a row without its file, and no later one mends it |
| `web_expiry` | violation | an active user in the studio meets the hard expiry |

Bounds. Two requests are enough for every read/write race of these handlers,
each of which has one read and one write per row; the proofs remove the bound
where they apply. `TwoFactor`: one token in the race run, because rows of
different tokens do not touch each other; two codes so that a guess can be
wrong; TTL 1 and `MaxTime` 3 so that codes lapse while held and can be prolonged
twice; caps of 2 so that one miss is not yet the cap. `MediaStore`: three photo
ids (a row, its replacement, and another), two album ids with one slug so that
a folder is reused, suffixes up to 2. `MediaTree`: two artists, of whom one is
seeded, on one folder name and one stem, so that folders, rows and files of two
owners meet; two uploads; three rows, the placeholder's among them. `EmailQueue`:
three mails against a batch of two so that one is left out; cap 2; one lost
batch; no symmetry, as the run has a liveness property. `Accounts`: three ids, so
that an account can be deleted and its address taken again beside two founders;
one token, which a signed-up account can hold and lose; two roles to give.
`Profiles`: a seeded name and another, four user ids so that seeded and signed-up
artists both come and go, slugs up to `-3`, four rows. `Gallery`: one album, as
nothing read of one album decides about another; two photos, which a batch brings
together or one by one; two requests of which one is a fetch. `WebSession`:
lifetime 4, half life 3, delay 1, so that a token is renewed, outlived and
expired within the run; in `web_expiry` one tab and a longer clock suffice.
All runs stop when ids, tokens or mails run out, so deadlock is not checked where
that is the end of the model; in `WebSession` a tab can always load a page, and
it is checked.

Fairness is used in `EmailQueue` only: `WF(Work(w))`, because `email_worker`
loops for ever around a three-second sleep while its process runs, and the
number of stops is bounded (`MaxLost`): a server that is stopped and never
started, or for ever stopped in mid-send, sends nothing. No handler is obliged
to commit, no operator to run a command and no user to come back.

### What the violations say

* `media_longname`: `photo_paths` sanitises the stem again and the cut at 80
  characters removes the `-2` that `add_photo` chose. It needs no concurrency.
* `media_rerun`: `relayout_media` moves files one by one and commits the rows at
  the end. Stopped in between, the rows roll back to the old paths; run again, it
  finds no file there, counts the row as missing and passes it over. Committing
  per photo, or accepting a file already at its new place, would close it.
* `web_expiry`: `lib/api.ts` keeps renewed tokens so that active users never hit
  the hard expiry; the studio keeps using the token of its mount, and a page that
  is open for a lifetime is refused with a good token in storage.

### What the models show beside the runs

* The attempts count of a login code can pass `MAX_CODE_ATTEMPTS` by one for each
  other racing request (`api/auth.py:372`); never by more, which is
  `GuessesBounded`. A conditional UPDATE would close it.
* A delete unlinks after its commit (`api/manage.py:312`), so an upload that
  reuses the freed name before the unlink loses its file; that is why
  `IntactUnlessRaced` excepts raced paths. prune-media reads the rows before it
  lists the directory and must not run beside an upload either.
* `patch_role` refuses to act on oneself so that an admin cannot lock himself out
  (`api/users.py:213`); `patch_verification` does not, and an unverified admin is
  refused everywhere until he verifies by mail.
* "Exactly one row should carry" the primary flag (`models/artist.py:56`): two
  racing first saves both carry it, a first profile saved before the seeds run is
  primary beside the seeded one, and once the primary artist is deleted nobody
  carries it while another profile is left. `PrimariesBounded` is what is kept.
* Of two racing first saves, both flagged, the one that drew its id first and
  commits last takes the front page from the other (`api/artist.py:192`, ordered
  by `api/artists.py:44`). `FrontPageStays` says that nobody else can, and that
  nobody can join that race once a profile is there.
* A photo whose path two uploads raced for, or whose long name another shares,
  is downloaded with the other's bytes (`services/uploads.py:120`,
  `services/storage.py:93`): the exceptions of `BytesAsked`.
* A signed-up artist who takes the slug of the second boot's seed, after the
  seeded account was deleted, makes that boot fail on the unique index
  (`services/seeds.py:557`); in `Profiles` the boot then never ends.
* Sign-out removes the stored token; another tab's answer under way, or its open
  studio, stores a renewed one again (`SignOut.tsx:28`). `SignOutHolds` names
  exactly these cases.
* A relayout refused by `move_file` points the row at another photo's file
  (`astray`), and its own file becomes a stray that prune-media deletes.
* With two server processes on one mail table a sent mail can become `pending`
  again (the failure branch writes a status from a stale batch), so `Outbox` is
  implemented with one worker only; the application starts exactly one.

Some properties except the very case in which a hazard bites, because the code
does fail there; what they say is that it fails nowhere else. `raced` (the photo
store: a path two requests were about), `crossed`, `halted`, `astray` and `calm`
(a delete, a stop, a refused move or a first profile during a relayout), `late`
(a resend overtaken by a mark), `lost` (a code whose mail was not committed) and
the `raced` edits and grants of `Gallery` are these cases, and `PROJECT.json`
names them at each hazard.

Sentences that the models contradict by their very shape have no run:
`src/backend/README.md:141,149` say roles are given from the command line only,
and `PATCH /api/users/{id}/role` gives them too (`PatchRole`);
`docs/FEATURE.md:78` says an account with a temporary password reaches nothing
else until it is changed, and `change_password` takes the same password as the
new one (`ChangeWrite`); `lib/api.ts:18` says a 403 bounces the user to the
login, and a form that fails stays where it is (`Lose`), while the dashboard
drops the token on a connection error as on a refusal (`Bounce`).

## Proofs

`tlapm` checks every theorem for all values of the constants that satisfy the
named assumptions.

* `TwoFactor_proofs`: `TypeOK`; `Budgets`; from it `GuessesBounded`,
  `TokenSpent`, `LifetimeBounded`. None of the bounds is inductive alone: a bound
  on a count says nothing of the requests that have already passed the test.
  `Budgets` adds them in. For guesses and resends, count plus decisions in
  flight stays below cap plus racers, as a decision is only taken below the cap,
  by one of finitely many requests. For redemptions, sessions opened plus
  redemptions in flight stay within the racers, and once a session is open the
  row is used, so no new redemption starts. For the lifetime, both the expiry and
  the read time of any resend in flight are within what counted resends paid for.
  `SpentStaysSpent` follows from what a write can do to a row (`Replaced` is the
  one that draws a new code, and only while the token is not used up).
  `CodeIsMailed` is inductive beside the types. `TrustIsEarned` and `TrustSlides`
  need each other and where trust comes from: `TrustBooks` adds that recorded
  trust dates from a session opened with a code and lasts its full time from
  then, whoever prunes or logs in later.
* `MediaStore_proofs`: `TypeOK`; `RowsHaveAlbums`, strengthened by
  `StagedHaveAlbums` (rows staged by an upload are its album's, which has a row):
  a delete that finds no inserted row leaves nothing staged to dangle. About
  bytes, `Settled`: at a path that is not `Unsure` - raced, or under a name
  `SafeStem` cuts - a request that may still write or unlink has it to itself,
  and what it does there is about the rows it holds. `IntactUnlessUnsure` (a row
  at any other path has its bytes) is proved for all constants;
  `IntactUnlessRaced` and `OwnPathUnlessRaced`, which the run checks, follow when
  no name is too long (`LongNames = {}`, as in that run). Without that they are
  false, which is what `media_longname` shows. `BytesAsked` is proved for long names
  too, from `Settled` and `Asking`: a photo's id is drawn once (`DrawnOnce`), so a
  row that is deleted never comes back, and while the row is there its path is the
  one the download has read; what is opened there is then the photo's.
* `MediaTree_proofs`: all that `media_tree` checks, for any artists, albums,
  stems, pictures and row bound. `TypeOK` is inductive with `Filed`: finitely many
  files (a restore turns the set of them into a sequence), every row filed under
  its album's folder, and of a relayout at work that what it found is, where it
  is still there, unchanged, and that a row is staged once, in its own album and
  under its own stem. `RowsKeepPictures` says nothing of rows a relayout has
  updated and is not inductive; `Kept` follows each row's file through the
  transaction: `Place(i)` is the staged path where there is one, else the row's;
  its file is there, no two rows share a place, and a delete that no relayout
  crossed holds the names of its own rows and of no other. That a new file comes to
  nobody's place is `AtHome` for a restore, the free stem for an upload, and
  `move_file`'s refusal for the relayout (refused, it goes astray). From `Kept`:
  `RestoredOnce` (with `AllKnown`: a finished restore has left no file unknown),
  and `DeleteTakesFiles` (with `Drawn`: a picture is in one file at most).
  `BootSettles` is from `AllKnown` and `Booted`, `RelayoutSettles` from `Placed`:
  while no first profile is saved, every row visited, or made meanwhile, is under
  its artist's key, or has no file. A file moved to the place of a row whose file is
  missing is the case that needs care: it is moved there under that row's key.
  `MovesLoseNothing`, as the file moved changes places with nothing. The proofs
  assume what the code and the database give: ids are numbers
  (`IdsAreNumbers`; `Min` is the first directory in order), a placeholder is no
  uploaded picture, and `Nothing` is neither a file's content nor a row.
* `EmailQueue_proofs`: `TypeOK`; for any number of workers `SentWasDelivered`,
  `GivenUpAfterCap`, `NoneStranded` (through `Recorded`: attempts read or
  written never exceed sends begun); for one worker `TriesBounded` (through
  `Accounted`: the batch agrees with the table, and every send is counted, lost
  or in hand), `NotStarved`, and the refinement `Safety => Promise!Safety`. A mail
  is starved if more batches pass it by than there can be work ahead of it.
  `NotStarved` bounds a count by a product of constants, and is not inductive:
  `WaitsPaid` has every batch that passes a mail by paid for with `Batch` of the
  attempts of mails queued no later, and an attempt is spent once, unless its
  batch was lost.
* `Accounts_proofs`: `TypeOK`; `Bookkeeping`; from it `ResetSpent`,
  `LinksStayHome`, `DeadLinksStayDead` and `LastAdminStays`. That a spent link is
  held by nobody needs that no *other* account holds it, which needs both that a
  link is mailed to one address and that an address has one account; that needs
  what relinking requests carry to match, and so on round: the four parts of
  `Bookkeeping` are inductive only together. `LastAdminStays` rests on
  `InFlight`: whoever orders a demotion is not its subject, so if he is still an
  administrator when it lands, one remains. `VerifiedHoldsNoLink` is inductive
  beside the types: only a resend gives a token, and it knows whom it overtook.
* `Profiles_proofs`: `TypeOK`; `LinksSurvive`; `FrontPageStays`, from
  `RosterOrdered` (no two rows share an id, committed or not, and the sequence is
  beyond them all): a row comes before the flagged one in front only if it is
  flagged and drew its id before, and then it is one of `Rivals`, who only become
  fewer, as an id drawn now is a higher one; `RefusedOnlyIfRaced`, from `Informed` (what a request that nothing raced
  has read is still so); `PrimariesBounded`, where one claim in flight is used up
  for each row that gets flagged. All rest on `Core`: no request is in flight
  while the server boots.
* `Gallery_proofs`: all that `gallery` checks. `Honest` gives `EntitledSince`:
  whatever a fetch has read, and whatever is the case now, `seen` has noticed
  something at least as permissive, so that the decision was right at some
  instant for each of album, role and grant. `Loaded` gives `PatchTakes`,
  `GrantTakes` and `HiddenStaysHidden`: a write nobody overtook finds what it
  loaded, so that leaving out a column that has not changed, or choosing UPDATE
  over INSERT, is sound.
* `WebSession_proofs`: `TypeOK`, `ActiveKeepsHalf`, `SignOutHolds`,
  `DeadStaysDead`, for any number of tabs and any lifetimes with
  `MaxDelay + Half <= TTL`. What is stored need not be the newest token, so
  `ActiveKeepsHalf` is strengthened by `Trails`: no token anywhere outlives the
  stored one by more than one delay, as a token is stored within a delay of its
  issue; a request that was answered without a renewal had half a life left, and
  so nearly has what is stored. `SignOutHolds` is strengthened by `Quiet`: every
  fetch still under way is a visitor's. `DeadStaysDead` follows from where a
  token of a step can come from (`AllDescend`).

Every property that a passing run checks is stated by a theorem, but for the
liveness half of `KeepsPromise` (that every mail is settled in the end): liveness
under fairness is not provable here, and is checked by `email_queue` for one
worker. `TypeOK` is proved for every component; only the runs of `MediaTree` and
`Gallery`, which were checked before they were proved, check it too. Likewise
`SentWasDelivered`, `Budgets`, `Bookkeeping` and the other strengthenings are left
to their theorems. What SetToSeq returns is used through `AsSequence` (each element
once, in some order), which is proved from its definition, and `Min` through `Least`.

What the proofs do not remove: the abstractions of each module, listed above, and
the atomicity chosen there (in `MediaTree` the handlers that are one step).

## Plan

1. Done: the eight component modules, `Outbox`, and the proofs above.
2. Next proofs: what holds with any number of workers of the queue beside the
   three theorems that do not ask for one; `media_race`'s properties with long
   names, by a bound on what a cut name may share.
3. Next models: positions of photos and albums; the seeded admin, client and
   subscriptions; `bestLayout` of the fitted grid against a reference definition;
   a change of `MAX_ATTEMPTS` between two runs of the server.

## Not modelled

Schemas, validation, configuration, response shapes, image derivation, mail
texts, connection plumbing and migrations have no steps to interleave; a failure
inside them is a failing step of the module that calls them. `manage.sh` and
`demo/` drive processes and a screen recorder; of them only the reset of the
database is in `MediaTree`. The customer profile is one insert of a row that
nothing reads. Of the seeds the admin, the client and the subscriptions are left
out: each is an insert of a row that is not there, and `seed_dev_subscribers`
subscribes a demo customer again whom somebody revoked. The layout of the fitted
grid (`useFittedGrids.ts`) is pure arithmetic; it reckons with a gap of 1 where
`globals.css:75` sets 13. Positions of photos and albums are a sort key only.
