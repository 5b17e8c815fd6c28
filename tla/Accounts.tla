------------------------------ MODULE Accounts ------------------------------
(***************************************************************************)
(* Accounts (table users): sign-up, the links mailed to verify an address  *)
(* or reset a password, password changes, and what administrators and the  *)
(* set-role command do to other people's accounts (app/api/auth.py,        *)
(* app/api/users.py, app/services/email_queue.py, app/cli.py).             *)
(*                                                                         *)
(* A handler reads who is calling, perhaps reads an account, and then      *)
(* writes by id without testing again what it read.  `req' holds what each *)
(* request carries from one statement to the next; between them any other  *)
(* request, the clock, or the end of the request may come.                 *)
(***************************************************************************)
EXTENDS Integers, FiniteSets

CONSTANTS
    Ids,                    \* primary keys the table may hand out
    Emails,                 \* addresses people sign up with
    Passwords,              \* passwords that pass validate_password
    Tokens,                 \* link tokens random_token() may mint
    NoToken,                \* NULL in a token column
    Requests,               \* requests in flight at a time
    Operator,               \* whoever runs the set-role command
    Grants,                 \* roles that role changes try to give
    FounderEmail,           \* the accounts there are at first: id to address
    FounderPassword,        \* and their password
    VerificationRequired,   \* settings.email_verification_required
    ResetTTL,               \* RESET_TOKEN_TTL_HOURS, in ticks
    MaxTime                 \* bound: the clock stops here

\* app/services/roles.py: a role satisfies a check for itself or below it.
Rank  == [client |-> 0, artist |-> 1, staff |-> 2, admin |-> 3]
Roles == DOMAIN Rank
HasRole(role, least) == Rank[role] >= Rank[least]

ASSUME NamesDiffer == NoToken \notin Tokens /\ Operator \notin Ids
ASSUME GrantsAreRoles == Grants \subseteq Roles
ASSUME RequestsAreFinite == IsFiniteSet(Requests)
ASSUME TimesAreNat == ResetTTL \in Nat /\ MaxTime \in Nat
ASSUME VerificationIsSet == VerificationRequired \in BOOLEAN
ASSUME FoundersAreAccounts ==
    /\ DOMAIN FounderEmail \subseteq Ids
    /\ \A i \in DOMAIN FounderEmail : FounderEmail[i] \in Emails
    /\ \A i, j \in DOMAIN FounderEmail :
           FounderEmail[i] = FounderEmail[j] => i = j
    /\ FounderPassword \in Passwords

VARIABLES
    now,        \* the clock
    users,      \* the table, by id
    req,        \* what each request in flight holds
    mailed,     \* the link mailed with each token
    resets,     \* history: how many passwords each reset link has set
    late        \* history: verification links minted for a verified account

vars == <<now, users, req, mailed, resets, late>>

Idle     == [step |-> "idle"]
Unborn   == [state |-> "unborn"]     \* an id the table has not handed out yet
Gone     == [state |-> "gone"]       \* the row was deleted; ids do not return
Unmailed == [kind |-> "none"]        \* a token nobody has been sent

Row == [state : {"live"}, email : Emails, password : Passwords, role : Roles,
        verified : BOOLEAN, temp : BOOLEAN, vtoken : Tokens \cup {NoToken},
        rtoken : Tokens \cup {NoToken}, expires : Nat]
Link == [kind : {"verify", "reset"}, to : Emails]

\* What an administrator's request goes on to do to the account it names.
Order ==
    [op : {"role"}, role : Roles] \cup [op : {"mark"}, value : BOOLEAN]
        \cup [op : {"reset", "delete", "relink"}]

(* "verify", "reset": the link's row has been found.  "change": the caller *)
(* is known and the current password right.  "relink": an unverified       *)
(* account has been found.  "order", "create": the caller's role has been  *)
(* tested (or there is none: the command).                                 *)
Request ==
    {Idle}
    \cup [step : {"verify"}, id : Ids, token : Tokens]
    \cup [step : {"reset"}, id : Ids, token : Tokens, password : Passwords]
    \cup [step : {"change"}, id : Ids, password : Passwords]
    \cup [step : {"relink"}, id : Ids, to : Emails]
    \cup [step : {"order"}, by : Ids \cup {Operator}, id : Ids, what : Order]
    \cup [step : {"create"}, by : Ids, email : Emails, password : Passwords]

AccountTypo(email, password, verified, temp, token) ==   \* mutant: no such role
    [state |-> "live", email |-> email, password |-> password,
     role |-> "user", verified |-> verified, temp |-> temp,
     vtoken |-> token, rtoken |-> NoToken, expires |-> 0]
Account(email, password, verified, temp, token) ==
    [state |-> "live", email |-> email, password |-> password,
     role |-> "client", verified |-> verified, temp |-> temp,
     vtoken |-> token, rtoken |-> NoToken, expires |-> 0]

\* The founders are verified administrators.
Init ==
    /\ now = 0
    /\ users = [i \in Ids |->
           IF i \in DOMAIN FounderEmail
           THEN [Account(FounderEmail[i], FounderPassword, TRUE, FALSE, NoToken)
                     EXCEPT !.role = "admin"]
           ELSE Unborn]
    /\ req = [r \in Requests |-> Idle]
    /\ mailed = [t \in Tokens |-> Unmailed]
    /\ resets = [t \in Tokens |-> 0]
    /\ late = {}

-----------------------------------------------------------------------------
Live(i)   == users[i].state = "live"
Taken(e)  == \E i \in Ids : Live(i) /\ users[i].email = e
Admins    == {i \in Ids : Live(i) /\ users[i].role = "admin"}
Holds(i, t) == Live(i) /\ (users[i].vtoken = t \/ users[i].rtoken = t)

ForgottenToken(t) == \A i \in Ids : ~Holds(i, t)   \* mutant: tokens come back
Unminted(t) == mailed[t] = Unmailed

\* UPDATE ... WHERE id = i: touches nothing once the row is gone.
Update(i, row) == users' = IF Live(i) THEN [users EXCEPT ![i] = row] ELSE users

MarkedOnly(row, value) == [row EXCEPT !.verified = value]  \* mutant: token kept
Marked(row, value) ==
    [row EXCEPT !.verified = value, !.vtoken = NoToken]

Chosen(row, password) ==
    [row EXCEPT !.password = password, !.temp = FALSE]

Rekeyed(row, password) == Chosen(row, password)  \* mutant: the link stays good
ResetTo(row, password) ==
    [Chosen(row, password) EXCEPT !.rtoken = NoToken, !.expires = 0]

Resettable(row, t) == [row EXCEPT !.rtoken = t, !.expires = now + ResetTTL]

-----------------------------------------------------------------------------
(* The gates every signed-in request passes, on the row it reads.          *)

Usable(i) == Live(i) /\ (VerificationRequired => users[i].verified)

\* get_current_user, then ensure_role; no administrative route is exempt from
\* the temporary-password gate.
MayAct(i, least) ==
    Usable(i) /\ ~users[i].temp /\ HasRole(users[i].role, least)

Anyone(by, id) == TRUE                           \* mutant: no self-protection
NotSelf(by, id) == by # id

-----------------------------------------------------------------------------
(* Public handlers.                                                        *)

\* POST /api/signup: the account and its mail in one transaction.  A taken
\* address fails on the unique index and changes nothing.
Signup(e, p) ==
    /\ ~Taken(e)
    /\ \E i \in Ids, t \in Tokens :
         /\ users[i] = Unborn
         /\ Unminted(t)
         /\ users' = [users EXCEPT ![i] = Account(e, p, FALSE, FALSE, t)]
         /\ mailed' = [mailed EXCEPT ![t] = [kind |-> "verify", to |-> e]]
    /\ UNCHANGED <<now, req, resets, late>>

\* GET /api/verify: find the account by its token, then write by id.
VerifyRead(r, i, t) ==
    /\ req[r] = Idle
    /\ Live(i) /\ users[i].vtoken = t
    /\ req' = [req EXCEPT ![r] = [step |-> "verify", id |-> i, token |-> t]]
    /\ UNCHANGED <<now, users, mailed, resets, late>>

VerifyWrite(r) ==
    /\ req[r].step = "verify"
    /\ Update(req[r].id, Marked(users[req[r].id], TRUE))
    /\ req' = [req EXCEPT ![r] = Idle]
    /\ UNCHANGED <<now, mailed, resets, late>>

\* POST /api/resend-verification: find an unverified account by address.
ResendRead(r, i) ==
    /\ req[r] = Idle
    /\ Live(i) /\ ~users[i].verified
    /\ req' = [req EXCEPT ![r] =
           [step |-> "relink", id |-> i, to |-> users[i].email]]
    /\ UNCHANGED <<now, users, mailed, resets, late>>

\* queue_verification_email: a new token by id and a mail to the address that
\* was read; the mail goes out even when the account is gone.
QueueVerification(r) ==
    /\ req[r].step = "relink"
    /\ \E t \in Tokens : LET i == req[r].id IN
         /\ Unminted(t)
         /\ Update(i, [users[i] EXCEPT !.vtoken = t])
         /\ mailed' = [mailed EXCEPT ![t] =
                [kind |-> "verify", to |-> req[r].to]]
         /\ late' = IF Live(i) /\ users[i].verified THEN late \cup {t} ELSE late
    /\ req' = [req EXCEPT ![r] = Idle]
    /\ UNCHANGED <<now, resets>>

\* queue_password_reset: one UPDATE finds the account and sets the token, and
\* the mail is committed with it.
QueueReset(i) ==
    /\ Live(i)
    /\ \E t \in Tokens :
         /\ Unminted(t)
         /\ users' = [users EXCEPT ![i] = Resettable(@, t)]
         /\ mailed' = [mailed EXCEPT ![t] =
                [kind |-> "reset", to |-> users[i].email]]

\* POST /api/forgot-password.
ForgotPassword(i) ==
    /\ QueueReset(i)
    /\ UNCHANGED <<now, req, resets, late>>

\* POST /api/reset-password: find the account by an unexpired token...
ResetRead(r, i, t, p) ==
    /\ req[r] = Idle
    /\ Live(i) /\ users[i].rtoken = t
    /\ users[i].expires >= now
    /\ req' = [req EXCEPT ![r] =
           [step |-> "reset", id |-> i, token |-> t, password |-> p]]
    /\ UNCHANGED <<now, users, mailed, resets, late>>

\* ... and write by id, whatever token the row holds by now.
ResetWrite(r) ==
    /\ req[r].step = "reset"
    /\ LET i == req[r].id IN
         /\ Update(i, ResetTo(users[i], req[r].password))
         /\ resets' = [resets EXCEPT ![req[r].token] =
                IF Live(i) THEN @ + 1 ELSE @]
    /\ req' = [req EXCEPT ![r] = Idle]
    /\ UNCHANGED <<now, mailed, late>>

\* POST /api/change-password: the caller's row is read once; the current
\* password is compared with that row.  A temporary password does not matter.
ChangeRead(r, i, current, p) ==
    /\ req[r] = Idle
    /\ Usable(i)
    /\ users[i].password = current
    /\ req' = [req EXCEPT ![r] = [step |-> "change", id |-> i, password |-> p]]
    /\ UNCHANGED <<now, users, mailed, resets, late>>

ChangeWrite(r) ==
    /\ req[r].step = "change"
    /\ Update(req[r].id, Chosen(users[req[r].id], req[r].password))
    /\ req' = [req EXCEPT ![r] = Idle]
    /\ UNCHANGED <<now, mailed, resets, late>>

-----------------------------------------------------------------------------
(* Administration (app/api/users.py): the caller's role, then the work.    *)

Ordered(r, by, i, what) ==
    /\ req' = [req EXCEPT ![r] =
           [step |-> "order", by |-> by, id |-> i, what |-> what]]
    /\ UNCHANGED <<now, users, mailed, resets, late>>

\* Roles and deletion are refused on oneself.
AskOverOther(r, by, i) ==
    /\ req[r] = Idle
    /\ MayAct(by, "admin")
    /\ NotSelf(by, i)
    /\ \/ \E role \in Grants : Ordered(r, by, i, [op |-> "role", role |-> role])
       \/ Ordered(r, by, i, [op |-> "delete"])

\* Verification marks and reset mails are not.
AskOverAny(r, by, i) ==
    /\ req[r] = Idle
    /\ MayAct(by, "admin")
    /\ \/ \E v \in BOOLEAN : Ordered(r, by, i, [op |-> "mark", value |-> v])
       \/ Ordered(r, by, i, [op |-> "reset"])

\* Staff may have a verification link sent.
AskRelink(r, by, i) ==
    /\ req[r] = Idle
    /\ MayAct(by, "staff")
    /\ Ordered(r, by, i, [op |-> "relink"])

\* python -m app.cli set-role: the account is looked up, then written by id.
CliSetRole(r, i) ==
    /\ req[r] = Idle
    /\ Live(i)
    /\ \E role \in Grants :
           Ordered(r, Operator, i, [op |-> "role", role |-> role])

AskCreate(r, by, e, p) ==
    /\ req[r] = Idle
    /\ MayAct(by, "admin")
    /\ req' = [req EXCEPT ![r] =
           [step |-> "create", by |-> by, email |-> e, password |-> p]]
    /\ UNCHANGED <<now, users, mailed, resets, late>>

\* The next statement of request r is op.
Due(r, op) == req[r].step = "order" /\ req[r].what.op = op

PatchRole(r) ==
    /\ Due(r, "role")
    /\ Update(req[r].id, [users[req[r].id] EXCEPT !.role = req[r].what.role])
    /\ req' = [req EXCEPT ![r] = Idle]
    /\ UNCHANGED <<now, mailed, resets, late>>

PatchVerification(r) ==
    /\ Due(r, "mark")
    /\ Update(req[r].id, Marked(users[req[r].id], req[r].what.value))
    /\ req' = [req EXCEPT ![r] = Idle]
    /\ UNCHANGED <<now, mailed, resets, late>>

AdminReset(r) ==
    /\ Due(r, "reset")
    /\ QueueReset(req[r].id)
    /\ req' = [req EXCEPT ![r] = Idle]
    /\ UNCHANGED <<now, resets, late>>

DeleteUser(r) ==
    /\ Due(r, "delete")
    /\ Update(req[r].id, Gone)
    /\ req' = [req EXCEPT ![r] = Idle]
    /\ UNCHANGED <<now, mailed, resets, late>>

RelinkToCaller(r, i) ==                          \* mutant: mailed to the caller
    [step |-> "relink", id |-> i, to |->
        IF req[r].step = "order" /\ Live(req[r].by)
        THEN users[req[r].by].email ELSE users[i].email]
Relink(r, i) == [step |-> "relink", id |-> i, to |-> users[i].email]

\* The second read of staff_resend_verification.
StaffResendRead(r) ==
    /\ Due(r, "relink")
    /\ Live(req[r].id) /\ ~users[req[r].id].verified
    /\ req' = [req EXCEPT ![r] = Relink(r, req[r].id)]
    /\ UNCHANGED <<now, users, mailed, resets, late>>

\* The address counts as verified, the password as temporary.
AdminCreate(r) ==
    /\ req[r].step = "create"
    /\ ~Taken(req[r].email)
    /\ \E i \in Ids :
         /\ users[i] = Unborn
         /\ users' = [users EXCEPT ![i] =
                Account(req[r].email, req[r].password, TRUE, TRUE, NoToken)]
    /\ req' = [req EXCEPT ![r] = Idle]
    /\ UNCHANGED <<now, mailed, resets, late>>

-----------------------------------------------------------------------------
(* A request that ends here: its account is not found or does not qualify, *)
(* an index refuses the row, the database fails, the server stops.         *)
Die(r) ==
    /\ req[r] # Idle
    /\ req' = [req EXCEPT ![r] = Idle]
    /\ UNCHANGED <<now, users, mailed, resets, late>>

Tick ==
    /\ now < MaxTime
    /\ now' = now + 1
    /\ UNCHANGED <<users, req, mailed, resets, late>>

Public ==
    \/ \E e \in Emails, p \in Passwords : Signup(e, p)
    \/ \E i \in Ids : ForgotPassword(i)

Start(r) ==
    \/ \E i \in Ids, t \in Tokens : VerifyRead(r, i, t)
    \/ \E i \in Ids : ResendRead(r, i)
    \/ \E i \in Ids, t \in Tokens, p \in Passwords : ResetRead(r, i, t, p)
    \/ \E i \in Ids, current, p \in Passwords : ChangeRead(r, i, current, p)
    \/ \E by, i \in Ids :
         AskOverOther(r, by, i) \/ AskOverAny(r, by, i) \/ AskRelink(r, by, i)
    \/ \E i \in Ids : CliSetRole(r, i)
    \/ \E by \in Ids, e \in Emails, p \in Passwords : AskCreate(r, by, e, p)

Finish(r) ==
    \/ VerifyWrite(r) \/ QueueVerification(r) \/ ResetWrite(r) \/ ChangeWrite(r)
    \/ PatchRole(r) \/ PatchVerification(r) \/ AdminReset(r) \/ DeleteUser(r)
    \/ StaffResendRead(r) \/ AdminCreate(r) \/ Die(r)

Next == Public \/ Tick \/ (\E r \in Requests : Start(r) \/ Finish(r))

Spec == Init /\ [][Next]_vars

-----------------------------------------------------------------------------
(* Properties.                                                             *)

\* Every variable keeps its type.
TypeOK ==
    /\ now \in Nat
    /\ users \in [Ids -> Row \cup {Unborn, Gone}]
    /\ req \in [Requests -> Request]
    /\ mailed \in [Tokens -> Link \cup {Unmailed}]
    /\ resets \in [Tokens -> Nat]
    /\ late \in SUBSET Tokens

Racers == Cardinality(Requests)
Resetting(t) == {r \in Requests : req[r].step = "reset" /\ req[r].token = t}

\* A reset link sets at most one password per request that can race on it
\* (reset_password clears the token in a later statement than it tests it),
\* and once it has set one no account accepts it.
ResetSpent ==
    \A t \in Tokens :
        /\ resets[t] <= Racers
        /\ resets[t] > 0 => \A i \in Ids : ~Holds(i, t)

\* A link acts on the address it was mailed to and on no other, although every
\* write goes by id after the token or the address was looked up, and accounts
\* are deleted and their addresses registered again in between.
LinksStayHome ==
    /\ \A i \in Ids : Live(i) =>
         /\ users[i].vtoken # NoToken => mailed[users[i].vtoken] =
                [kind |-> "verify", to |-> users[i].email]
         /\ users[i].rtoken # NoToken => mailed[users[i].rtoken] =
                [kind |-> "reset", to |-> users[i].email]
    /\ \A r \in Requests : req[r].step \in {"verify", "reset"} =>
         LET i == req[r].id IN Live(i) =>
             mailed[req[r].token] =
                 [kind |-> req[r].step, to |-> users[i].email]

\* A verified account has no verification link outstanding, which an old mail
\* could use to undo a later "mark unverified", except one whose resend was
\* overtaken by the verification.
VerifiedHoldsNoLink ==
    \A i \in Ids : Live(i) /\ users[i].verified =>
        users[i].vtoken \in late \cup {NoToken}

\* A link that has been used, replaced or cancelled never works again: none
\* of the writes that race can put a token back.
DeadLinksStayDead ==
    [][\A t \in Tokens :
         (mailed[t] # Unmailed /\ \A i \in Ids : ~Holds(i, t))
             => \A i \in Ids : ~Holds(i, t)']_vars

\* Whoever demotes or deletes the last administrator is the operator at the
\* command line, or an administrator who is one no longer (the role is tested
\* a statement earlier, and only demoting oneself is refused).
LastAdminStays ==
    [][(Admins # {} /\ Admins' = {}) =>
         \E r \in Requests :
             /\ req[r].step = "order" /\ req'[r] = Idle
             /\ req[r].by \notin Admins]_vars

(* The inductive invariant behind the properties above: what a request      *)
(* carries came from an account that existed and a link that was mailed.   *)

OneOwner ==
    \A i, j \in Ids :
        (Live(i) /\ Live(j) /\ users[i].email = users[j].email) => i = j

InFlight ==
    \A r \in Requests :
        /\ req[r].step \in {"verify", "reset"} =>
             users[req[r].id] # Unborn /\ ~Unminted(req[r].token)
        /\ req[r].step = "relink" =>
             /\ users[req[r].id] # Unborn
             /\ Live(req[r].id) => users[req[r].id].email = req[r].to
        /\ (req[r].step = "order" /\ req[r].what.op \in {"role", "delete"}) =>
             req[r].by # req[r].id

SpendBudget ==
    \A t \in Tokens :
        /\ resets[t] + Cardinality(Resetting(t)) <= Racers
        /\ resets[t] > 0 => ~Unminted(t) /\ \A i \in Ids : ~Holds(i, t)

\* An address has one account; what a request holds names an account that
\* existed, a link that was mailed, an address that is that account's; passwords
\* set and about to be set by a link are within the racers; links stay home.
Bookkeeping == OneOwner /\ InFlight /\ SpendBudget /\ LinksStayHome
=============================================================================
