----------------------------- MODULE TwoFactor -----------------------------
(***************************************************************************)
(* The second factor of a login: emailed codes (table login_codes) and     *)
(* trusted devices (table user_devices), as app/api/auth.py keeps them.    *)
(*                                                                         *)
(* A handler reads its row with one SELECT, decides in Python, and writes  *)
(* with a later UPDATE that does not test again what was read.  No row is  *)
(* locked, so between the two statements any other request, the clock, a   *)
(* prune and an account deletion may run.  `req' holds what each request   *)
(* in flight carries from its read to its write.                           *)
(***************************************************************************)
EXTENDS Integers, FiniteSets

CONSTANTS
    Users,          \* accounts that can log in
    Devices,        \* device ids a browser may send
    NoDevice,       \* the deviceId field left out of a request
    Tokens,         \* pending tokens random_token() may mint
    Codes,          \* the codes random_code() may draw
    Requests,       \* requests the server can have in flight at a time
    CodeTTL,        \* LOGIN_CODE_TTL_MINUTES, in ticks
    MaxAttempts,    \* MAX_CODE_ATTEMPTS
    MaxResends,     \* MAX_RESENDS
    TrustTTL,       \* settings.device_trust_days, in ticks
    MaxTime         \* bound: the clock stops here

ASSUME TimesAreNat ==
    /\ CodeTTL \in Nat /\ TrustTTL \in Nat /\ MaxTime \in Nat
ASSUME CapsArePositive == MaxAttempts \in Nat \ {0} /\ MaxResends \in Nat \ {0}
ASSUME RequestsAreFinite == IsFiniteSet(Requests)
ASSUME NoDeviceIsNoDevice == NoDevice \notin Devices

VARIABLES
    now,            \* the clock, shared by Python's now() and SQL's now()
    accounts,       \* users that have a row in table users
    rows,           \* login_codes, by token
    devices,        \* user_devices.expires_at, by user and device; 0: no row
    req,            \* what each request in flight holds
    mailed,         \* codes handed to the email queue, by token
    lost,           \* history: codes whose email was never queued, by token
    redeemed,       \* history: how many sessions each token has opened
    sessions        \* history: the sessions login and verify have opened

vars == <<now, accounts, rows, devices, req, mailed, lost, redeemed, sessions>>

Idle  == [step |-> "idle"]
Fresh == [state |-> "fresh"]     \* a token nobody has been given yet
Gone  == [state |-> "gone"]      \* the row was deleted

Row == [state : {"live"}, user : Users, code : Codes, created : Nat,
        expires : Nat, used : BOOLEAN, attempts : Nat, resends : Nat]

(* What a request holds between its statements.  "insert": login has found *)
(* no trusted device.  "miss"/"redeem": verify has compared the code.      *)
(* "rotate": resend has read its row, at time `at'.  "mail": the row is    *)
(* committed and _send_login_code is still to run.                         *)
Request ==
    {Idle}
    \cup [step : {"insert"}, user : Users]
    \cup [step : {"miss"}, token : Tokens]
    \cup [step : {"redeem"}, token : Tokens, user : Users,
          device : Devices \cup {NoDevice}]
    \cup [step : {"rotate"}, token : Tokens, at : Nat]
    \cup [step : {"mail"}, token : Tokens, code : Codes]

Session == [user : Users, device : Devices \cup {NoDevice},
            via : {"code", "trust"}, at : Nat]

Init ==
    /\ now = 0
    /\ accounts = Users
    /\ rows = [t \in Tokens |-> Fresh]
    /\ devices = [u \in Users |-> [d \in Devices |-> 0]]
    /\ req = [r \in Requests |-> Idle]
    /\ mailed = [t \in Tokens |-> {}]
    /\ lost = [t \in Tokens |-> {}]
    /\ redeemed = [t \in Tokens |-> 0]
    /\ sessions = {}

-----------------------------------------------------------------------------
(* The tests the handlers make on a row they have read.                    *)

Live(t) == rows[t].state = "live"

LockedLate(row) == row.attempts > MaxAttempts    \* mutant: off by one
Locked(row)  == row.attempts >= MaxAttempts
Expired(row) == now > row.expires
Maxed(row)   == row.resends >= MaxResends

\* verify_login goes on to compare the code only for such a row.
Verifiable(row) == ~row.used /\ ~Expired(row) /\ ~Locked(row)

\* resend_login_code replaces the code of such a row (it ignores attempts).
ResendableWhenLapsed(row) == ~row.used /\ ~Maxed(row)  \* mutant: no expiry test
Resendable(row) == ~row.used /\ ~Expired(row) /\ ~Maxed(row)

\* prune_db's dead-code filter.
Dead(row) == row.used \/ Expired(row)

TrustedForAnyone(u, d) ==                        \* mutant: user_id not tested
    d \in Devices /\ \E v \in Users : devices[v][d] > now
Trusted(u, d) == d \in Devices /\ devices[u][d] > now

-----------------------------------------------------------------------------
(* POST /api/login, the password already right.                            *)

\* A trusted device skips the code: the session opens at once.
LoginTrusted(r, u, d) ==
    /\ req[r] = Idle
    /\ u \in accounts
    /\ Trusted(u, d)
    /\ sessions' = sessions \cup
           {[user |-> u, device |-> d, via |-> "trust", at |-> now]}
    /\ UNCHANGED <<now, accounts, rows, devices, req, mailed, lost, redeemed>>

LoginUntrusted(r, u, d) ==
    /\ req[r] = Idle
    /\ u \in accounts
    /\ ~Trusted(u, d)
    /\ req' = [req EXCEPT ![r] = [step |-> "insert", user |-> u]]
    /\ UNCHANGED <<now, accounts, rows, devices, mailed, lost, redeemed,
                   sessions>>

\* What is left to do once the row is committed: queue the code's email.
StaleEmail(t, c) ==             \* mutant: the code as the row had it before
    [step |-> "mail", token |-> t, code |-> IF Live(t) THEN rows[t].code ELSE c]
Email(t, c) == [step |-> "mail", token |-> t, code |-> c]

\* The foreign key refuses the row once the account is gone (then Die). `created'
\* is the clock that `expires' was computed from; the column's func.now() may be
\* earlier by what the request has taken so far, and no handler reads it.
InsertCode(r) ==
    /\ req[r].step = "insert"
    /\ req[r].user \in accounts
    /\ \E t \in Tokens, c \in Codes :
         /\ rows[t] = Fresh
         /\ rows' = [rows EXCEPT ![t] =
                [state |-> "live", user |-> req[r].user, code |-> c,
                 created |-> now, expires |-> now + CodeTTL, used |-> FALSE,
                 attempts |-> 0, resends |-> 0]]
         /\ req' = [req EXCEPT ![r] = Email(t, c)]
    /\ UNCHANGED <<now, accounts, devices, mailed, lost, redeemed, sessions>>

\* _send_login_code commits the email on its own, after the row.
MailCode(r) ==
    /\ req[r].step = "mail"
    /\ mailed' = [mailed EXCEPT ![req[r].token] = @ \cup {req[r].code}]
    /\ req' = [req EXCEPT ![r] = Idle]
    /\ UNCHANGED <<now, accounts, rows, devices, lost, redeemed, sessions>>

-----------------------------------------------------------------------------
(* POST /api/login/verify: the read and the comparison...                  *)

VerifyWrong(r, t, c) ==
    /\ req[r] = Idle
    /\ Live(t)
    /\ Verifiable(rows[t])
    /\ c # rows[t].code
    /\ req' = [req EXCEPT ![r] = [step |-> "miss", token |-> t]]
    /\ UNCHANGED <<now, accounts, rows, devices, mailed, lost, redeemed,
                   sessions>>

VerifyRight(r, t, d) ==
    /\ req[r] = Idle
    /\ Live(t)
    /\ Verifiable(rows[t])
    /\ req' = [req EXCEPT ![r] =
           [step |-> "redeem", token |-> t, user |-> rows[t].user,
            device |-> d]]
    /\ UNCHANGED <<now, accounts, rows, devices, mailed, lost, redeemed,
                   sessions>>

(* ... and the write.  An UPDATE of a row deleted meanwhile touches nothing *)
(* and reports no error.                                                   *)

CountMiss(r) ==
    /\ req[r].step = "miss"
    /\ LET t == req[r].token
       IN rows' = IF Live(t) THEN [rows EXCEPT ![t].attempts = @ + 1] ELSE rows
    /\ req' = [req EXCEPT ![r] = Idle]
    /\ UNCHANGED <<now, accounts, devices, mailed, lost, redeemed, sessions>>

MarkUnused(t) == rows' = rows                    \* mutant: the UPDATE forgotten
MarkUsed(t) ==
    rows' = IF Live(t) THEN [rows EXCEPT ![t].used = TRUE] ELSE rows

TrustDeviceOnce(u, d) ==                         \* mutant: on conflict do nothing
    devices' = IF d = NoDevice \/ devices[u][d] > 0 THEN devices
               ELSE [devices EXCEPT ![u][d] = now + TrustTTL]
TrustAnyDevice(u, d) ==                          \* mutant: no test of device_id
    devices' = [devices EXCEPT ![u] = [x \in Devices \cup {d} |->
                   IF x = d THEN now + TrustTTL ELSE @[x]]]
\* Insert, or on conflict update: trust slides forward from now.
TrustDevice(u, d) ==
    devices' = IF d = NoDevice THEN devices
               ELSE [devices EXCEPT ![u][d] = now + TrustTTL]

\* One transaction.  With a device the foreign key needs the account (else
\* Die: everything rolls back); without one, nothing looks at the account.
Redeem(r) ==
    /\ req[r].step = "redeem"
    /\ req[r].device # NoDevice => req[r].user \in accounts
    /\ MarkUsed(req[r].token)
    /\ TrustDevice(req[r].user, req[r].device)
    /\ redeemed' = [redeemed EXCEPT ![req[r].token] = @ + 1]
    /\ sessions' = sessions \cup {[user |-> req[r].user,
           device |-> req[r].device, via |-> "code", at |-> now]}
    /\ req' = [req EXCEPT ![r] = Idle]
    /\ UNCHANGED <<now, accounts, mailed, lost>>

-----------------------------------------------------------------------------
(* POST /api/login/resend.                                                 *)

ResendRead(r, t) ==
    /\ req[r] = Idle
    /\ Live(t)
    /\ Resendable(rows[t])
    /\ req' = [req EXCEPT ![r] =
           [step |-> "rotate", token |-> t, at |-> now]]
    /\ UNCHANGED <<now, accounts, rows, devices, mailed, lost, redeemed,
                   sessions>>

RotatedAnew(row, c, at) ==                       \* mutant: attempts start over
    [row EXCEPT !.code = c, !.resends = @ + 1, !.expires = at + CodeTTL,
                !.attempts = 0]
\* The row as a resend that read it at time `at' leaves it.
Rotated(row, c, at) ==
    [row EXCEPT !.code = c, !.resends = @ + 1, !.expires = at + CodeTTL]

Rotate(r) ==
    /\ req[r].step = "rotate"
    /\ \E c \in Codes : LET t == req[r].token IN
         /\ rows' = IF Live(t)
                    THEN [rows EXCEPT ![t] = Rotated(rows[t], c, req[r].at)]
                    ELSE rows
         /\ req' = [req EXCEPT ![r] = Email(t, c)]
    /\ UNCHANGED <<now, accounts, devices, mailed, lost, redeemed, sessions>>

-----------------------------------------------------------------------------
(* A request that ends early: a statement fails and its transaction rolls  *)
(* back, or the server stops.  What it had committed stays.                *)
Die(r) ==
    /\ req[r] # Idle
    /\ lost' = IF req[r].step = "mail"
               THEN [lost EXCEPT ![req[r].token] = @ \cup {req[r].code}]
               ELSE lost
    /\ req' = [req EXCEPT ![r] = Idle]
    /\ UNCHANGED <<now, accounts, rows, devices, mailed, redeemed, sessions>>

(* prune_db(delete_rows=True): the login_codes and user_devices part.      *)
Prune ==
    /\ rows' = [t \in Tokens |->
           IF rows[t].state = "live" /\ Dead(rows[t]) THEN Gone ELSE rows[t]]
    /\ devices' = [u \in Users |-> [d \in Devices |->
           IF devices[u][d] <= now THEN 0 ELSE devices[u][d]]]
    /\ UNCHANGED <<now, accounts, req, mailed, lost, redeemed, sessions>>

(* DELETE /api/users/{id}: both tables cascade from users.                 *)
DeleteUser(u) ==
    /\ u \in accounts
    /\ accounts' = accounts \ {u}
    /\ rows' = [t \in Tokens |->
           IF rows[t].state = "live" /\ rows[t].user = u THEN Gone ELSE rows[t]]
    /\ devices' = [devices EXCEPT ![u] = [d \in Devices |-> 0]]
    /\ UNCHANGED <<now, req, mailed, lost, redeemed, sessions>>

Tick ==
    /\ now < MaxTime
    /\ now' = now + 1
    /\ UNCHANGED <<accounts, rows, devices, req, mailed, lost, redeemed,
                   sessions>>

Start(r) ==
    \/ \E u \in Users, d \in Devices \cup {NoDevice} :
         LoginTrusted(r, u, d) \/ LoginUntrusted(r, u, d)
    \/ \E t \in Tokens, c \in Codes : VerifyWrong(r, t, c)
    \/ \E t \in Tokens, d \in Devices \cup {NoDevice} : VerifyRight(r, t, d)
    \/ \E t \in Tokens : ResendRead(r, t)

Finish(r) ==
    InsertCode(r) \/ MailCode(r) \/ CountMiss(r) \/ Redeem(r) \/ Rotate(r)
        \/ Die(r)

Next ==
    \/ \E r \in Requests : Start(r) \/ Finish(r)
    \/ \E u \in Users : DeleteUser(u)
    \/ Prune
    \/ Tick

Spec == Init /\ [][Next]_vars

-----------------------------------------------------------------------------
(* Properties.                                                             *)

\* Every variable keeps its type.
TypeOK ==
    /\ now \in Nat
    /\ accounts \in SUBSET Users
    /\ rows \in [Tokens -> Row \cup {Fresh, Gone}]
    /\ devices \in [Users -> [Devices -> Nat]]
    /\ req \in [Requests -> Request]
    /\ mailed \in [Tokens -> SUBSET Codes]
    /\ lost \in [Tokens -> SUBSET Codes]
    /\ redeemed \in [Tokens -> Nat]
    /\ sessions \in SUBSET Session

\* The requests of f that hold a decision on token t and have still to write.
HeldIn(f, step, t) == {r \in Requests : f[r].step = step /\ f[r].token = t}
Pending(step, t)   == HeldIn(req, step, t)
Racers             == Cardinality(Requests)

\* However resends, deletions and racing guesses interleave, the wrong guesses
\* counted and about to be counted against a pending token stay below the cap
\* plus one for each request that can race (verify_login tests the cap, then
\* counts in a later statement).
GuessesBounded ==
    \A t \in Tokens : Live(t) =>
        rows[t].attempts + Cardinality(Pending("miss", t))
            <= MaxAttempts - 1 + Racers

\* A pending token opens at most one session per request that can race, and
\* once it has opened one no later verify finds it usable.
TokenSpent ==
    \A t \in Tokens :
        /\ redeemed[t] <= Racers
        /\ redeemed[t] > 0 /\ Live(t) => rows[t].used

\* A resend prolongs a code by one lifetime at most, even when the UPDATEs of
\* two resends land out of order, so resends alone bound how long a pending
\* token can be redeemed.
LifetimeBounded ==
    \A t \in Tokens : Live(t) =>
        /\ rows[t].expires <= rows[t].created + CodeTTL * (rows[t].resends + 1)
        /\ rows[t].resends <= MaxResends - 1 + Racers

\* A login that skipped the code did so on a device where the same user had
\* entered a code within the trust window.
TrustIsEarned ==
    \A s \in sessions : s.via = "trust" =>
        \E v \in sessions : /\ v.via = "code"
                            /\ v.user = s.user /\ v.device = s.device
                            /\ v.at <= s.at /\ s.at < v.at + TrustTTL

\* Trust slides: while the account stands, a device on which a code was
\* entered is trusted for the whole window from then on, whatever a prune or
\* another user of the same browser does meanwhile.
TrustSlides ==
    \A v \in sessions :
        (v.via = "code" /\ v.user \in accounts /\ now < v.at + TrustTTL)
            => v.device = NoDevice \/ Trusted(v.user, v.device)

\* The code a live row holds has been queued as an email or is about to be,
\* unless the request that drew it ended between its two commits.
CodeIsMailed ==
    \A t \in Tokens : Live(t) =>
        \/ rows[t].code \in mailed[t] \cup lost[t]
        \/ \E r \in Pending("mail", t) : req[r].code = rows[t].code

\* No step reopens a token: a row that is used, or has reached the attempts
\* cap, stays so until it is deleted, and a deleted one never comes back. In
\* particular a resend that read the row while it was open does not.
SpentStaysSpent ==
    [][\A t \in Tokens :
         /\ (Live(t) /\ Live(t)') =>
              /\ rows[t].used => rows'[t].used
              /\ Locked(rows[t]) => Locked(rows[t])'
         /\ rows[t] = Gone => rows'[t] = Gone]_vars

(* The inductive invariant behind the bounds: what a request holds came from *)
(* a row that existed, and the effects still in flight are counted in.       *)

HeldRowsExist ==
    \A r \in Requests :
        req[r].step \in {"miss", "redeem", "rotate", "mail"}
            => rows[req[r].token] # Fresh

SpendBudget ==
    \A t \in Tokens :
        /\ redeemed[t] + Cardinality(Pending("redeem", t)) <= Racers
        /\ redeemed[t] > 0 => rows[t] # Fresh /\ (Live(t) => rows[t].used)

ResendBudget ==
    \A t \in Tokens : Live(t) =>
        rows[t].resends + Cardinality(Pending("rotate", t))
            <= MaxResends - 1 + Racers

\* Neither the expiry nor the read time of a resend in flight is past the
\* lifetimes the resends counted so far have paid for.
LifetimeBudget ==
    \A t \in Tokens : Live(t) =>
        LET paid == rows[t].created + CodeTTL * (rows[t].resends + 1)
        IN  /\ rows[t].expires <= paid
            /\ \A r \in Pending("rotate", t) : req[r].at <= paid

\* Every bound above with the work in flight counted: inductive, so each step
\* of any request keeps all of it, and it gives the bounds.
Budgets ==
    HeldRowsExist /\ GuessesBounded /\ SpendBudget /\ ResendBudget
        /\ LifetimeBudget
=============================================================================
