----------------------------- MODULE WebSession -----------------------------
(***************************************************************************)
(* A browser's session: services/security.py, api/deps.py and the renewal  *)
(* middleware of main.py on one side, frontend/src/lib/api.ts,             *)
(* usePortfolio.ts, useDownload.ts and the pages on the other.             *)
(*                                                                         *)
(* The session is a signed token in localStorage, which every tab of the   *)
(* browser shares.  An answer to a token past its half life brings a fresh *)
(* one, and whichever tab gets the answer stores it, whatever is stored by *)
(* then.  Time is counted in steps; a fetch is over after MaxDelay.        *)
(***************************************************************************)
EXTENDS Integers

CONSTANTS
    Tabs,
    TTL,            \* SESSION_TTL_SECS
    Half,           \* RENEW_THRESHOLD_SECS
    MaxDelay,       \* longest time from a fetch to the use of its answer
    MaxTime,        \* bound of the clock
    MaxLogins,      \* bound of the logins
    NoToken

ASSUME TimesOrdered ==
    /\ TTL \in Nat /\ Half \in Nat /\ MaxDelay \in Nat /\ MaxTime \in Nat
    /\ Half <= TTL
    /\ MaxDelay + Half <= TTL
ASSUME LoginsBound == MaxLogins \in Nat

Times == 0 .. MaxTime

\* `login' is history: the login a token goes back to.
Token == [exp : 0 .. (MaxTime + TTL), login : 1 .. MaxLogins]

ASSUME NoTokenApart == NoToken \notin Token

VARIABLES
    now,
    stored,         \* auth_token in localStorage, or NoToken
    held,           \* the token a studio tab keeps since it was opened
    net,            \* the fetch each tab waits for
    logins,         \* history: logins so far
    lastOk,         \* history: latest authenticated answer used, or login
    leaks,          \* history: tabs the last sign-out left with a token, or
    signedOut       \* with a fetch; and whether no login came since

vars == <<now, stored, held, net, logins, lastOk, leaks, signedOut>>

(* What a fetch is for.  "me" guards a page and drops the token when it     *)
(* fails; "call" is callApi; "load" the list reloaded after one of the two; *)
(* "view" a public page, answered to anyone; "quiet" the fetches that never *)
(* look for a renewed token: downloads, uploads, the studio's lists.  An    *)
(* "answer" is a good one, its token the one a next fetch will use.  `good' *)
(* is history: when it was given, if to somebody signed in, else 0.         *)
Kinds    == {"me", "call", "load", "view", "quiet"}
Renewing == Kinds \ {"quiet"}
Leading  == {"me", "call"}            \* a list may be fetched after these

Silent == [step |-> "none"]

Fetch ==
    {Silent}
    \cup [step : {"sent", "running"}, kind : Kinds, token : Token \cup {NoToken}, at : Times]
    \cup [step : {"answer"}, kind : Kinds, token : Token \cup {NoToken},
          at : Times, renewed : Token \cup {NoToken}, good : Times]

Init ==
    /\ now = 0
    /\ stored = NoToken
    /\ held = [t \in Tabs |-> NoToken]
    /\ net = [t \in Tabs |-> Silent]
    /\ logins = 0 /\ lastOk = 0
    /\ leaks = {} /\ signedOut = TRUE

-----------------------------------------------------------------------------
(* The server.                                                             *)

Unexpired(token) == token # NoToken /\ now < token.exp

Issue(login) == [exp |-> now + TTL, login |-> login]

RenewFromExpiry(token) ==                     \* mutant: slides from its expiry
    IF Unexpired(token) /\ token.exp - now < Half
    THEN [exp |-> token.exp + TTL, login |-> token.login] ELSE NoToken

RenewNever(token) == NoToken                  \* mutant: no sliding

RenewAnyAge(token) ==                         \* mutant: an expired one, too
    IF token # NoToken /\ token.exp - now < Half THEN Issue(token.login) ELSE NoToken

\* renew_token_if_due, at the time of the answer.  The tables are not asked.
Renew(token) ==
    IF Unexpired(token) /\ token.exp - now < Half THEN Issue(token.login) ELSE NoToken

\* deps.py: a token is as good as its signature, its expiry and the account now
\* at its address, which may be gone, unverified or of another role at any time.
\* A public page is answered whoever asks.  A fetch that is refused, for its
\* account or its age, or fails in any way, ends in Bounce or Lose.
Admit(t) ==
    /\ net[t].step = "sent"
    /\ net[t].kind = "view" \/ Unexpired(net[t].token)
    /\ net' = [net EXCEPT ![t].step = "running"]
    /\ UNCHANGED <<now, stored, held, logins, lastOk, leaks, signedOut>>

\* The handler's answer, through SessionRenewalMiddleware.
Answer(t) ==
    /\ net[t].step = "running"
    /\ LET f      == net[t]
           heeded == f.kind \in Renewing
       IN  net' = [net EXCEPT ![t] =
             [step |-> "answer", kind |-> f.kind, at |-> f.at,
              token |-> IF f.kind \in Leading THEN f.token ELSE NoToken,
              renewed |-> IF heeded THEN Renew(f.token) ELSE NoToken,
              good |-> IF heeded /\ Unexpired(f.token) THEN now ELSE 0]]
    /\ UNCHANGED <<now, stored, held, logins, lastOk, leaks, signedOut>>

-----------------------------------------------------------------------------
(* The client.                                                             *)

Sent(kind, token) == [step |-> "sent", kind |-> kind, token |-> token, at |-> now]

InStudio(t) == held[t] # NoToken

\* A tab loads a page: what it waited for is gone with the page before.  The
\* dashboard and the studio start with /api/me, if there is a token.
OpenPage(t, page) ==
    /\ page \in {"dashboard", "studio"} => stored # NoToken
    /\ held' = [held EXCEPT ![t] = IF page = "studio" THEN stored ELSE NoToken]
    /\ net' = [net EXCEPT ![t] =
                 CASE page = "form"   -> Silent
                   [] page = "public" -> Sent("view", stored)
                   [] OTHER           -> Sent("me", stored)]
    /\ UNCHANGED <<now, stored, logins, lastOk, leaks, signedOut>>

\* Every page but the studio reads the stored token for each call.
CallStored(t, kind) ==
    /\ ~InStudio(t) /\ net[t] = Silent
    /\ stored # NoToken
    /\ net' = [net EXCEPT ![t] = Sent(kind, stored)]
    /\ UNCHANGED <<now, stored, held, logins, lastOk, leaks, signedOut>>

\* The studio calls with the token of its mount.
CallHeld(t, kind) ==
    /\ InStudio(t) /\ net[t] = Silent
    /\ net' = [net EXCEPT ![t] = Sent(kind, held[t])]
    /\ UNCHANGED <<now, stored, held, logins, lastOk, leaks, signedOut>>

\* renewSessionFrom: what is stored by now is overwritten.
Kept(f) == IF f.renewed # NoToken THEN f.renewed ELSE stored

\* The answer is used. A list may be fetched next, with the token of the first
\* request: the dashboard's users, the studio's own profile.
Use(t) ==
    /\ net[t].step = "answer"
    /\ LET f == net[t]
           onward == {Silent} \cup
             (IF f.kind \in Leading
              THEN {Sent(IF InStudio(t) THEN "quiet" ELSE "load", f.token)} ELSE {})
       IN  /\ stored' = Kept(f)
           /\ lastOk' = IF f.good > lastOk THEN f.good ELSE lastOk
           /\ \E next \in onward : net' = [net EXCEPT ![t] = next]
    /\ UNCHANGED <<now, held, logins, leaks, signedOut>>

\* A guard that was refused, or could not reach the server: off to the login.
Bounce(t) ==
    /\ net[t] # Silent /\ net[t].kind = "me"
    /\ stored' = NoToken
    /\ held' = [held EXCEPT ![t] = NoToken]
    /\ net' = [net EXCEPT ![t] = Silent]
    /\ UNCHANGED <<now, logins, lastOk, leaks, signedOut>>

\* Any other fetch that fails on the way is reported and forgotten.
Lose(t) ==
    /\ net[t] # Silent /\ net[t].kind # "me"
    /\ net' = [net EXCEPT ![t] = Silent]
    /\ UNCHANGED <<now, stored, held, logins, lastOk, leaks, signedOut>>

\* login, login/verify and reset-password, once they succeed.
Login(t) ==
    /\ logins < MaxLogins
    /\ ~InStudio(t) /\ net[t] = Silent
    /\ logins' = logins + 1
    /\ stored' = Issue(logins + 1)
    /\ net' = [net EXCEPT ![t] = Sent("me", Issue(logins + 1))]
    /\ lastOk' = now
    /\ leaks' = {} /\ signedOut' = FALSE
    /\ UNCHANGED <<now, held>>

OtherTabs(t) == {o \in Tabs \ {t} : InStudio(o) \/ net[o] # Silent}

SignOutInPlace(t) ==                          \* mutant: the page is not left
    /\ stored # NoToken
    /\ stored' = NoToken
    /\ held' = [held EXCEPT ![t] = NoToken]
    /\ leaks' = OtherTabs(t) /\ signedOut' = TRUE
    /\ UNCHANGED <<now, net, logins, lastOk>>

\* The token is removed and "/" is loaded, as a visitor.
SignOut(t) ==
    /\ stored # NoToken
    /\ stored' = NoToken
    /\ held' = [held EXCEPT ![t] = NoToken]
    /\ net' = [net EXCEPT ![t] = Sent("view", NoToken)]
    /\ leaks' = OtherTabs(t) /\ signedOut' = TRUE
    /\ UNCHANGED <<now, logins, lastOk>>

-----------------------------------------------------------------------------
\* No fetch takes longer than MaxDelay.
Tick ==
    /\ now < MaxTime
    /\ \A t \in Tabs : net[t] # Silent => now - net[t].at < MaxDelay
    /\ now' = now + 1
    /\ UNCHANGED <<stored, held, net, logins, lastOk, leaks, signedOut>>

Browse(t) ==
    \/ \E page \in {"form", "public", "dashboard", "studio"} : OpenPage(t, page)
    \/ \E kind \in {"call", "quiet"} : CallStored(t, kind) \/ CallHeld(t, kind)
    \/ Use(t) \/ Bounce(t) \/ Lose(t) \/ Login(t) \/ SignOut(t)

Next ==
    \/ \E t \in Tabs : Admit(t) \/ Answer(t) \/ Browse(t)
    \/ Tick

Spec == Init /\ [][Next]_vars

-----------------------------------------------------------------------------
(* Properties.                                                             *)

\* Every variable keeps its type.
TypeOK ==
    /\ now \in Times /\ signedOut \in BOOLEAN
    /\ stored \in Token \cup {NoToken}
    /\ held \in [Tabs -> Token \cup {NoToken}]
    /\ net \in [Tabs -> Fetch]
    /\ logins \in 0 .. MaxLogins /\ lastOk \in 0 .. now
    /\ leaks \subseteq Tabs

\* api.ts:16: an active user does not lose the stored session.  Renewals arrive
\* out of order and overwrite each other, yet what is stored always outlasts the
\* last successful answer by half a life, less the delay of one answer.
ActiveKeepsHalf ==
    stored # NoToken => stored.exp >= lastOk + Half - MaxDelay

\* Every token this browser has: stored, held, on its way out or back.
Everywhere ==
    ({stored} \cup {held[t] : t \in Tabs}
       \cup {net[t].token : t \in {o \in Tabs : net[o] # Silent}}
       \cup {net[t].renewed : t \in {o \in Tabs : net[o].step = "answer"}})
    \ {NoToken}

\* main.py:62: an idle session ends. Once every token that goes back to a login
\* has expired, none is ever issued from it again, whatever is still under way.
DeadStaysDead ==
    [][\A n \in 1 .. logins :
         (\A k \in Everywhere : k.login = n => k.exp <= now)
           => (\A k \in Everywhere' : k.login = n => k.exp <= now')]_vars

\* A sign-out holds, until a login, unless another tab was waiting for an answer
\* or was in the studio at that moment.
SignOutHolds == (signedOut /\ leaks = {}) => stored = NoToken

\* api.ts:18: active users never hit the hard expiry - whoever has had an answer
\* within half a life is not refused for his token's age.
NeverHardExpiry ==
    \A t \in Tabs :
        (net[t].step = "sent" /\ net[t].kind = "call" /\ net[t].at = now
           /\ Unexpired(stored) /\ now - lastOk < Half - MaxDelay)
        => Unexpired(net[t].token)
=============================================================================
