-------------------------- MODULE WebSession_proofs --------------------------
(***************************************************************************)
(* Proofs about WebSession, for any number of tabs and any lifetimes: what *)
(* is stored outlasts the last answer, a sign-out that nothing crossed     *)
(* holds, and an expired session is never slid back to life.               *)
(***************************************************************************)
EXTENDS WebSession, TLAPS

\* No token outlives one issued now.
Young(k) == k # NoToken => k.exp <= now + TTL

\* A token in use was stored once, and what has been stored since is as good,
\* but for the delay of the answer that brought it.
Trails(k) == (k # NoToken /\ stored # NoToken) => k.exp <= stored.exp + MaxDelay

\* What a fetch has to do with the clock and with what is stored.
FetchFits(f) ==
    f # Silent =>
        /\ f.at <= now /\ now - f.at <= MaxDelay
        /\ Young(f.token) /\ Trails(f.token)
        /\ f.step = "answer" =>
             /\ f.good <= now
             /\ f.renewed # NoToken =>
                  f.at <= f.good /\ f.renewed.exp = f.good + TTL
             /\ (f.renewed = NoToken /\ f.good > 0 /\ stored # NoToken) =>
                  f.good + Half <= stored.exp + MaxDelay

Inv ==
    /\ TypeOK
    /\ Young(stored)
    /\ \A t \in Tabs : Young(held[t]) /\ Trails(held[t])
    /\ \A t \in Tabs : FetchFits(net[t])
    /\ ActiveKeepsHalf

-----------------------------------------------------------------------------
(* What the types say of one fetch.                                        *)

LEMMA TimesAreNumbers ==
    /\ TTL \in Nat /\ Half \in Nat /\ MaxDelay \in Nat /\ MaxTime \in Nat
    /\ Half <= TTL /\ MaxDelay + Half <= TTL
    /\ Times \subseteq Nat
PROOF
  BY TimesOrdered DEF Times

LEMMA FetchShape ==
    ASSUME NEW f \in Fetch
    PROVE  /\ f # Silent <=> f.step # "none"
           /\ f # Silent => f.kind \in Kinds /\ f.at \in Times
                              /\ f.token \in Token \cup {NoToken}
           /\ f # Silent => f.step \in {"sent", "running", "answer"}
           /\ f.step = "answer" =>
                f.renewed \in Token \cup {NoToken} /\ f.good \in Times
PROOF
  BY DEF Fetch, Silent

LEMMA TokenShape ==
    ASSUME NEW k \in Token
    PROVE  k.exp \in Nat /\ k.exp \in 0 .. (MaxTime + TTL) /\ k.login \in 1 .. MaxLogins
PROOF
  BY TimesAreNumbers DEF Token

\* A fetch that is sent now is well typed.
LEMMA SentTypes ==
    ASSUME now \in Times, NEW kind \in Kinds, NEW token \in Token \cup {NoToken}
    PROVE  Sent(kind, token) \in Fetch /\ Sent(kind, token) # Silent
PROOF
  BY DEF Sent, Fetch, Silent

\* A token issued now is one of Token, and nothing issued lives longer.
LEMMA IssueTypes ==
    ASSUME now \in Times, NEW n \in 1 .. MaxLogins
    PROVE  /\ Issue(n) \in Token
           /\ Issue(n).exp = now + TTL /\ Issue(n).login = n
PROOF
  BY TimesAreNumbers DEF Issue, Token, Times

\* What is renewed goes back to the login of a token that has not expired.
LEMMA RenewTypes ==
    ASSUME now \in Times, NEW k \in Token \cup {NoToken}
    PROVE  /\ Renew(k) \in Token \cup {NoToken}
           /\ Renew(k) # NoToken =>
                Unexpired(k) /\ Renew(k).exp = now + TTL /\ Renew(k).login = k.login
           /\ (Unexpired(k) /\ Renew(k) = NoToken) => k.exp >= now + Half
PROOF
  <1>1. CASE k = NoToken
    BY <1>1 DEF Renew, Unexpired
  <1>2. CASE k # NoToken
    <2>1. k \in Token /\ k.exp \in Nat /\ k.login \in 1 .. MaxLogins
      BY <1>2, TokenShape
    <2>2. /\ Issue(k.login) \in Token
          /\ Issue(k.login).exp = now + TTL /\ Issue(k.login).login = k.login
      BY <2>1, IssueTypes
    <2>3. CASE Unexpired(k) /\ k.exp - now < Half
      <3>1. Renew(k) = Issue(k.login)
        BY <2>3 DEF Renew
      <3>2. Issue(k.login) # NoToken
        BY <2>2, NoTokenApart
      <3> QED
        BY <3>1, <3>2, <2>2, <2>3
    <2>4. CASE ~(Unexpired(k) /\ k.exp - now < Half)
      BY <2>1, <2>4, TimesAreNumbers DEF Renew, Times
    <2> QED
      BY <2>3, <2>4
  <1> QED
    BY <1>1, <1>2

-----------------------------------------------------------------------------
(* What a step that takes no time does to what is known of the tokens.     *)

\* What is stored now is what was, or was renewed within one delay.
LEMMA SameTime ==
    ASSUME Inv, now' = now, stored' \in Token \cup {NoToken},
           stored' # NoToken => stored' = stored \/ now + TTL <= stored'.exp + MaxDelay,
           NEW k \in Token \cup {NoToken}, Young(k), Trails(k)
    PROVE  Young(k)' /\ Trails(k)'
PROOF
  <1>1. Young(k)'
    BY DEF Young
  <1>2. ASSUME k # NoToken, stored' # NoToken
        PROVE  k.exp <= stored'.exp + MaxDelay
    <2>1. k.exp \in Nat /\ stored'.exp \in Nat /\ now \in Nat
      BY <1>2, TokenShape, TimesAreNumbers DEF Inv, TypeOK
    <2>2. CASE stored' = stored
      BY <1>2, <2>2 DEF Trails
    <2>3. CASE now + TTL <= stored'.exp + MaxDelay
      BY <1>2, <2>1, <2>3, TimesAreNumbers DEF Young
    <2> QED
      BY <1>2, <2>2, <2>3
  <1> QED
    BY <1>1, <1>2 DEF Trails

\* The same of a fetch.
LEMMA SameTimeFetch ==
    ASSUME Inv, now' = now, stored' \in Token \cup {NoToken},
           stored' # NoToken => stored' = stored \/ now + TTL <= stored'.exp + MaxDelay,
           NEW f \in Fetch, FetchFits(f)
    PROVE  FetchFits(f)'
PROOF
  <1> SUFFICES ASSUME f # Silent PROVE FetchFits(f)'
    BY DEF FetchFits
  <1>1. f.token \in Token \cup {NoToken} /\ Young(f.token) /\ Trails(f.token)
    BY FetchShape DEF FetchFits
  <1>2. Young(f.token)' /\ Trails(f.token)'
    BY <1>1, SameTime
  <1>3. ASSUME f.step = "answer", f.renewed = NoToken, f.good > 0, stored' # NoToken
        PROVE  f.good + Half <= stored'.exp + MaxDelay
    <2>1. f.good \in Nat /\ stored'.exp \in Nat /\ now \in Nat /\ f.good <= now
      BY <1>3, FetchShape, TokenShape, TimesAreNumbers DEF Inv, TypeOK, FetchFits
    <2>2. CASE stored' = stored
      BY <1>3, <2>2 DEF FetchFits
    <2>3. CASE now + TTL <= stored'.exp + MaxDelay
      BY <2>1, <2>3, TimesAreNumbers
    <2> QED
      BY <1>3, <2>2, <2>3
  <1> QED
    BY <1>2, <1>3 DEF FetchFits

\* A fetch sent now with a token that is known.
LEMMA SentFits ==
    ASSUME Inv, now' = now, NEW kind \in Kinds, NEW token \in Token \cup {NoToken},
           Young(token)', Trails(token)'
    PROVE  Sent(kind, token) \in Fetch /\ FetchFits(Sent(kind, token))'
PROOF
  <1>1. now \in Times /\ now \in Nat
    BY TimesAreNumbers DEF Inv, TypeOK
  <1>2. PICK f : f = Sent(kind, token)
    OBVIOUS
  <1>3. f.step = "sent" /\ f.at = now /\ f.token = token
    BY <1>2 DEF Sent
  <1>4. FetchFits(f)'
    BY <1>1, <1>3, TimesAreNumbers DEF FetchFits
  <1>5. f \in Fetch
    BY <1>1, <1>2, SentTypes
  <1>6. Sent(kind, token)' = f
    BY <1>2 DEF Sent
  <1> QED
    BY <1>2, <1>4, <1>5, <1>6

\* A step of tab t that takes no time: it leaves its own fetch as v, holds its
\* token or another known one, and stores something or not.
LEMMA TabStep ==
    ASSUME Inv, NEW t \in Tabs, NEW v \in Fetch, NEW h \in Token \cup {NoToken},
           now' = now, stored' \in Token \cup {NoToken},
           stored' # NoToken => stored' = stored \/ now + TTL <= stored'.exp + MaxDelay,
           Young(stored)', ActiveKeepsHalf',
           net' = [net EXCEPT ![t] = v], held' = [held EXCEPT ![t] = h],
           FetchFits(v)', Young(h)', Trails(h)',
           logins' \in 0 .. MaxLogins, lastOk' \in 0 .. now,
           leaks' \subseteq Tabs, signedOut' \in BOOLEAN
    PROVE  Inv'
PROOF
  <1>1. TypeOK'
    BY DEF Inv, TypeOK
  <1>2. ASSUME NEW o \in Tabs PROVE Young(held[o])' /\ Trails(held[o])'
    <2>1. CASE o = t
      <3>1. held'[o] = h
        BY <2>1 DEF Inv, TypeOK
      <3> QED
        BY <3>1 DEF Young, Trails
    <2>2. CASE o # t
      <3>1. PICK k : k = held[o]
        OBVIOUS
      <3>2. k \in Token \cup {NoToken} /\ Young(k) /\ Trails(k) /\ held'[o] = k
        BY <2>2, <3>1 DEF Inv, TypeOK
      <3>3. Young(k)' /\ Trails(k)'
        BY <3>2, SameTime
      <3> QED
        BY <3>2, <3>3 DEF Young, Trails
    <2> QED
      BY <2>1, <2>2
  <1>3. ASSUME NEW o \in Tabs PROVE FetchFits(net[o])'
    <2>1. CASE o = t
      <3>1. net'[o] = v
        BY <2>1 DEF Inv, TypeOK
      <3> QED
        BY <3>1 DEF FetchFits, Young, Trails
    <2>2. CASE o # t
      <3>1. PICK f : f = net[o]
        OBVIOUS
      <3>2. f \in Fetch /\ FetchFits(f) /\ net'[o] = f
        BY <2>2, <3>1 DEF Inv, TypeOK
      <3>3. FetchFits(f)'
        BY <3>2, SameTimeFetch
      <3> QED
        BY <3>2, <3>3 DEF FetchFits, Young, Trails
    <2> QED
      BY <2>1, <2>2
  <1> QED
    BY <1>1, <1>2, <1>3 DEF Inv

-----------------------------------------------------------------------------
(* One lemma for each action.                                              *)

LEMMA InitInv == Init => Inv
PROOF
  BY TimesOrdered, LoginsBound
  DEF Init, Inv, TypeOK, Times, Fetch, Young, Trails, FetchFits, ActiveKeepsHalf

\* What holds of the fetch of one tab, and of the token it holds.
LEMMA OfTab ==
    ASSUME Inv, NEW t \in Tabs
    PROVE  /\ now \in Times /\ now \in Nat /\ lastOk \in 0 .. now
           /\ stored \in Token \cup {NoToken} /\ held[t] \in Token \cup {NoToken}
           /\ net[t] \in Fetch /\ FetchFits(net[t])
           /\ Young(stored) /\ Trails(stored)
           /\ Young(held[t]) /\ Trails(held[t])
           /\ Young(NoToken) /\ Trails(NoToken)
PROOF
  <1>1. stored # NoToken => stored.exp \in Nat
    BY TokenShape DEF Inv, TypeOK
  <1> QED
    BY <1>1, TimesAreNumbers DEF Inv, TypeOK, Young, Trails

LEMMA AdmitInv == ASSUME Inv, NEW t \in Tabs, Admit(t) PROVE Inv'
PROOF
  <1>1. PICK f : f = net[t]
    OBVIOUS
  <1>2. f \in Fetch /\ FetchFits(f) /\ f # Silent /\ f.step = "sent"
    BY <1>1, OfTab DEF Admit, Fetch, Silent
  <1>3. PICK v : v = [f EXCEPT !.step = "running"]
    OBVIOUS
  <1>4. /\ v \in Fetch /\ v # Silent /\ v.step = "running"
        /\ v.at = f.at /\ v.token = f.token
    BY <1>2, <1>3 DEF Fetch, Silent
  <1>5. FetchFits(v)
    BY <1>2, <1>4 DEF FetchFits
  <1>6. net' = [net EXCEPT ![t] = v]
    BY <1>1, <1>3 DEF Admit
  <1>7. held' = [held EXCEPT ![t] = held[t]]
    BY DEF Admit, Inv, TypeOK
  <1>8. /\ FetchFits(v)' /\ Young(stored)' /\ ActiveKeepsHalf'
        /\ Young(held[t]) /\ Trails(held[t])
    BY <1>5, OfTab DEF Admit, FetchFits, Young, Trails, ActiveKeepsHalf, Inv
  <1>9. PICK h : h = held[t]
    OBVIOUS
  <1>10. Young(h)' /\ Trails(h)'
    BY <1>8, <1>9 DEF Admit, Young, Trails
  <1> QED
    BY <1>4, <1>6, <1>7, <1>8, <1>9, <1>10, TabStep, OfTab DEF Admit, Inv, TypeOK

LEMMA AnswerInv == ASSUME Inv, NEW t \in Tabs, Answer(t) PROVE Inv'
PROOF
  <1>1. PICK f : f = net[t]
    OBVIOUS
  <1>2. f \in Fetch /\ FetchFits(f) /\ f # Silent /\ f.step = "running"
    BY <1>1, OfTab DEF Answer, Fetch, Silent
  <1>3. PICK renewed, good :
          /\ renewed = (IF f.kind \in Renewing THEN Renew(f.token) ELSE NoToken)
          /\ good = (IF f.kind \in Renewing /\ Unexpired(f.token) THEN now ELSE 0)
    OBVIOUS
  <1>4. PICK v : v = [step |-> "answer", kind |-> f.kind, at |-> f.at,
                      token |-> IF f.kind \in Leading THEN f.token ELSE NoToken,
                      renewed |-> renewed, good |-> good]
    OBVIOUS
  <1>5. /\ f.kind \in Kinds /\ f.at \in Times /\ f.token \in Token \cup {NoToken}
        /\ now \in Times /\ now \in Nat /\ f.at \in Nat
    BY <1>2, FetchShape, OfTab, TimesAreNumbers
  <1>6. /\ renewed \in Token \cup {NoToken}
        /\ renewed # NoToken => good = now /\ renewed.exp = now + TTL
        /\ (renewed = NoToken /\ good > 0) => f.token # NoToken /\ f.token.exp >= now + Half
        /\ good \in Times /\ good <= now
    BY <1>3, <1>5, RenewTypes, TimesAreNumbers DEF Times, Unexpired
  <1>7. v \in Fetch /\ v # Silent
    BY <1>4, <1>5, <1>6 DEF Fetch, Silent
  <1>8. ASSUME renewed = NoToken, good > 0, stored # NoToken
        PROVE  good + Half <= stored.exp + MaxDelay
    <2>1. f.token.exp <= stored.exp + MaxDelay
      BY <1>2, <1>6, <1>8 DEF FetchFits, Trails
    <2>2. f.token.exp \in Nat /\ stored.exp \in Nat /\ good \in Nat
      BY <1>5, <1>6, <1>8, TokenShape, OfTab, TimesAreNumbers
    <2> QED
      BY <1>5, <1>6, <1>8, <2>1, <2>2, TimesAreNumbers
  <1>9. Young(v.token) /\ Trails(v.token)
    BY <1>2, <1>4, OfTab DEF FetchFits
  <1>10. FetchFits(v)
    BY <1>2, <1>4, <1>5, <1>6, <1>8, <1>9 DEF FetchFits
  <1>11. net' = [net EXCEPT ![t] = v]
    BY <1>1, <1>3, <1>4 DEF Answer
  <1>12. held' = [held EXCEPT ![t] = held[t]]
    BY DEF Answer, Inv, TypeOK
  <1>13. PICK h : h = held[t]
    OBVIOUS
  <1>14. /\ FetchFits(v)' /\ Young(stored)' /\ ActiveKeepsHalf'
         /\ Young(h)' /\ Trails(h)'
    BY <1>10, <1>13, OfTab DEF Answer, FetchFits, Young, Trails, ActiveKeepsHalf, Inv
  <1> QED
    BY <1>7, <1>11, <1>12, <1>13, <1>14, TabStep, OfTab DEF Answer, Inv, TypeOK

\* A step that only sends something, or forgets it, and may change what is held.
LEMMA SendStep ==
    ASSUME Inv, NEW t \in Tabs, NEW v \in Fetch, NEW h \in Token \cup {NoToken},
           FetchFits(v)', Young(h), Trails(h),
           net' = [net EXCEPT ![t] = v], held' = [held EXCEPT ![t] = h],
           UNCHANGED <<now, stored, logins, lastOk, leaks, signedOut>>
    PROVE  Inv'
PROOF
  <1>1. Young(stored)' /\ ActiveKeepsHalf' /\ Young(h)' /\ Trails(h)'
    BY DEF Inv, Young, Trails, ActiveKeepsHalf
  <1> QED
    BY <1>1, TabStep, OfTab DEF Inv, TypeOK

LEMMA SilentFits == Silent \in Fetch /\ FetchFits(Silent)
PROOF
  BY DEF Fetch, FetchFits

\* Something is sent with what is stored or held.
LEMMA KnownSent ==
    ASSUME Inv, UNCHANGED <<now, stored>>, NEW kind \in Kinds,
           NEW token \in Token \cup {NoToken}, Young(token), Trails(token)
    PROVE  Sent(kind, token) \in Fetch /\ FetchFits(Sent(kind, token))'
PROOF
  <1>1. Young(token)' /\ Trails(token)'
    BY DEF Young, Trails
  <1> QED
    BY <1>1, SentFits

LEMMA OpenPageInv ==
    ASSUME Inv, NEW t \in Tabs, NEW page \in {"form", "public", "dashboard", "studio"},
           OpenPage(t, page)
    PROVE  Inv'
PROOF
  <1>1. PICK h : h = IF page = "studio" THEN stored ELSE NoToken
    OBVIOUS
  <1>2. h \in Token \cup {NoToken} /\ Young(h) /\ Trails(h)
    BY <1>1, OfTab
  <1>3. held' = [held EXCEPT ![t] = h] /\ UNCHANGED <<now, stored>>
    BY <1>1 DEF OpenPage
  <1>4. PICK v : v = CASE page = "form"   -> Silent
                       [] page = "public" -> Sent("view", stored)
                       [] OTHER           -> Sent("me", stored)
    OBVIOUS
  <1>5. net' = [net EXCEPT ![t] = v]
    BY <1>4 DEF OpenPage
  <1>6. v \in Fetch /\ FetchFits(v)'
    <2>1. /\ Sent("view", stored) \in Fetch /\ FetchFits(Sent("view", stored))'
          /\ Sent("me", stored) \in Fetch /\ FetchFits(Sent("me", stored))'
      BY <1>3, KnownSent, OfTab DEF Kinds
    <2>2. CASE page = "form"
      BY <1>4, <2>2, SilentFits DEF FetchFits
    <2>3. CASE page = "public"
      BY <1>3, <1>4, <2>1, <2>3 DEF FetchFits, Young, Trails, Sent
    <2>4. CASE page \in {"dashboard", "studio"}
      BY <1>3, <1>4, <2>1, <2>4 DEF FetchFits, Young, Trails, Sent
    <2> QED
      BY <2>2, <2>3, <2>4
  <1> QED
    BY <1>2, <1>3, <1>5, <1>6, SendStep DEF OpenPage

LEMMA CallInv ==
    ASSUME Inv, NEW t \in Tabs, NEW kind \in {"call", "quiet"},
           CallStored(t, kind) \/ CallHeld(t, kind)
    PROVE  Inv'
PROOF
  <1>1. PICK h : h = held[t]
    OBVIOUS
  <1>2. held' = [held EXCEPT ![t] = h]
    BY <1>1 DEF CallStored, CallHeld, Inv, TypeOK
  <1>3. PICK token \in {stored, h} : net' = [net EXCEPT ![t] = Sent(kind, token)]
    BY <1>1 DEF CallStored, CallHeld
  <1>4. token \in Token \cup {NoToken} /\ Young(token) /\ Trails(token)
    BY <1>1, <1>3, OfTab
  <1>5. PICK v : v = Sent(kind, token)
    OBVIOUS
  <1>6. v \in Fetch /\ FetchFits(v)'
    BY <1>4, <1>5, KnownSent
       DEF CallStored, CallHeld, Kinds, FetchFits, Young, Trails, Sent
  <1> QED
    BY <1>1, <1>2, <1>3, <1>5, <1>6, SendStep, OfTab DEF CallStored, CallHeld

LEMMA LoseInv == ASSUME Inv, NEW t \in Tabs, Lose(t) PROVE Inv'
PROOF
  <1>1. PICK h : h = held[t]
    OBVIOUS
  <1>2. held' = [held EXCEPT ![t] = h] /\ FetchFits(Silent)'
    BY <1>1 DEF Lose, Inv, TypeOK, FetchFits
  <1> QED
    BY <1>1, <1>2, SendStep, SilentFits, OfTab DEF Lose

\* A step that drops what is stored, and leaves tab t with a fetch or none.
LEMMA DropStep ==
    ASSUME Inv, NEW t \in Tabs, NEW v \in Fetch,
           v # Silent => v.step = "sent" /\ v.at = now /\ v.token = NoToken,
           now' = now, stored' = NoToken,
           net' = [net EXCEPT ![t] = v], held' = [held EXCEPT ![t] = NoToken],
           UNCHANGED <<logins, lastOk>>,
           leaks' \subseteq Tabs, signedOut' \in BOOLEAN
    PROVE  Inv'
PROOF
  <1>1. Young(stored)' /\ ActiveKeepsHalf' /\ Young(NoToken)' /\ Trails(NoToken)'
    BY DEF Young, Trails, ActiveKeepsHalf
  <1>2. FetchFits(v)'
    BY OfTab, TimesAreNumbers DEF FetchFits, Young, Trails
  <1> QED
    BY <1>1, <1>2, TabStep, OfTab DEF Inv, TypeOK

LEMMA BounceInv == ASSUME Inv, NEW t \in Tabs, Bounce(t) PROVE Inv'
PROOF
  BY DropStep, SilentFits DEF Bounce, Inv, TypeOK

LEMMA SignOutInv == ASSUME Inv, NEW t \in Tabs, SignOut(t) PROVE Inv'
PROOF
  <1>1. PICK v : v = Sent("view", NoToken)
    OBVIOUS
  <1>2. v \in Fetch /\ v.step = "sent" /\ v.at = now /\ v.token = NoToken
    BY <1>1, SentTypes, OfTab DEF Kinds, Sent
  <1> QED
    BY <1>1, <1>2, DropStep DEF SignOut, OtherTabs

LEMMA LoginInv == ASSUME Inv, NEW t \in Tabs, Login(t) PROVE Inv'
PROOF
  <1>1. PICK k : k = Issue(logins + 1)
    OBVIOUS
  <1>2. logins + 1 \in 1 .. MaxLogins
    BY LoginsBound DEF Login, Inv, TypeOK
  <1>3. /\ k \in Token /\ k.exp = now + TTL /\ stored' = k /\ now' = now
        /\ now \in Nat /\ now \in Times
    BY <1>1, <1>2, IssueTypes, OfTab DEF Login
  <1>4. k.exp >= now + Half - MaxDelay /\ now + TTL <= k.exp + MaxDelay
    BY <1>3, TimesAreNumbers
  <1>5. Young(k)' /\ Trails(k)' /\ Young(stored)' /\ ActiveKeepsHalf'
    BY <1>3, <1>4, TimesAreNumbers DEF Young, Trails, ActiveKeepsHalf, Login
  <1>6. PICK v : v = Sent("me", k)
    OBVIOUS
  <1>7. v \in Fetch /\ FetchFits(v)'
    BY <1>3, <1>5, <1>6, SentFits DEF Kinds, FetchFits, Young, Trails, Sent
  <1>8. net' = [net EXCEPT ![t] = v]
    BY <1>1, <1>6 DEF Login
  <1>9. PICK h : h = held[t]
    OBVIOUS
  <1>10. h \in Token \cup {NoToken} /\ Young(h)' /\ Trails(h)'
    BY <1>3, <1>4, <1>9, OfTab, SameTime
  <1>11. held' = [held EXCEPT ![t] = h]
    BY <1>9 DEF Login, Inv, TypeOK
  <1>12. logins' \in 0 .. MaxLogins /\ lastOk' \in 0 .. now
    BY <1>2, <1>3 DEF Login
  <1> QED
    BY <1>3, <1>4, <1>5, <1>7, <1>8, <1>10, <1>11, <1>12, TabStep DEF Login

\* The renewed token was issued within one delay, and the last answer used is
\* not later than now.
LEMMA KeptFits ==
    ASSUME Inv, NEW t \in Tabs, Use(t)
    PROVE  /\ stored' \in Token \cup {NoToken} /\ lastOk' \in 0 .. now
           /\ stored' # NoToken => stored' = stored \/ now + TTL <= stored'.exp + MaxDelay
           /\ Young(stored)' /\ ActiveKeepsHalf'
PROOF
  <1>1. PICK f : f = net[t]
    OBVIOUS
  <1>2. f \in Fetch /\ FetchFits(f) /\ f # Silent /\ f.step = "answer"
    BY <1>1, OfTab DEF Use, Fetch, Silent
  <1>3. /\ f.renewed \in Token \cup {NoToken} /\ f.good \in Nat /\ f.at \in Nat
        /\ f.good <= now /\ now \in Nat /\ lastOk \in 0 .. now /\ now - f.at <= MaxDelay
    BY <1>2, FetchShape, OfTab, TimesAreNumbers DEF FetchFits
  <1>4. /\ stored' = (IF f.renewed # NoToken THEN f.renewed ELSE stored)
        /\ lastOk' = (IF f.good > lastOk THEN f.good ELSE lastOk)
        /\ now' = now
    BY <1>1 DEF Use, Kept
  <1>5. lastOk' \in 0 .. now
    BY <1>3, <1>4
  <1>6. CASE f.renewed # NoToken
    <2>1. stored' = f.renewed /\ stored'.exp = f.good + TTL /\ f.at <= f.good
      BY <1>2, <1>4, <1>6 DEF FetchFits
    <2>2. now + TTL <= stored'.exp + MaxDelay /\ stored'.exp <= now + TTL
      BY <1>3, <2>1, TimesAreNumbers
    <2>3. stored'.exp >= lastOk' + Half - MaxDelay
      BY <1>3, <1>5, <2>1, TimesAreNumbers
    <2> QED
      BY <1>3, <1>4, <1>5, <2>1, <2>2, <2>3 DEF Young, ActiveKeepsHalf
  <1>7. CASE f.renewed = NoToken
    <2>1. stored' = stored
      BY <1>4, <1>7
    <2>2. ASSUME stored # NoToken PROVE stored.exp >= lastOk' + Half - MaxDelay
      <3>1. stored.exp \in Nat
        BY <2>2, OfTab, TokenShape
      <3>2. CASE f.good > lastOk
        <4>1. f.good > 0 /\ lastOk' = f.good
          BY <1>3, <1>4, <3>2
        <4>2. f.good + Half <= stored.exp + MaxDelay
          BY <1>2, <1>7, <2>2, <4>1 DEF FetchFits
        <4> QED
          BY <1>3, <3>1, <4>1, <4>2, TimesAreNumbers
      <3>3. CASE ~(f.good > lastOk)
        BY <1>4, <2>2, <3>3 DEF Inv, ActiveKeepsHalf
      <3> QED
        BY <3>2, <3>3
    <2> QED
      BY <1>4, <1>5, <2>1, <2>2, OfTab DEF Young, ActiveKeepsHalf
  <1> QED
    BY <1>6, <1>7

LEMMA UseInv == ASSUME Inv, NEW t \in Tabs, Use(t) PROVE Inv'
PROOF
  <1>1. PICK f, h : f = net[t] /\ h = held[t]
    OBVIOUS
  <1>2. f \in Fetch /\ FetchFits(f) /\ f # Silent
    BY <1>1, OfTab DEF Use, Silent
  <1>3. /\ stored' \in Token \cup {NoToken} /\ lastOk' \in 0 .. now
        /\ stored' # NoToken => stored' = stored \/ now + TTL <= stored'.exp + MaxDelay
        /\ Young(stored)' /\ ActiveKeepsHalf'
    BY KeptFits
  <1>4. now' = now /\ held' = [held EXCEPT ![t] = h]
    BY <1>1 DEF Use, Inv, TypeOK
  <1>5. h \in Token \cup {NoToken} /\ Young(h)' /\ Trails(h)'
    BY <1>1, <1>3, <1>4, OfTab, SameTime
  <1>6. f.token \in Token \cup {NoToken} /\ Young(f.token)' /\ Trails(f.token)'
    BY <1>2, <1>3, <1>4, FetchShape, SameTime DEF FetchFits
  <1>7. PICK v \in {Silent, Sent("quiet", f.token), Sent("load", f.token)} :
          net' = [net EXCEPT ![t] = v]
    BY <1>1 DEF Use
  <1>8. v \in Fetch /\ FetchFits(v)'
    <2>1. CASE v = Silent
      BY <2>1, SilentFits DEF FetchFits
    <2>2. ASSUME NEW kind \in Kinds, v = Sent(kind, f.token)
          PROVE  v \in Fetch /\ FetchFits(v)'
      <3>1. PICK token : token = f.token
        OBVIOUS
      <3>2. Young(token)' /\ Trails(token)' /\ v = Sent(kind, token)
        BY <1>6, <2>2, <3>1 DEF Young, Trails
      <3>3. v \in Fetch /\ FetchFits(Sent(kind, token))'
        BY <1>4, <1>6, <3>1, <3>2, SentFits
      <3> QED
        BY <1>4, <3>2, <3>3 DEF FetchFits, Young, Trails, Sent
    <2> QED
      BY <1>7, <2>1, <2>2 DEF Kinds
  <1>9. UNCHANGED <<logins, leaks, signedOut>>
    BY DEF Use
  <1> QED
    BY <1>3, <1>4, <1>5, <1>7, <1>8, <1>9, TabStep DEF Inv, TypeOK

LEMMA TickInv == ASSUME Inv, Tick PROVE Inv'
PROOF
  <1>1. /\ now \in Nat /\ now' = now + 1 /\ now' \in Times /\ lastOk \in 0 .. now
        /\ UNCHANGED <<stored, held, net, logins, lastOk, leaks, signedOut>>
    BY TimesAreNumbers DEF Tick, Inv, TypeOK, Times
  <1>2. TypeOK' /\ ActiveKeepsHalf'
    BY <1>1 DEF Inv, TypeOK, ActiveKeepsHalf
  <1>3. ASSUME NEW k \in Token \cup {NoToken}, Young(k) PROVE Young(k)'
    BY <1>1, <1>3, TokenShape, TimesAreNumbers DEF Young
  <1>4. ASSUME NEW t \in Tabs
        PROVE  Young(held[t])' /\ Trails(held[t])' /\ FetchFits(net[t])'
    <2>1. PICK h, f : h = held[t] /\ f = net[t]
      OBVIOUS
    <2>2. /\ h \in Token \cup {NoToken} /\ Young(h) /\ Trails(h)
          /\ f \in Fetch /\ FetchFits(f) /\ held'[t] = h /\ net'[t] = f
      BY <1>1, <2>1, OfTab
    <2>3. Young(h)' /\ Trails(h)'
      BY <1>1, <1>3, <2>2 DEF Trails
    <2>4. ASSUME f # Silent PROVE FetchFits(f)'
      <3>1. /\ f.token \in Token \cup {NoToken} /\ Young(f.token) /\ Trails(f.token)
            /\ f.at \in Nat /\ f.at <= now
        BY <2>2, <2>4, FetchShape, TimesAreNumbers DEF FetchFits
      <3>2. Young(f.token)' /\ Trails(f.token)'
        BY <1>1, <1>3, <3>1 DEF Trails
      <3>3. now' - f.at <= MaxDelay /\ f.at <= now'
        BY <1>1, <2>1, <2>4, <3>1, TimesAreNumbers DEF Tick
      <3>4. f.step = "answer" => f.good <= now'
        <4> SUFFICES ASSUME f.step = "answer" PROVE f.good <= now'
          OBVIOUS
        <4>1. f.good \in Nat
          BY <2>2, FetchShape, TimesAreNumbers
        <4>2. f.good <= now
          BY <2>2, <2>4 DEF FetchFits
        <4> QED
          BY <1>1, <4>1, <4>2
      <3> QED
        BY <1>1, <2>2, <2>4, <3>2, <3>3, <3>4 DEF FetchFits
    <2>5. FetchFits(f)'
      BY <2>4 DEF FetchFits
    <2> QED
      BY <2>2, <2>3, <2>5 DEF FetchFits, Young, Trails
  <1> QED
    BY <1>1, <1>2, <1>3, <1>4 DEF Inv, TypeOK

LEMMA StepInv == Inv /\ [Next]_vars => Inv'
PROOF
  <1> SUFFICES ASSUME Inv, [Next]_vars PROVE Inv'
    OBVIOUS
  <1>1. CASE UNCHANGED vars
    BY <1>1 DEF vars, Inv, TypeOK, Young, Trails, FetchFits, ActiveKeepsHalf
  <1>2. CASE Tick
    BY <1>2, TickInv
  <1>3. ASSUME NEW t \in Tabs, Admit(t) \/ Answer(t) PROVE Inv'
    BY <1>3, AdmitInv, AnswerInv
  <1>4. ASSUME NEW t \in Tabs, Browse(t) PROVE Inv'
    BY <1>4, OpenPageInv, CallInv, UseInv, BounceInv, LoseInv, LoginInv, SignOutInv
       DEF Browse
  <1> QED
    BY <1>1, <1>2, <1>3, <1>4 DEF Next

THEOREM Invariance == Spec => []Inv
PROOF
  BY InitInv, StepInv, PTL DEF Spec

\* Every variable keeps its type; that lastOk is never ahead of the clock needs
\* what is known of every answer under way.
THEOREM TypeCorrect == Spec => []TypeOK
PROOF
  <1>1. Inv => TypeOK
    BY DEF Inv
  <1> QED
    BY <1>1, Invariance, PTL

\* However many tabs write the token they were given over the one stored, in
\* whatever order, what is stored outlasts the last good answer by half a life
\* less one delay (renewSessionFrom, api.ts).
THEOREM ActiveKeeps == Spec => []ActiveKeepsHalf
PROOF
  <1>1. Inv => ActiveKeepsHalf
    BY DEF Inv
  <1> QED
    BY <1>1, Invariance, PTL

-----------------------------------------------------------------------------
(* A sign-out that no other tab crossed.                                   *)

\* A fetch that can bring no token back.
Visitor(f) ==
    \/ f = Silent
    \/ /\ f.kind = "view" /\ f.token = NoToken
       /\ f.step = "answer" => f.renewed = NoToken

Quiet ==
    (signedOut /\ leaks = {}) =>
        /\ stored = NoToken
        /\ \A t \in Tabs : held[t] = NoToken /\ Visitor(net[t])

LEMMA QuietInit == Init => Quiet
PROOF
  BY DEF Init, Quiet, Visitor

\* A step of tab t that leaves it without a token, and stores none.
LEMMA QuietTab ==
    ASSUME Inv, Quiet, NEW t \in Tabs, NEW v \in Fetch, Visitor(v),
           signedOut, leaks = {}, stored' = NoToken,
           net' = [net EXCEPT ![t] = v],
           held' = held \/ held' = [held EXCEPT ![t] = NoToken]
    PROVE  Quiet'
PROOF
  <1>1. ASSUME NEW o \in Tabs PROVE held'[o] = NoToken /\ Visitor(net[o])'
    <2>1. held'[o] = NoToken
      BY DEF Quiet, Inv, TypeOK
    <2>2. PICK f : f = net'[o]
      OBVIOUS
    <2>3. f = v \/ f = net[o]
      BY <2>2 DEF Inv, TypeOK
    <2>4. Visitor(f)
      BY <2>3 DEF Quiet
    <2> QED
      BY <2>1, <2>2, <2>4 DEF Visitor
  <1> QED
    BY <1>1 DEF Quiet

LEMMA QuietStep == Inv /\ Quiet /\ [Next]_vars => Quiet'
PROOF
  <1> SUFFICES ASSUME Inv, Quiet, [Next]_vars, signedOut', leaks' = {} PROVE Quiet'
    BY DEF Quiet
  <1>1. CASE UNCHANGED vars
    BY <1>1 DEF vars, Quiet, Visitor
  <1>2. CASE Tick
    BY <1>2 DEF Tick, Quiet, Visitor
  <1>3. ASSUME NEW t \in Tabs, signedOut, leaks = {}, Admit(t) \/ Answer(t)
        PROVE  Quiet'
    <2>1. PICK f : f = net[t]
      OBVIOUS
    <2>2. /\ f \in Fetch /\ f # Silent /\ f.kind = "view" /\ f.token = NoToken
          /\ f.step \in {"sent", "running"} /\ f.at \in Times /\ stored = NoToken
      BY <1>3, <2>1, OfTab, FetchShape DEF Quiet, Visitor, Admit, Answer, Silent
    <2>3. CASE Admit(t)
      <3>1. PICK v : v = [f EXCEPT !.step = "running"]
        OBVIOUS
      <3>2. v \in Fetch /\ Visitor(v) /\ net' = [net EXCEPT ![t] = v]
        BY <2>1, <2>2, <2>3, <3>1 DEF Fetch, Silent, Visitor, Admit
      <3> QED
        BY <1>3, <2>2, <2>3, <3>2, QuietTab DEF Admit
    <2>4. CASE Answer(t)
      <3>1. Renew(f.token) = NoToken /\ ~Unexpired(f.token)
        BY <2>2 DEF Renew, Unexpired
      <3>2. PICK v : v = [step |-> "answer", kind |-> "view", at |-> f.at,
                          token |-> NoToken, renewed |-> NoToken, good |-> 0]
        OBVIOUS
      <3>3. v \in Fetch /\ Visitor(v)
        BY <2>2, <3>2, TimesOrdered DEF Fetch, Kinds, Times, Visitor
      <3>4. net' = [net EXCEPT ![t] = v]
        BY <2>1, <2>2, <2>4, <3>1, <3>2 DEF Answer, Renewing, Leading, Kinds
      <3> QED
        BY <1>3, <2>2, <2>4, <3>3, <3>4, QuietTab DEF Answer
    <2> QED
      BY <1>3, <2>3, <2>4
  <1>4. ASSUME NEW t \in Tabs, SignOut(t) PROVE Quiet'
    <2>1. ASSUME NEW o \in Tabs PROVE held'[o] = NoToken /\ Visitor(net[o])'
      <3>1. CASE o = t
        <4>1. net'[o] = Sent("view", NoToken) /\ held'[o] = NoToken
          BY <1>4, <3>1 DEF SignOut, Inv, TypeOK
        <4> QED
          BY <4>1 DEF Visitor, Sent
      <3>2. CASE o # t
        <4>1. o \notin OtherTabs(t)
          BY <1>4 DEF SignOut
        <4>2. held[o] = NoToken /\ net[o] = Silent
          BY <3>2, <4>1 DEF OtherTabs, InStudio
        <4>3. held'[o] = NoToken /\ net'[o] = Silent
          BY <1>4, <3>2, <4>2 DEF SignOut, Inv, TypeOK
        <4> QED
          BY <4>3 DEF Visitor
      <3> QED
        BY <3>1, <3>2
    <2> QED
      BY <1>4, <2>1 DEF SignOut, Quiet
  <1>5. ASSUME NEW t \in Tabs, Browse(t), ~SignOut(t) PROVE Quiet'
    <2>1. ~Login(t)
      BY DEF Login
    <2>2. signedOut /\ leaks = {} /\ stored = NoToken /\ held[t] = NoToken
      BY <1>5, <2>1
      DEF Browse, OpenPage, CallStored, CallHeld, Use, Bounce, Lose, Quiet
    <2>3. ASSUME NEW page \in {"form", "public", "dashboard", "studio"}, OpenPage(t, page)
          PROVE  Quiet'
      <3>1. page \in {"form", "public"} /\ stored' = NoToken
        BY <2>2, <2>3 DEF OpenPage
      <3>2. PICK v \in {Silent, Sent("view", NoToken)} : net' = [net EXCEPT ![t] = v]
        BY <2>2, <2>3, <3>1 DEF OpenPage
      <3>3. v \in Fetch /\ Visitor(v)
        BY <3>2, SentTypes, SilentFits, OfTab DEF Visitor, Sent, Kinds
      <3>4. held' = [held EXCEPT ![t] = NoToken]
        BY <2>3, <3>1 DEF OpenPage
      <3> QED
        BY <2>2, <3>1, <3>2, <3>3, <3>4, QuietTab
    <2>4. ASSUME NEW kind \in {"call", "quiet"}, CallStored(t, kind) \/ CallHeld(t, kind)
          PROVE  Quiet'
      BY <2>2, <2>4 DEF CallStored, CallHeld, InStudio
    <2>5. CASE Use(t)
      <3>1. PICK f : f = net[t]
        OBVIOUS
      <3>2. f.kind = "view" /\ f.renewed = NoToken
        BY <2>2, <2>5, <3>1 DEF Use, Quiet, Visitor, Silent
      <3>3. net' = [net EXCEPT ![t] = Silent] /\ stored' = NoToken
        BY <2>2, <2>5, <3>1, <3>2 DEF Use, Leading, Kept
      <3> QED
        BY <2>2, <2>5, <3>3, QuietTab, SilentFits DEF Use, Visitor
    <2>6. CASE Bounce(t) \/ Lose(t)
      BY <2>2, <2>6, QuietTab, SilentFits DEF Bounce, Lose, Visitor
    <2> QED
      BY <1>5, <2>1, <2>3, <2>4, <2>5, <2>6 DEF Browse
  <1>6. ASSUME NEW t \in Tabs, Admit(t) \/ Answer(t) PROVE signedOut /\ leaks = {}
    BY <1>6 DEF Admit, Answer
  <1> QED
    BY <1>1, <1>2, <1>3, <1>4, <1>5, <1>6 DEF Next

\* Unless another tab was in the studio or waiting when the user signed out, no
\* answer brings the session back before the next login (SignOut.tsx).
THEOREM SignOutIsFinal == Spec => []SignOutHolds
PROOF
  <1>1. Quiet => SignOutHolds
    BY DEF Quiet, SignOutHolds
  <1> QED
    BY <1>1, Invariance, QuietInit, QuietStep, PTL DEF Spec

-----------------------------------------------------------------------------
(* An expired session.                                                     *)

\* Where a token of a step comes from: it was somewhere, it renews one that had
\* not expired, or a new login brought it.
Descends(k) ==
    \/ k \in Everywhere
    \/ \E j \in Everywhere : j.login = k.login /\ now < j.exp
    \/ k.login = logins + 1

LEMMA EverywhereHas ==
    ASSUME NEW t \in Tabs, NEW k, k # NoToken,
           \/ k = stored \/ k = held[t]
           \/ net[t] # Silent /\ k = net[t].token
           \/ net[t].step = "answer" /\ k = net[t].renewed
    PROVE  k \in Everywhere
PROOF
  BY DEF Everywhere

LEMMA EverywhereTyped == Inv => Everywhere \subseteq Token
PROOF
  <1> SUFFICES ASSUME Inv, NEW k \in Everywhere PROVE k \in Token
    OBVIOUS
  <1>1. CASE k = stored
    BY <1>1 DEF Everywhere, Inv, TypeOK
  <1>2. ASSUME NEW t \in Tabs, k = held[t] PROVE k \in Token
    BY <1>2 DEF Everywhere, Inv, TypeOK
  <1>3. ASSUME NEW t \in Tabs, net[t] # Silent, k = net[t].token PROVE k \in Token
    BY <1>3, FetchShape DEF Everywhere, Inv, TypeOK
  <1>4. ASSUME NEW t \in Tabs, net[t].step = "answer", k = net[t].renewed PROVE k \in Token
    BY <1>4, FetchShape DEF Everywhere, Inv, TypeOK
  <1> QED
    BY <1>1, <1>2, <1>3, <1>4 DEF Everywhere

\* A step of one tab adds what the tab stores, holds, sends and is answered.
LEMMA TabAdds ==
    ASSUME Inv, NEW t \in Tabs, NEW v \in Fetch, NEW h,
           net' = [net EXCEPT ![t] = v], held' = [held EXCEPT ![t] = h],
           stored' # NoToken => Descends(stored'), h # NoToken => Descends(h),
           v # Silent /\ v.token # NoToken => Descends(v.token),
           v.step = "answer" /\ v.renewed # NoToken => Descends(v.renewed),
           NEW k \in Everywhere'
    PROVE  Descends(k)
PROOF
  <1>0. k # NoToken
    BY DEF Everywhere
  <1>1. CASE k = stored'
    BY <1>0, <1>1
  <1>2. ASSUME NEW o \in Tabs, k = held'[o] PROVE Descends(k)
    <2>1. k = h \/ k = held[o]
      BY <1>2 DEF Inv, TypeOK
    <2> QED
      BY <1>0, <2>1, EverywhereHas DEF Descends
  <1>3. ASSUME NEW o \in Tabs, net'[o] # Silent, k = net'[o].token PROVE Descends(k)
    <2>1. net'[o] = v \/ net'[o] = net[o]
      BY DEF Inv, TypeOK
    <2> QED
      BY <1>0, <1>3, <2>1, EverywhereHas DEF Descends
  <1>4. ASSUME NEW o \in Tabs, net'[o].step = "answer", k = net'[o].renewed
        PROVE  Descends(k)
    <2>1. net'[o] = v \/ net'[o] = net[o]
      BY DEF Inv, TypeOK
    <2> QED
      BY <1>0, <1>4, <2>1, EverywhereHas DEF Descends
  <1> QED
    BY <1>1, <1>2, <1>3, <1>4 DEF Everywhere

LEMMA AllDescend ==
    ASSUME Inv, Next, NEW k \in Everywhere' PROVE Descends(k)
PROOF
  <1>1. CASE Tick
    BY <1>1 DEF Tick, Everywhere, Descends
  <1>2. ASSUME NEW t \in Tabs, Admit(t) PROVE Descends(k)
    <2>1. PICK f, v : f = net[t] /\ v = [f EXCEPT !.step = "running"]
      OBVIOUS
    <2>2. f \in Fetch /\ f.step = "sent" /\ f # Silent
      BY <1>2, <2>1, OfTab DEF Admit, Silent
    <2>3. v \in Fetch /\ v.token = f.token /\ v.step = "running"
      BY <2>1, <2>2 DEF Fetch, Silent
    <2>4. net' = [net EXCEPT ![t] = v] /\ held' = [held EXCEPT ![t] = held[t]]
      BY <1>2, <2>1 DEF Admit, Inv, TypeOK
    <2>5. /\ stored' = stored
          /\ stored # NoToken => Descends(stored)
          /\ held[t] # NoToken => Descends(held[t])
          /\ f.token # NoToken => Descends(f.token)
      BY <1>2, <2>1, <2>2, EverywhereHas DEF Admit, Descends
    <2> QED
      BY <2>3, <2>4, <2>5, TabAdds
  <1>3. ASSUME NEW t \in Tabs, Answer(t) PROVE Descends(k)
    <2>1. PICK f, v : f = net[t] /\ v = net'[t]
      OBVIOUS
    <2>2. /\ f \in Fetch /\ f # Silent /\ f.token \in Token \cup {NoToken}
          /\ now \in Times
      BY <1>3, <2>1, OfTab, FetchShape DEF Answer, Silent
    <2>3. /\ net' = [net EXCEPT ![t] = v] /\ held' = [held EXCEPT ![t] = held[t]]
          /\ v \in Fetch /\ stored' = stored
          /\ v.token \in {f.token, NoToken}
          /\ v.renewed \in {Renew(f.token), NoToken}
      <3>1. PICK a : a =
              [step |-> "answer", kind |-> f.kind, at |-> f.at,
               token |-> IF f.kind \in Leading THEN f.token ELSE NoToken,
               renewed |-> IF f.kind \in Renewing THEN Renew(f.token) ELSE NoToken,
               good |-> IF f.kind \in Renewing /\ Unexpired(f.token) THEN now ELSE 0]
        OBVIOUS
      <3>0. net' = [net EXCEPT ![t] = a]
        BY <1>3, <2>1, <3>1 DEF Answer
      <3>5. v = a
        BY <2>1, <3>0 DEF Inv, TypeOK
      <3>2. v.token \in {f.token, NoToken} /\ v.renewed \in {Renew(f.token), NoToken}
        BY <3>1, <3>5
      <3>3. v \in Fetch
        BY <1>3, <2>1, AnswerInv DEF Inv, TypeOK
      <3>4. net' = [net EXCEPT ![t] = v] /\ held' = [held EXCEPT ![t] = held[t]]
        BY <1>3, <3>0, <3>5 DEF Answer, Inv, TypeOK
      <3> QED
        BY <1>3, <3>2, <3>3, <3>4 DEF Answer
    <2>4. f.token # NoToken => f.token \in Everywhere
      BY <2>1, <2>2, EverywhereHas
    <2>5. Renew(f.token) # NoToken => Descends(Renew(f.token))
      <3>1. Renew(f.token) # NoToken =>
              /\ f.token # NoToken /\ now < f.token.exp
              /\ Renew(f.token).login = f.token.login
        BY <2>2, RenewTypes DEF Unexpired
      <3> QED
        BY <2>4, <3>1 DEF Descends
    <2>6. /\ stored' # NoToken => Descends(stored')
          /\ held[t] # NoToken => Descends(held[t])
          /\ v.token # NoToken => Descends(v.token)
          /\ v.renewed # NoToken => Descends(v.renewed)
      BY <2>3, <2>4, <2>5, EverywhereHas DEF Descends
    <2> QED
      BY <2>3, <2>6, TabAdds
  <1>4. ASSUME NEW t \in Tabs, Browse(t) PROVE Descends(k)
    <2>1. PICK v, h : v = net'[t] /\ h = held'[t]
      OBVIOUS
    <2>2. Inv'
      BY <1>4, StepInv DEF Next
    <2>3. net' = [net EXCEPT ![t] = v] /\ held' = [held EXCEPT ![t] = h]
      <3>1. \E w : net' = [net EXCEPT ![t] = w]
        BY <1>4 DEF Browse, OpenPage, CallStored, CallHeld, Use, Bounce, Lose, Login, SignOut
      <3>2. held' = held \/ \E w : held' = [held EXCEPT ![t] = w]
        BY <1>4 DEF Browse, OpenPage, CallStored, CallHeld, Use, Bounce, Lose, Login, SignOut
      <3> QED
        BY <2>1, <3>1, <3>2 DEF Inv, TypeOK
    <2>4. v \in Fetch
      BY <2>1, <2>2 DEF Inv, TypeOK
    <2>5. CASE Login(t)
      <3>1. PICK j : j = Issue(logins + 1)
        OBVIOUS
      <3>2. PICK w : w = Sent("me", j)
        OBVIOUS
      <3>3. stored' = j /\ net' = [net EXCEPT ![t] = w] /\ held' = held
        BY <2>5, <3>1, <3>2 DEF Login
      <3>4. v = w /\ h = held[t]
        BY <2>1, <3>3 DEF Inv, TypeOK
      <3>5. v.step = "sent" /\ v.token = j
        BY <3>2, <3>4 DEF Sent
      <3>6. Descends(j)
        BY <3>1 DEF Descends, Issue
      <3>7. h # NoToken => Descends(h)
        BY <3>4, EverywhereHas DEF Descends
      <3> QED
        BY <2>3, <2>4, <3>3, <3>5, <3>6, <3>7, TabAdds
    <2>6. CASE Use(t)
      <3>1. PICK f : f = net[t]
        OBVIOUS
      <3>2. /\ stored' \in {stored, f.renewed} /\ f.step = "answer" /\ f # Silent
            /\ h = held[t]
            /\ v # Silent => v.step = "sent" /\ v.token = f.token
        BY <2>1, <2>6, <3>1 DEF Use, Kept, Sent, Silent, Inv, TypeOK
      <3>3. /\ stored' # NoToken => Descends(stored')
            /\ h # NoToken => Descends(h)
            /\ f.token # NoToken => Descends(f.token)
        BY <3>1, <3>2, EverywhereHas DEF Descends
      <3> QED
        BY <2>3, <2>4, <3>2, <3>3, TabAdds DEF Silent
    <2>7. CASE ~Login(t) /\ ~Use(t)
      <3>1. /\ stored' \in {stored, NoToken} /\ h \in {stored, held[t], NoToken}
            /\ v # Silent => v.step = "sent" /\ v.token \in {stored, held[t], NoToken}
        BY <1>4, <2>1, <2>7 DEF Browse, OpenPage, CallStored, CallHeld, Bounce, Lose,
                                SignOut, Sent, Silent, Inv, TypeOK
      <3>2. /\ stored # NoToken => Descends(stored)
            /\ held[t] # NoToken => Descends(held[t])
        BY EverywhereHas DEF Descends
      <3> QED
        BY <2>3, <2>4, <3>1, <3>2, TabAdds DEF Silent
    <2> QED
      BY <2>5, <2>6, <2>7
  <1> QED
    BY <1>1, <1>2, <1>3, <1>4 DEF Next

LEMMA DeadStep ==
    ASSUME Inv, Next, NEW n \in 1 .. logins,
           \A k \in Everywhere : k.login = n => k.exp <= now,
           NEW k \in Everywhere', k.login = n
    PROVE  k.exp <= now'
PROOF
  <1>1. now \in Nat /\ logins \in Nat /\ now <= now' /\ now' \in Nat
    <2>1. now' = now \/ now' = now + 1
      BY DEF Next, Browse, Tick, Admit, Answer, OpenPage, CallStored, CallHeld, Use,
             Bounce, Lose, Login, SignOut
    <2> QED
      BY <2>1, TimesAreNumbers, LoginsBound DEF Inv, TypeOK
  <1>2. Descends(k)
    BY AllDescend
  <1>3. ~ \E j \in Everywhere : j.login = k.login /\ now < j.exp
    <2>1. ASSUME NEW j \in Everywhere, j.login = k.login, now < j.exp PROVE FALSE
      <3>1. j.exp \in Nat /\ j.exp <= now
        BY <2>1, EverywhereTyped, TokenShape
      <3> QED
        BY <1>1, <2>1, <3>1
    <2> QED
      BY <2>1
  <1>4. k \in Everywhere
    BY <1>1, <1>2, <1>3 DEF Descends
  <1>5. k.exp \in Nat /\ k.exp <= now
    BY <1>4, EverywhereTyped, TokenShape
  <1> QED
    BY <1>1, <1>5

\* Once every token of a login has expired, wherever it is, none is ever issued
\* from it again: an idle session ends (renew_token_if_due, security.py).
THEOREM DeadForGood == Spec => DeadStaysDead
PROOF
  <1>1. Inv /\ [Next]_vars =>
          [\A n \in 1 .. logins :
             (\A k \in Everywhere : k.login = n => k.exp <= now)
               => (\A k \in Everywhere' : k.login = n => k.exp <= now')]_vars
    BY DeadStep
  <1> QED
    BY <1>1, Invariance, PTL DEF Spec, DeadStaysDead
=============================================================================
