------------------------- MODULE TwoFactor_proofs --------------------------
(***************************************************************************)
(* Proofs about TwoFactor: type correctness, the bounds on guesses,        *)
(* redemptions and lifetime, that a spent code stays spent and a live one  *)
(* has been mailed, and that trust is earned and slides; for any           *)
(* number of users, devices, tokens, codes and racing requests, and any    *)
(* caps and lifetimes.                                                     *)
(***************************************************************************)
EXTENDS TwoFactor, FiniteSetTheorems, TLAPS

-----------------------------------------------------------------------------
(* What the type invariant says of a request in flight and of a row.       *)

\* A request that holds a token holds one of Tokens, with the fields its step
\* needs.
LEMMA HeldTypes ==
  ASSUME TypeOK, NEW r \in Requests
  PROVE  /\ req[r].step \in {"miss", "redeem", "rotate", "mail"}
              => req[r].token \in Tokens
         /\ req[r].step = "insert" => req[r].user \in Users
         /\ req[r].step = "redeem" =>
              req[r].user \in Users /\ req[r].device \in Devices \cup {NoDevice}
         /\ req[r].step = "rotate" => req[r].at \in Nat
         /\ req[r].step = "mail" => req[r].code \in Codes
BY DEF TypeOK, Request, Idle

\* A live entry of rows is a row.
LEMMA LiveRow ==
  ASSUME TypeOK, NEW t \in Tokens, Live(t)
  PROVE  rows[t] \in Row
BY DEF TypeOK, Live, Fresh, Gone

\* The UPDATEs of the handlers keep a row a row.
LEMMA RowUpdates ==
  ASSUME NEW row \in Row
  PROVE  /\ [row EXCEPT !.attempts = @ + 1] \in Row
         /\ [row EXCEPT !.used = TRUE] \in Row
         /\ \A c \in Codes, at \in Nat : Rotated(row, c, at) \in Row
<1>1. [row EXCEPT !.attempts = @ + 1] \in Row
  BY DEF Row
<1>2. [row EXCEPT !.used = TRUE] \in Row
  BY DEF Row
<1>3. ASSUME NEW c \in Codes, NEW at \in Nat
      PROVE  Rotated(row, c, at) \in Row
  <2>1. Rotated(row, c, at) =
          [row EXCEPT !.code = c, !.resends = row.resends + 1,
                      !.expires = at + CodeTTL]
    BY DEF Rotated
  <2>2. row.resends + 1 \in Nat /\ at + CodeTTL \in Nat
    BY TimesAreNat DEF Row
  <2>3. QED
    BY <2>1, <2>2 DEF Row
<1>4. QED
  BY <1>1, <1>2, <1>3

-----------------------------------------------------------------------------
\* Every reachable state is well typed.
THEOREM TypeCorrect == Spec => []TypeOK
<1> USE DEF TypeOK, Request, Row, Session, Idle, Fresh, Gone
<1>1. Init => TypeOK
  BY DEF Init
<1>2. TypeOK /\ [Next]_vars => TypeOK'
  <2> SUFFICES ASSUME TypeOK, [Next]_vars PROVE TypeOK'
    OBVIOUS
  <2> USE TimesAreNat, CapsArePositive
  <2>1. ASSUME NEW r \in Requests, NEW u \in Users,
               NEW d \in Devices \cup {NoDevice}, LoginTrusted(r, u, d)
        PROVE  TypeOK'
    BY <2>1 DEF LoginTrusted, Trusted
  <2>2. ASSUME NEW r \in Requests, NEW u \in Users,
               NEW d \in Devices \cup {NoDevice}, LoginUntrusted(r, u, d)
        PROVE  TypeOK'
    BY <2>2 DEF LoginUntrusted
  <2>3. ASSUME NEW r \in Requests, InsertCode(r)
        PROVE  TypeOK'
    BY <2>3 DEF InsertCode, Email
  <2>4. ASSUME NEW r \in Requests, MailCode(r)
        PROVE  TypeOK'
    BY <2>4 DEF MailCode
  <2>5. ASSUME NEW r \in Requests, NEW t \in Tokens, NEW c \in Codes,
               VerifyWrong(r, t, c)
        PROVE  TypeOK'
    BY <2>5 DEF VerifyWrong
  <2>6. ASSUME NEW r \in Requests, NEW t \in Tokens,
               NEW d \in Devices \cup {NoDevice}, VerifyRight(r, t, d)
        PROVE  TypeOK'
    BY <2>6 DEF VerifyRight, Live
  <2>7. ASSUME NEW r \in Requests, CountMiss(r)
        PROVE  TypeOK'
    <3> DEFINE t == req[r].token
    <3>1. t \in Tokens
      BY <2>7, HeldTypes DEF CountMiss
    <3>2. rows' \in [Tokens -> Row \cup {Fresh, Gone}]
      <4>1. CASE Live(t)
        <5>1. [rows[t] EXCEPT !.attempts = @ + 1] \in Row
          BY <3>1, <4>1, LiveRow, RowUpdates
        <5>2. QED
          BY <2>7, <3>1, <4>1, <5>1 DEF CountMiss
      <4>2. QED
        BY <2>7, <4>1 DEF CountMiss
    <3>3. QED
      BY <2>7, <3>2 DEF CountMiss
  <2>8. ASSUME NEW r \in Requests, Redeem(r)
        PROVE  TypeOK'
    <3> DEFINE t == req[r].token
    <3>1. t \in Tokens /\ req[r].user \in Users
      BY <2>8, HeldTypes DEF Redeem
    <3>2. rows' \in [Tokens -> Row \cup {Fresh, Gone}]
      <4>1. CASE Live(t)
        <5>1. [rows[t] EXCEPT !.used = TRUE] \in Row
          BY <3>1, <4>1, LiveRow, RowUpdates
        <5>2. QED
          BY <2>8, <3>1, <4>1, <5>1 DEF Redeem, MarkUsed
      <4>2. QED
        BY <2>8, <4>1 DEF Redeem, MarkUsed
    <3>3. devices' \in [Users -> [Devices -> Nat]]
      BY <2>8, <3>1 DEF Redeem, TrustDevice
    <3>4. sessions' \in SUBSET Session
      BY <2>8, <3>1 DEF Redeem
    <3>5. redeemed' \in [Tokens -> Nat] /\ req' \in [Requests -> Request]
      BY <2>8, <3>1 DEF Redeem
    <3>6. QED
      BY <2>8, <3>2, <3>3, <3>4, <3>5 DEF Redeem
  <2>9. ASSUME NEW r \in Requests, NEW t \in Tokens, ResendRead(r, t)
        PROVE  TypeOK'
    BY <2>9 DEF ResendRead
  <2>10. ASSUME NEW r \in Requests, Rotate(r)
         PROVE  TypeOK'
    <3> DEFINE t == req[r].token
    <3>1. t \in Tokens /\ req[r].at \in Nat
      BY <2>10, HeldTypes DEF Rotate
    <3>2. PICK c \in Codes :
            /\ rows' = IF Live(t)
                       THEN [rows EXCEPT ![t] = Rotated(rows[t], c, req[r].at)]
                       ELSE rows
            /\ req' = [req EXCEPT ![r] = Email(t, c)]
      BY <2>10 DEF Rotate
    <3>3. rows' \in [Tokens -> Row \cup {Fresh, Gone}]
      <4>1. CASE Live(t)
        <5>1. Rotated(rows[t], c, req[r].at) \in Row
          BY <3>1, <4>1, LiveRow, RowUpdates
        <5>2. QED
          BY <3>1, <3>2, <4>1, <5>1
      <4>2. QED
        BY <3>2, <4>1
    <3>4. req' \in [Requests -> Request]
      BY <3>1, <3>2 DEF Email
    <3>5. QED
      BY <2>10, <3>3, <3>4 DEF Rotate
  <2>11. ASSUME NEW r \in Requests, Die(r)
         PROVE  TypeOK'
    BY <2>11 DEF Die
  <2>12. ASSUME NEW u \in Users, DeleteUser(u)
         PROVE  TypeOK'
    BY <2>12 DEF DeleteUser
  <2>13. CASE Prune
    BY <2>13 DEF Prune
  <2>14. CASE Tick
    BY <2>14 DEF Tick
  <2>15. CASE UNCHANGED vars
    BY <2>15 DEF vars
  <2>16. QED
    BY <2>1, <2>2, <2>3, <2>4, <2>5, <2>6, <2>7, <2>8, <2>9, <2>10, <2>11,
       <2>12, <2>13, <2>14, <2>15 DEF Next, Start, Finish
<1>3. QED
  BY <1>1, <1>2, PTL DEF Spec
-----------------------------------------------------------------------------
(* Counting the requests that hold a decision.                             *)

\* No more requests hold a decision than there are requests.
LEMMA HeldBounded ==
  ASSUME NEW f, NEW s, NEW t
  PROVE  /\ IsFiniteSet(HeldIn(f, s, t))
         /\ Cardinality(HeldIn(f, s, t)) \in Nat
         /\ Racers \in Nat
         /\ Cardinality(HeldIn(f, s, t)) <= Racers
<1>1. HeldIn(f, s, t) \in SUBSET Requests
  BY DEF HeldIn
<1>2. QED
  BY <1>1, RequestsAreFinite, FS_Subset, FS_CardinalityType DEF Racers

\* When holders only leave, the count does not grow, and it falls when one
\* leaves.
LEMMA HeldShrinks ==
  ASSUME NEW f, NEW g, NEW s, NEW t, HeldIn(g, s, t) \subseteq HeldIn(f, s, t)
  PROVE  /\ Cardinality(HeldIn(g, s, t)) <= Cardinality(HeldIn(f, s, t))
         /\ \A r \in HeldIn(f, s, t) : r \notin HeldIn(g, s, t) =>
              Cardinality(HeldIn(g, s, t)) + 1 <= Cardinality(HeldIn(f, s, t))
<1> DEFINE F == HeldIn(f, s, t)
           G == HeldIn(g, s, t)
<1>1. /\ IsFiniteSet(F) /\ Cardinality(F) \in Nat
      /\ IsFiniteSet(G) /\ Cardinality(G) \in Nat
  BY HeldBounded
<1> HIDE DEF F, G
<1>2. G \in SUBSET F
  BY DEF F, G
<1>3. Cardinality(G) <= Cardinality(F)
  BY <1>1, <1>2, FS_Subset
<1>4. ASSUME NEW r \in F, r \notin G
      PROVE  Cardinality(G) + 1 <= Cardinality(F)
  <2>1. /\ IsFiniteSet(F \ {r})
        /\ Cardinality(F \ {r}) = Cardinality(F) - 1
    BY <1>1, <1>4, FS_RemoveElement
  <2>2. G \in SUBSET (F \ {r})
    BY <1>2, <1>4
  <2>3. Cardinality(G) <= Cardinality(F \ {r})
    BY <2>1, <2>2, FS_Subset
  <2>4. QED
    BY <1>1, <2>1, <2>3
<1>5. QED
  BY <1>3, <1>4 DEF F, G

\* The steps at which a request holds a decision on a token.
Deciding == {"miss", "redeem", "rotate"}

\* A step after which no request holds a decision it did not hold before keeps
\* every count from growing.
LEMMA NoNewDecision ==
  ASSUME NEW s \in Deciding, NEW t,
         \A q \in Requests : req'[q] = req[q] \/ req'[q].step # s
  PROVE  /\ Pending(s, t)' \subseteq Pending(s, t)
         /\ Cardinality(Pending(s, t)') <= Cardinality(Pending(s, t))
<1>1. Pending(s, t)' = HeldIn(req', s, t) /\ Pending(s, t) = HeldIn(req, s, t)
  BY DEF Pending, HeldIn
<1>2. HeldIn(req', s, t) \subseteq HeldIn(req, s, t)
  BY DEF HeldIn
<1>3. QED
  BY <1>1, <1>2, HeldShrinks

-----------------------------------------------------------------------------
(* The budgets are inductive.                                              *)

\* Every count of the budgets is a natural number.
LEMMA BudgetTypes ==
  ASSUME TypeOK, NEW t \in Tokens
  PROVE  /\ \A s \in Deciding : Cardinality(Pending(s, t)) \in Nat
                                  /\ Cardinality(Pending(s, t)) <= Racers
         /\ Racers \in Nat
         /\ redeemed[t] \in Nat
         /\ Live(t) => /\ rows[t].attempts \in Nat /\ rows[t].resends \in Nat
                       /\ rows[t].created \in Nat /\ rows[t].expires \in Nat
<1>1. Live(t) => rows[t] \in Row
  BY LiveRow
<1>2. QED
  BY <1>1, HeldBounded DEF TypeOK, Pending, Row

\* A step that takes no decision and only deletes rows keeps the budgets.
LEMMA QuietStep ==
  ASSUME TypeOK, TypeOK', Budgets,
         redeemed' = redeemed,
         \A t \in Tokens : rows'[t] \in {rows[t], Gone},
         \A q \in Requests :
            req'[q] = req[q] \/ req'[q].step \in {"idle", "insert"}
  PROVE  Budgets'
<1>1. HeldRowsExist'
  BY DEF Budgets, HeldRowsExist, Fresh, Gone, TypeOK, Request, Idle
<1>2. ASSUME NEW t \in Tokens, NEW s \in Deciding
      PROVE  /\ Pending(s, t)' \subseteq Pending(s, t)
             /\ Cardinality(Pending(s, t)') <= Cardinality(Pending(s, t))
             /\ Cardinality(Pending(s, t)) \in Nat
             /\ Cardinality(Pending(s, t)') \in Nat
  BY NoNewDecision, HeldBounded DEF Deciding, Pending
<1>3. ASSUME NEW t \in Tokens, Live(t)'
      PROVE  Live(t) /\ rows'[t] = rows[t]
  BY <1>3 DEF Live, Gone
<1>4. GuessesBounded'
  BY <1>2, <1>3, BudgetTypes, CapsArePositive
     DEF Budgets, GuessesBounded, Deciding
<1>5. SpendBudget'
  BY <1>2, <1>3, BudgetTypes DEF Budgets, SpendBudget, Deciding, Fresh, Gone
<1>6. ResendBudget'
  BY <1>2, <1>3, BudgetTypes, CapsArePositive
     DEF Budgets, ResendBudget, Deciding
<1>7. LifetimeBudget'
  BY <1>2, <1>3 DEF Budgets, LifetimeBudget, Deciding, Pending, HeldIn
<1>8. QED
  BY <1>1, <1>4, <1>5, <1>6, <1>7 DEF Budgets

\* A verify that finds the code wrong only holds a guess on a row that was not
\* locked, which leaves room for one guess per racing request.
LEMMA VerifyWrongKeeps ==
  ASSUME TypeOK, TypeOK', Budgets,
         NEW r \in Requests, NEW u \in Tokens, NEW c \in Codes,
         VerifyWrong(r, u, c)
  PROVE  Budgets'
<1> USE DEF VerifyWrong
<1>1. ASSUME NEW q \in Requests
      PROVE  req'[q] = req[q]
               \/ (q = r /\ req'[q].step = "miss" /\ req'[q].token = u)
  BY DEF TypeOK
<1>2. HeldRowsExist'
  BY <1>1 DEF Budgets, HeldRowsExist, Live, Fresh
<1>3. ASSUME NEW t \in Tokens, NEW s \in {"redeem", "rotate"}
      PROVE  /\ Pending(s, t)' \subseteq Pending(s, t)
             /\ Cardinality(Pending(s, t)') <= Cardinality(Pending(s, t))
             /\ Cardinality(Pending(s, t)) \in Nat
             /\ Cardinality(Pending(s, t)') \in Nat
  BY <1>1, NoNewDecision, HeldBounded DEF Deciding, Pending
<1>4. GuessesBounded'
  <2> SUFFICES ASSUME NEW t \in Tokens, Live(t)
               PROVE  rows[t].attempts + Cardinality(Pending("miss", t)')
                        <= MaxAttempts - 1 + Racers
    BY DEF GuessesBounded, Live
  <2>1. /\ Cardinality(Pending("miss", t)') \in Nat
        /\ Cardinality(Pending("miss", t)') <= Racers
    BY HeldBounded DEF Pending
  <2>2. CASE t = u
    BY <2>1, <2>2, BudgetTypes, CapsArePositive DEF Verifiable, Locked
  <2>3. CASE t # u
    <3>1. HeldIn(req', "miss", t) \subseteq HeldIn(req, "miss", t)
      BY <1>1, <2>3 DEF HeldIn
    <3>2. Cardinality(Pending("miss", t)') <= Cardinality(Pending("miss", t))
      BY <3>1, HeldShrinks DEF Pending
    <3>3. QED
      BY <2>1, <3>2, BudgetTypes, CapsArePositive
         DEF Budgets, GuessesBounded, Deciding
  <2>4. QED
    BY <2>2, <2>3
<1>5. SpendBudget'
  BY <1>3, BudgetTypes DEF Budgets, SpendBudget, Deciding, Live
<1>6. ResendBudget'
  BY <1>3, BudgetTypes, CapsArePositive DEF Budgets, ResendBudget, Deciding, Live
<1>7. LifetimeBudget'
  BY <1>1 DEF Budgets, LifetimeBudget, Pending, HeldIn, Live
<1>8. QED
  BY <1>2, <1>4, <1>5, <1>6, <1>7 DEF Budgets

\* A verify that finds the code right only holds a redemption of a token that
\* has opened no session yet.
LEMMA VerifyRightKeeps ==
  ASSUME TypeOK, TypeOK', Budgets,
         NEW r \in Requests, NEW u \in Tokens,
         NEW d \in Devices \cup {NoDevice}, VerifyRight(r, u, d)
  PROVE  Budgets'
<1> USE DEF VerifyRight
<1>1. ASSUME NEW q \in Requests
      PROVE  req'[q] = req[q]
               \/ (q = r /\ req'[q].step = "redeem" /\ req'[q].token = u)
  BY DEF TypeOK
<1>2. HeldRowsExist'
  BY <1>1 DEF Budgets, HeldRowsExist, Live, Fresh
<1>3. ASSUME NEW t \in Tokens, NEW s \in {"miss", "rotate"}
      PROVE  /\ Pending(s, t)' \subseteq Pending(s, t)
             /\ Cardinality(Pending(s, t)') <= Cardinality(Pending(s, t))
             /\ Cardinality(Pending(s, t)) \in Nat
             /\ Cardinality(Pending(s, t)') \in Nat
  BY <1>1, NoNewDecision, HeldBounded DEF Deciding, Pending
<1>4. GuessesBounded'
  BY <1>3, BudgetTypes, CapsArePositive
     DEF Budgets, GuessesBounded, Deciding, Live
<1>5. SpendBudget'
  <2> SUFFICES ASSUME NEW t \in Tokens
               PROVE  redeemed[t] + Cardinality(Pending("redeem", t)') <= Racers
    BY DEF Budgets, SpendBudget, Live
  <2>1. /\ Cardinality(Pending("redeem", t)') \in Nat
        /\ Cardinality(Pending("redeem", t)') <= Racers
    BY HeldBounded DEF Pending
  <2>2. CASE t = u
    <3>1. redeemed[t] = 0
      BY <2>2, BudgetTypes DEF Budgets, SpendBudget, Verifiable
    <3>2. QED
      BY <2>1, <3>1, BudgetTypes
  <2>3. CASE t # u
    <3>1. HeldIn(req', "redeem", t) \subseteq HeldIn(req, "redeem", t)
      BY <1>1, <2>3 DEF HeldIn
    <3>2. Cardinality(Pending("redeem", t)') <= Cardinality(Pending("redeem", t))
      BY <3>1, HeldShrinks DEF Pending
    <3>3. QED
      BY <2>1, <3>2, BudgetTypes DEF Budgets, SpendBudget, Deciding
  <2>4. QED
    BY <2>2, <2>3
<1>6. ResendBudget'
  BY <1>3, BudgetTypes, CapsArePositive DEF Budgets, ResendBudget, Deciding, Live
<1>7. LifetimeBudget'
  BY <1>1 DEF Budgets, LifetimeBudget, Pending, HeldIn, Live
<1>8. QED
  BY <1>2, <1>4, <1>5, <1>6, <1>7 DEF Budgets

\* A resend reads its row before the expiry and below the resend cap, so the
\* rotation it holds is within the lifetimes paid for.
LEMMA ResendReadKeeps ==
  ASSUME TypeOK, TypeOK', Budgets,
         NEW r \in Requests, NEW u \in Tokens, ResendRead(r, u)
  PROVE  Budgets'
<1> USE DEF ResendRead
<1>1. ASSUME NEW q \in Requests
      PROVE  req'[q] = req[q]
               \/ (/\ q = r /\ req'[q].step = "rotate" /\ req'[q].token = u
                   /\ req'[q].at = now)
  BY DEF TypeOK
<1>2. HeldRowsExist'
  BY <1>1 DEF Budgets, HeldRowsExist, Live, Fresh
<1>3. ASSUME NEW t \in Tokens, NEW s \in {"miss", "redeem"}
      PROVE  /\ Pending(s, t)' \subseteq Pending(s, t)
             /\ Cardinality(Pending(s, t)') <= Cardinality(Pending(s, t))
             /\ Cardinality(Pending(s, t)) \in Nat
             /\ Cardinality(Pending(s, t)') \in Nat
  BY <1>1, NoNewDecision, HeldBounded DEF Deciding, Pending
<1>4. GuessesBounded'
  BY <1>3, BudgetTypes, CapsArePositive
     DEF Budgets, GuessesBounded, Deciding, Live
<1>5. SpendBudget'
  BY <1>3, BudgetTypes DEF Budgets, SpendBudget, Deciding, Live
<1>6. ResendBudget'
  <2> SUFFICES ASSUME NEW t \in Tokens, Live(t)
               PROVE  rows[t].resends + Cardinality(Pending("rotate", t)')
                        <= MaxResends - 1 + Racers
    BY DEF ResendBudget, Live
  <2>1. /\ Cardinality(Pending("rotate", t)') \in Nat
        /\ Cardinality(Pending("rotate", t)') <= Racers
    BY HeldBounded DEF Pending
  <2>2. CASE t = u
    BY <2>1, <2>2, BudgetTypes, CapsArePositive DEF Resendable, Maxed
  <2>3. CASE t # u
    <3>1. HeldIn(req', "rotate", t) \subseteq HeldIn(req, "rotate", t)
      BY <1>1, <2>3 DEF HeldIn
    <3>2. Cardinality(Pending("rotate", t)') <= Cardinality(Pending("rotate", t))
      BY <3>1, HeldShrinks DEF Pending
    <3>3. QED
      BY <2>1, <3>2, BudgetTypes, CapsArePositive
         DEF Budgets, ResendBudget, Deciding
  <2>4. QED
    BY <2>2, <2>3
<1>7. LifetimeBudget'
  <2> SUFFICES ASSUME NEW t \in Tokens, Live(t),
                      NEW q \in Requests, req'[q].step = "rotate",
                      req'[q].token = t
               PROVE  req'[q].at <=
                        rows[t].created + CodeTTL * (rows[t].resends + 1)
    BY DEF Budgets, LifetimeBudget, Pending, HeldIn, Live
  <2>1. CASE req'[q] = req[q]
    BY <2>1 DEF Budgets, LifetimeBudget, Pending, HeldIn
  <2>2. CASE req'[q].at = now /\ t = u
    <3>1. now <= rows[t].expires
      BY <2>2, BudgetTypes DEF Resendable, Expired, TypeOK
    <3>2. rows[t].expires <= rows[t].created + CodeTTL * (rows[t].resends + 1)
      BY DEF Budgets, LifetimeBudget
    <3>3. CodeTTL * (rows[t].resends + 1) \in Nat
      BY BudgetTypes, TimesAreNat
    <3>4. QED
      BY <2>2, <3>1, <3>2, <3>3, BudgetTypes DEF TypeOK
  <2>3. QED
    BY <1>1, <2>1, <2>2
<1>8. QED
  BY <1>2, <1>4, <1>5, <1>6, <1>7 DEF Budgets

\* Counting a miss turns one guess in flight into one counted.
LEMMA CountMissKeeps ==
  ASSUME TypeOK, TypeOK', Budgets, NEW r \in Requests, CountMiss(r)
  PROVE  Budgets'
<1>0. PICK u \in Tokens : u = req[r].token
  BY HeldTypes DEF CountMiss
<1>1. r \in Pending("miss", u)
  BY <1>0 DEF CountMiss, Pending, HeldIn
<1>2. /\ req' = [req EXCEPT ![r] = Idle]
      /\ redeemed' = redeemed
      /\ \A q \in Requests : req'[q] = req[q] \/ req'[q].step = "idle"
  BY DEF CountMiss, TypeOK, Idle
<1>3. ASSUME NEW t \in Tokens, NEW s \in Deciding
      PROVE  /\ Pending(s, t)' \subseteq Pending(s, t)
             /\ Cardinality(Pending(s, t)') <= Cardinality(Pending(s, t))
             /\ Cardinality(Pending(s, t)) \in Nat
             /\ Cardinality(Pending(s, t)') \in Nat
  BY <1>2, NoNewDecision, HeldBounded DEF Deciding, Pending
<1>4. Cardinality(Pending("miss", u)') + 1 <= Cardinality(Pending("miss", u))
  <2>1. r \notin HeldIn(req', "miss", u)
    BY <1>2 DEF HeldIn, Idle, TypeOK
  <2>2. HeldIn(req', "miss", u) \subseteq HeldIn(req, "miss", u)
    BY <1>2 DEF HeldIn
  <2>3. QED
    BY <1>1, <2>1, <2>2, HeldShrinks DEF Pending
<1>5. ASSUME NEW t \in Tokens
      PROVE  \/ rows'[t] = rows[t]
             \/ /\ t = u /\ Live(u) /\ rows'[t].state = "live"
                /\ rows'[t].attempts = rows[t].attempts + 1
                /\ rows'[t].used = rows[t].used
                /\ rows'[t].resends = rows[t].resends
                /\ rows'[t].created = rows[t].created
                /\ rows'[t].expires = rows[t].expires
  <2>1. CASE ~Live(u) \/ t # u
    BY <1>0, <2>1 DEF CountMiss, TypeOK
  <2>2. CASE Live(u) /\ t = u
    <3>1. rows[u] \in Row
      BY <1>1, <2>2, LiveRow
    <3>2. rows' = [rows EXCEPT ![u] = [rows[u] EXCEPT !.attempts = @ + 1]]
      BY <1>0, <2>2 DEF CountMiss
    <3>3. QED
      BY <1>1, <2>2, <3>1, <3>2 DEF TypeOK, Row
  <2>3. QED
    BY <2>1, <2>2
<1>6. ASSUME NEW t \in Tokens
      PROVE  (Live(t)' <=> Live(t)) /\ (rows[t] # Fresh => rows'[t] # Fresh)
  BY <1>5 DEF Live, Fresh
<1>7. HeldRowsExist'
  BY <1>2, <1>6, HeldTypes DEF Budgets, HeldRowsExist
<1>8. GuessesBounded'
  <2> SUFFICES ASSUME NEW t \in Tokens, Live(t)
               PROVE  rows'[t].attempts + Cardinality(Pending("miss", t)')
                        <= MaxAttempts - 1 + Racers
    BY <1>6 DEF GuessesBounded
  <2>1. rows[t].attempts + Cardinality(Pending("miss", t))
          <= MaxAttempts - 1 + Racers
    BY DEF Budgets, GuessesBounded
  <2>2. QED
    BY <1>3, <1>4, <1>5, <2>1, BudgetTypes, CapsArePositive DEF Deciding
<1>9. SpendBudget'
  <2> SUFFICES ASSUME NEW t \in Tokens
               PROVE  /\ redeemed[t] + Cardinality(Pending("redeem", t)')
                           <= Racers
                      /\ redeemed[t] > 0 => rows'[t] # Fresh
                            /\ (Live(t) => rows'[t].used)
    BY <1>2, <1>6 DEF SpendBudget
  <2>1. redeemed[t] + Cardinality(Pending("redeem", t)') <= Racers
    BY <1>3, BudgetTypes DEF Budgets, SpendBudget, Deciding
  <2>2. QED
    BY <1>5, <1>6, <2>1 DEF Budgets, SpendBudget
<1>10. ResendBudget'
  <2> SUFFICES ASSUME NEW t \in Tokens, Live(t)
               PROVE  rows'[t].resends + Cardinality(Pending("rotate", t)')
                        <= MaxResends - 1 + Racers
    BY <1>6 DEF ResendBudget
  <2>1. rows'[t].resends = rows[t].resends
    BY <1>5
  <2>2. QED
    BY <1>3, <2>1, BudgetTypes, CapsArePositive
       DEF Budgets, ResendBudget, Deciding
<1>11. LifetimeBudget'
  <2> SUFFICES ASSUME NEW t \in Tokens, Live(t)
               PROVE  LET paid == rows'[t].created
                                    + CodeTTL * (rows'[t].resends + 1)
                      IN  /\ rows'[t].expires <= paid
                          /\ \A q \in Pending("rotate", t)' : req'[q].at <= paid
    BY <1>6 DEF LifetimeBudget
  <2>1. /\ rows'[t].created = rows[t].created
        /\ rows'[t].expires = rows[t].expires
        /\ rows'[t].resends = rows[t].resends
    BY <1>5
  <2>2. \A q \in Pending("rotate", t)' :
          q \in Pending("rotate", t) /\ req'[q] = req[q]
    BY <1>2, <1>3 DEF Pending, HeldIn, Deciding
  <2>3. QED
    BY <2>1, <2>2 DEF Budgets, LifetimeBudget
<1>12. QED
  BY <1>7, <1>8, <1>9, <1>10, <1>11 DEF Budgets

\* Redeeming turns one redemption in flight into one session and marks the row.
LEMMA RedeemKeeps ==
  ASSUME TypeOK, TypeOK', Budgets, NEW r \in Requests, Redeem(r)
  PROVE  Budgets'
<1>0. PICK u \in Tokens : u = req[r].token
  BY HeldTypes DEF Redeem
<1>1. r \in Pending("redeem", u)
  BY <1>0 DEF Redeem, Pending, HeldIn
<1>2. /\ req' = [req EXCEPT ![r] = Idle]
      /\ \A q \in Requests : req'[q] = req[q] \/ req'[q].step = "idle"
      /\ redeemed' = [redeemed EXCEPT ![u] = @ + 1]
  BY <1>0 DEF Redeem, TypeOK, Idle
<1>3. ASSUME NEW t \in Tokens, NEW s \in Deciding
      PROVE  /\ Pending(s, t)' \subseteq Pending(s, t)
             /\ Cardinality(Pending(s, t)') <= Cardinality(Pending(s, t))
             /\ Cardinality(Pending(s, t)) \in Nat
             /\ Cardinality(Pending(s, t)') \in Nat
  BY <1>2, NoNewDecision, HeldBounded DEF Deciding, Pending
<1>4. Cardinality(Pending("redeem", u)') + 1
        <= Cardinality(Pending("redeem", u))
  <2>1. r \notin HeldIn(req', "redeem", u)
    BY <1>2 DEF HeldIn, Idle, TypeOK
  <2>2. HeldIn(req', "redeem", u) \subseteq HeldIn(req, "redeem", u)
    BY <1>2 DEF HeldIn
  <2>3. QED
    BY <1>1, <2>1, <2>2, HeldShrinks DEF Pending
<1>5. ASSUME NEW t \in Tokens, Live(t)
      PROVE  /\ rows'[t].state = "live"
             /\ rows'[t].attempts = rows[t].attempts
             /\ rows'[t].resends = rows[t].resends
             /\ rows'[t].created = rows[t].created
             /\ rows'[t].expires = rows[t].expires
             /\ rows[t].used => rows'[t].used
             /\ t = u => rows'[t].used
  <2>1. rows[t] \in Row
    BY <1>5, LiveRow
  <2>2. CASE t # u
    BY <1>0, <1>5, <2>2 DEF Redeem, MarkUsed, TypeOK, Live
  <2>3. CASE t = u
    <3>1. rows' = [rows EXCEPT ![u] = [rows[u] EXCEPT !.used = TRUE]]
      BY <1>0, <1>5, <2>3 DEF Redeem, MarkUsed
    <3>2. QED
      BY <1>5, <2>1, <2>3, <3>1 DEF TypeOK, Row
  <2>4. QED
    BY <2>2, <2>3
<1>6. ASSUME NEW t \in Tokens
      PROVE  (Live(t)' <=> Live(t)) /\ (rows[t] # Fresh => rows'[t] # Fresh)
  <2>1. CASE Live(t)
    BY <1>5, <2>1 DEF Live, Fresh
  <2>2. CASE ~Live(t)
    BY <1>0, <2>2 DEF Live, Redeem, MarkUsed, TypeOK
  <2>3. QED
    BY <2>1, <2>2
<1>7. HeldRowsExist'
  BY <1>2, <1>6, HeldTypes DEF Budgets, HeldRowsExist
<1>8. GuessesBounded'
  <2> SUFFICES ASSUME NEW t \in Tokens, Live(t)
               PROVE  rows'[t].attempts + Cardinality(Pending("miss", t)')
                        <= MaxAttempts - 1 + Racers
    BY <1>6 DEF GuessesBounded
  <2>1. rows'[t].attempts = rows[t].attempts
    BY <1>5
  <2>2. QED
    BY <1>3, <2>1, BudgetTypes, CapsArePositive
       DEF Budgets, GuessesBounded, Deciding
<1>9. SpendBudget'
  <2> SUFFICES ASSUME NEW t \in Tokens
               PROVE  /\ redeemed'[t] + Cardinality(Pending("redeem", t)')
                           <= Racers
                      /\ redeemed'[t] > 0 => rows'[t] # Fresh
                            /\ (Live(t) => rows'[t].used)
    BY <1>6 DEF SpendBudget
  <2>1. /\ redeemed[t] + Cardinality(Pending("redeem", t)) <= Racers
        /\ redeemed[t] > 0 => rows[t] # Fresh /\ (Live(t) => rows[t].used)
    BY DEF Budgets, SpendBudget
  <2>2. CASE t = u
    <3>1. redeemed'[t] = redeemed[t] + 1
      BY <1>2, <2>2 DEF TypeOK
    <3>2. rows[t] # Fresh
      BY <1>0, <2>2 DEF Budgets, HeldRowsExist, Redeem
    <3>3. QED
      BY <1>3, <1>4, <1>5, <1>6, <2>1, <2>2, <3>1, <3>2, BudgetTypes
         DEF Deciding
  <2>3. CASE t # u
    <3>1. redeemed'[t] = redeemed[t]
      BY <1>2, <2>3 DEF TypeOK
    <3>2. QED
      BY <1>3, <1>5, <1>6, <2>1, <3>1, BudgetTypes DEF Deciding
  <2>4. QED
    BY <2>2, <2>3
<1>10. ResendBudget'
  <2> SUFFICES ASSUME NEW t \in Tokens, Live(t)
               PROVE  rows'[t].resends + Cardinality(Pending("rotate", t)')
                        <= MaxResends - 1 + Racers
    BY <1>6 DEF ResendBudget
  <2>1. rows'[t].resends = rows[t].resends
    BY <1>5
  <2>2. QED
    BY <1>3, <2>1, BudgetTypes, CapsArePositive
       DEF Budgets, ResendBudget, Deciding
<1>11. LifetimeBudget'
  <2> SUFFICES ASSUME NEW t \in Tokens, Live(t)
               PROVE  LET paid == rows'[t].created
                                    + CodeTTL * (rows'[t].resends + 1)
                      IN  /\ rows'[t].expires <= paid
                          /\ \A q \in Pending("rotate", t)' : req'[q].at <= paid
    BY <1>6 DEF LifetimeBudget
  <2>1. /\ rows'[t].created = rows[t].created
        /\ rows'[t].expires = rows[t].expires
        /\ rows'[t].resends = rows[t].resends
    BY <1>5
  <2>2. \A q \in Pending("rotate", t)' :
          q \in Pending("rotate", t) /\ req'[q] = req[q]
    BY <1>2, <1>3 DEF Pending, HeldIn, Deciding
  <2>3. QED
    BY <2>1, <2>2 DEF Budgets, LifetimeBudget
<1>12. QED
  BY <1>7, <1>8, <1>9, <1>10, <1>11 DEF Budgets

\* Rotating pays for the lifetime it adds with one counted resend.
LEMMA RotateKeeps ==
  ASSUME TypeOK, TypeOK', Budgets, NEW r \in Requests, Rotate(r)
  PROVE  Budgets'
<1>0. PICK u \in Tokens, at \in Nat : u = req[r].token /\ at = req[r].at
  BY HeldTypes DEF Rotate
<1>a. PICK c \in Codes :
        /\ rows' = IF Live(u) THEN [rows EXCEPT ![u] = Rotated(rows[u], c, at)]
                   ELSE rows
        /\ req' = [req EXCEPT ![r] = Email(u, c)]
  BY <1>0 DEF Rotate
<1>1. r \in Pending("rotate", u)
  BY <1>0 DEF Rotate, Pending, HeldIn
<1>2. /\ redeemed' = redeemed
      /\ \A q \in Requests : \/ req'[q] = req[q]
                             \/ req'[q].step = "mail" /\ req'[q].token = u
  BY <1>a DEF Rotate, TypeOK, Email
<1>3. ASSUME NEW t \in Tokens, NEW s \in Deciding
      PROVE  /\ Pending(s, t)' \subseteq Pending(s, t)
             /\ Cardinality(Pending(s, t)') <= Cardinality(Pending(s, t))
             /\ Cardinality(Pending(s, t)) \in Nat
             /\ Cardinality(Pending(s, t)') \in Nat
  BY <1>2, NoNewDecision, HeldBounded DEF Deciding, Pending
<1>4. Cardinality(Pending("rotate", u)') + 1
        <= Cardinality(Pending("rotate", u))
  <2>1. r \notin HeldIn(req', "rotate", u)
    BY <1>a DEF HeldIn, Email, TypeOK
  <2>2. HeldIn(req', "rotate", u) \subseteq HeldIn(req, "rotate", u)
    BY <1>2 DEF HeldIn
  <2>3. QED
    BY <1>1, <2>1, <2>2, HeldShrinks DEF Pending
<1>5. ASSUME NEW t \in Tokens, Live(t)
      PROVE  /\ rows'[t].state = "live"
             /\ rows'[t].attempts = rows[t].attempts
             /\ rows'[t].created = rows[t].created
             /\ rows'[t].used = rows[t].used
             /\ t # u => rows'[t] = rows[t]
             /\ t = u => /\ rows'[t].resends = rows[t].resends + 1
                         /\ rows'[t].expires = at + CodeTTL
  <2>1. rows[t] \in Row
    BY <1>5, LiveRow
  <2>2. CASE t # u
    BY <1>a, <1>5, <2>2 DEF TypeOK, Live
  <2>3. CASE t = u
    <3>1. rows'[t] = Rotated(rows[t], c, at)
      BY <1>a, <1>5, <2>3 DEF TypeOK
    <3>2. QED
      BY <2>1, <2>3, <3>1 DEF Rotated, Row
  <2>4. QED
    BY <2>2, <2>3
<1>6. ASSUME NEW t \in Tokens
      PROVE  (Live(t)' <=> Live(t)) /\ (rows[t] # Fresh => rows'[t] # Fresh)
  <2>1. CASE Live(t)
    BY <1>5, <2>1 DEF Live, Fresh
  <2>2. CASE ~Live(t)
    BY <1>a, <2>2 DEF Live, TypeOK
  <2>3. QED
    BY <2>1, <2>2
<1>7. HeldRowsExist'
  <2>1. rows[u] # Fresh
    BY <1>0 DEF Budgets, HeldRowsExist, Rotate
  <2>2. QED
    BY <1>2, <1>6, <2>1, HeldTypes DEF Budgets, HeldRowsExist
<1>8. GuessesBounded'
  <2> SUFFICES ASSUME NEW t \in Tokens, Live(t)
               PROVE  rows'[t].attempts + Cardinality(Pending("miss", t)')
                        <= MaxAttempts - 1 + Racers
    BY <1>6 DEF GuessesBounded
  <2>1. rows'[t].attempts = rows[t].attempts
    BY <1>5
  <2>2. QED
    BY <1>3, <2>1, BudgetTypes, CapsArePositive
       DEF Budgets, GuessesBounded, Deciding
<1>9. SpendBudget'
  <2> SUFFICES ASSUME NEW t \in Tokens
               PROVE  /\ redeemed[t] + Cardinality(Pending("redeem", t)')
                           <= Racers
                      /\ redeemed[t] > 0 => rows'[t] # Fresh
                            /\ (Live(t) => rows'[t].used)
    BY <1>2, <1>6 DEF SpendBudget
  <2>1. redeemed[t] + Cardinality(Pending("redeem", t)') <= Racers
    BY <1>3, BudgetTypes DEF Budgets, SpendBudget, Deciding
  <2>2. QED
    BY <1>5, <1>6, <2>1 DEF Budgets, SpendBudget
<1>10. ResendBudget'
  <2> SUFFICES ASSUME NEW t \in Tokens, Live(t)
               PROVE  rows'[t].resends + Cardinality(Pending("rotate", t)')
                        <= MaxResends - 1 + Racers
    BY <1>6 DEF ResendBudget
  <2>1. rows[t].resends + Cardinality(Pending("rotate", t))
          <= MaxResends - 1 + Racers
    BY DEF Budgets, ResendBudget
  <2>2. QED
    BY <1>3, <1>4, <1>5, <2>1, BudgetTypes, CapsArePositive DEF Deciding
<1>11. LifetimeBudget'
  <2> SUFFICES ASSUME NEW t \in Tokens, Live(t)
               PROVE  LET paid == rows'[t].created
                                    + CodeTTL * (rows'[t].resends + 1)
                      IN  /\ rows'[t].expires <= paid
                          /\ \A q \in Pending("rotate", t)' : req'[q].at <= paid
    BY <1>6 DEF LifetimeBudget
  <2>1. \A q \in Pending("rotate", t)' :
          q \in Pending("rotate", t) /\ req'[q] = req[q]
    BY <1>2, <1>3 DEF Pending, HeldIn, Deciding
  <2>2. CASE t # u
    BY <1>5, <2>1, <2>2 DEF Budgets, LifetimeBudget
  <2>3. CASE t = u
    <3> DEFINE paid == rows[t].created + CodeTTL * (rows[t].resends + 1)
    <3>1. /\ rows[t].created \in Nat /\ rows[t].resends \in Nat
          /\ paid \in Nat
      BY BudgetTypes, TimesAreNat
    <3>2. /\ at <= paid
          /\ \A q \in Pending("rotate", t) : req[q].at <= paid
      BY <1>0, <1>1, <2>3 DEF Budgets, LifetimeBudget
    <3>3. /\ rows'[t].created = rows[t].created
          /\ rows'[t].resends = rows[t].resends + 1
          /\ rows'[t].expires = at + CodeTTL
      BY <1>5, <2>3
    <3>4. rows'[t].created + CodeTTL * (rows'[t].resends + 1) = paid + CodeTTL
      BY <3>1, <3>3, TimesAreNat
    <3>5. \A q \in Pending("rotate", t)' : req'[q].at \in Nat
      BY <2>1, HeldTypes DEF Pending, HeldIn
    <3> HIDE DEF paid
    <3>6. /\ rows'[t].expires <= paid + CodeTTL
          /\ \A q \in Pending("rotate", t)' : req'[q].at <= paid + CodeTTL
      BY <2>1, <3>1, <3>2, <3>3, <3>5, TimesAreNat
    <3>7. QED
      BY <3>4, <3>6
  <2>4. QED
    BY <2>2, <2>3
<1>12. QED
  BY <1>7, <1>8, <1>9, <1>10, <1>11 DEF Budgets

\* A new row starts with every budget whole: nobody held its token before.
LEMMA InsertCodeKeeps ==
  ASSUME TypeOK, TypeOK', Budgets, NEW r \in Requests, InsertCode(r)
  PROVE  Budgets'
<1>0. PICK u \in Tokens, c \in Codes :
        /\ rows[u] = Fresh
        /\ rows' = [rows EXCEPT ![u] =
               [state |-> "live", user |-> req[r].user, code |-> c,
                created |-> now, expires |-> now + CodeTTL, used |-> FALSE,
                attempts |-> 0, resends |-> 0]]
        /\ req' = [req EXCEPT ![r] = Email(u, c)]
  BY DEF InsertCode
<1>1. ASSUME NEW t \in Tokens
      PROVE  \/ t # u /\ rows'[t] = rows[t]
             \/ /\ t = u
                /\ rows'[t].state = "live" /\ rows'[t].attempts = 0
                /\ rows'[t].resends = 0
                /\ rows'[t].created = now /\ rows'[t].expires = now + CodeTTL
  BY <1>0 DEF TypeOK
<1>2. /\ redeemed' = redeemed
      /\ \A q \in Requests : \/ req'[q] = req[q]
                             \/ req'[q].step = "mail" /\ req'[q].token = u
  BY <1>0 DEF InsertCode, TypeOK, Email
<1>3. ASSUME NEW t \in Tokens, NEW s \in Deciding
      PROVE  /\ Pending(s, t)' \subseteq Pending(s, t)
             /\ Cardinality(Pending(s, t)') <= Cardinality(Pending(s, t))
             /\ Cardinality(Pending(s, t)) \in Nat
             /\ Cardinality(Pending(s, t)') \in Nat
  BY <1>2, NoNewDecision, HeldBounded DEF Deciding, Pending
<1>4. \A s \in Deciding : Pending(s, u)' = {}
  <2>1. \A s \in Deciding : Pending(s, u) = {}
    BY <1>0 DEF Budgets, HeldRowsExist, Pending, HeldIn, Deciding
  <2>2. QED
    BY <1>3, <2>1
<1>5. \A s \in Deciding : Cardinality(Pending(s, u)') = 0
  BY <1>4, FS_EmptySet
<1>6. Racers \in Nat
  BY HeldBounded
<1>7. HeldRowsExist'
  <2>1. ASSUME NEW t \in Tokens, t = u \/ rows[t] # Fresh
        PROVE  rows'[t] # Fresh
    BY <1>1, <2>1 DEF Fresh
  <2>2. QED
    BY <1>2, <2>1, HeldTypes DEF Budgets, HeldRowsExist
<1>8. GuessesBounded'
  <2> SUFFICES ASSUME NEW t \in Tokens, Live(t)'
               PROVE  rows'[t].attempts + Cardinality(Pending("miss", t)')
                        <= MaxAttempts - 1 + Racers
    BY DEF GuessesBounded
  <2>1. CASE t = u
    BY <1>1, <1>5, <1>6, <2>1, CapsArePositive DEF Deciding
  <2>2. CASE t # u
    <3>1. Live(t) /\ rows'[t] = rows[t]
      BY <1>1, <2>2 DEF Live
    <3>2. QED
      BY <1>3, <3>1, BudgetTypes, CapsArePositive
         DEF Budgets, GuessesBounded, Deciding
  <2>3. QED
    BY <2>1, <2>2
<1>9. SpendBudget'
  <2> SUFFICES ASSUME NEW t \in Tokens
               PROVE  /\ redeemed[t] + Cardinality(Pending("redeem", t)')
                           <= Racers
                      /\ redeemed[t] > 0 => rows'[t] # Fresh
                            /\ (Live(t)' => rows'[t].used)
    BY <1>2 DEF SpendBudget
  <2>1. redeemed[t] + Cardinality(Pending("redeem", t)') <= Racers
    BY <1>3, BudgetTypes DEF Budgets, SpendBudget, Deciding
  <2>2. CASE t = u
    BY <1>0, <2>1, <2>2 DEF Budgets, SpendBudget
  <2>3. CASE t # u
    BY <1>1, <2>1, <2>3 DEF Budgets, SpendBudget, Live
  <2>4. QED
    BY <2>2, <2>3
<1>10. ResendBudget'
  <2> SUFFICES ASSUME NEW t \in Tokens, Live(t)'
               PROVE  rows'[t].resends + Cardinality(Pending("rotate", t)')
                        <= MaxResends - 1 + Racers
    BY DEF ResendBudget
  <2>1. CASE t = u
    BY <1>1, <1>5, <1>6, <2>1, CapsArePositive DEF Deciding
  <2>2. CASE t # u
    <3>1. Live(t) /\ rows'[t] = rows[t]
      BY <1>1, <2>2 DEF Live
    <3>2. QED
      BY <1>3, <3>1, BudgetTypes, CapsArePositive
         DEF Budgets, ResendBudget, Deciding
  <2>3. QED
    BY <2>1, <2>2
<1>11. LifetimeBudget'
  <2> SUFFICES ASSUME NEW t \in Tokens, Live(t)'
               PROVE  LET paid == rows'[t].created
                                    + CodeTTL * (rows'[t].resends + 1)
                      IN  /\ rows'[t].expires <= paid
                          /\ \A q \in Pending("rotate", t)' : req'[q].at <= paid
    BY DEF LifetimeBudget
  <2>1. CASE t = u
    <3>1. rows'[t].created + CodeTTL * (rows'[t].resends + 1) = now + CodeTTL
      BY <1>1, <2>1, TimesAreNat DEF TypeOK
    <3>2. Pending("rotate", t)' = {}
      BY <1>4, <2>1 DEF Deciding
    <3>3. QED
      BY <1>1, <2>1, <3>1, <3>2, TimesAreNat DEF TypeOK
  <2>2. CASE t # u
    <3>1. Live(t) /\ rows'[t] = rows[t]
      BY <1>1, <2>2 DEF Live
    <3>2. \A q \in Pending("rotate", t)' :
            q \in Pending("rotate", t) /\ req'[q] = req[q]
      BY <1>2, <1>3 DEF Pending, HeldIn, Deciding
    <3>3. QED
      BY <3>1, <3>2 DEF Budgets, LifetimeBudget
  <2>3. QED
    BY <2>1, <2>2
<1>12. QED
  BY <1>7, <1>8, <1>9, <1>10, <1>11 DEF Budgets

-----------------------------------------------------------------------------
\* Every reachable state keeps every budget of every pending token, whatever
\* the requests, the clock, the prunes and the deletions do in between.
THEOREM BudgetsHold == Spec => []Budgets
<1>1. Init => Budgets
  <2> SUFFICES ASSUME Init PROVE Budgets
    OBVIOUS
  <2>1. \A t \in Tokens : rows[t] = Fresh /\ ~Live(t) /\ redeemed[t] = 0
    BY DEF Init, Live, Fresh
  <2>2. \A t \in Tokens : Pending("redeem", t) = {}
    BY DEF Init, Pending, HeldIn, Idle
  <2>3. \A t \in Tokens : Cardinality(Pending("redeem", t)) = 0
    BY <2>2, FS_EmptySet
  <2>4. HeldRowsExist
    BY DEF Init, HeldRowsExist, Idle
  <2>5. Racers \in Nat
    BY HeldBounded
  <2>6. QED
    BY <2>1, <2>3, <2>4, <2>5
       DEF Budgets, GuessesBounded, SpendBudget, ResendBudget, LifetimeBudget
<1>2. TypeOK /\ TypeOK' /\ Budgets /\ [Next]_vars => Budgets'
  <2> SUFFICES ASSUME TypeOK, TypeOK', Budgets, [Next]_vars PROVE Budgets'
    OBVIOUS
  <2> DEFINE Quiet ==
        /\ redeemed' = redeemed
        /\ \A t \in Tokens : rows'[t] \in {rows[t], Gone}
        /\ \A q \in Requests :
              req'[q] = req[q] \/ req'[q].step \in {"idle", "insert"}
  <2>a. Quiet => Budgets'
    BY QuietStep
  <2>1. ASSUME NEW r \in Requests, NEW u \in Users,
               NEW d \in Devices \cup {NoDevice},
               LoginTrusted(r, u, d) \/ LoginUntrusted(r, u, d)
        PROVE  Quiet
    BY <2>1 DEF LoginTrusted, LoginUntrusted, TypeOK
  <2>2. ASSUME NEW r \in Requests, MailCode(r) \/ Die(r)
        PROVE  Quiet
    BY <2>2 DEF MailCode, Die, TypeOK, Idle
  <2>3. ASSUME NEW u \in Users, DeleteUser(u)
        PROVE  Quiet
    BY <2>3 DEF DeleteUser
  <2>4. CASE Prune
    <3>1. Quiet
      BY <2>4 DEF Prune
    <3>2. QED
      BY <2>a, <3>1
  <2>5. CASE Tick \/ UNCHANGED vars
    <3>1. Quiet
      BY <2>5 DEF Tick, vars
    <3>2. QED
      BY <2>a, <3>1
  <2> HIDE DEF Quiet
  <2>6. QED
    BY <2>a, <2>1, <2>2, <2>3, <2>4, <2>5, InsertCodeKeeps, VerifyWrongKeeps,
       VerifyRightKeeps, CountMissKeeps, RedeemKeeps, ResendReadKeeps,
       RotateKeeps
       DEF Next, Start, Finish
<1>3. QED
  BY <1>1, <1>2, TypeCorrect, PTL DEF Spec

\* For any number of racing requests, the guesses a pending token can take
\* stay below the cap plus one for each of them.
THEOREM GuessesAreBounded == Spec => []GuessesBounded
<1>1. Budgets => GuessesBounded
  BY DEF Budgets
<1>2. QED
  BY <1>1, BudgetsHold, PTL

\* A pending token opens no more sessions than there are racing requests, and
\* none that started after the first one was opened.
THEOREM TokensAreSpent == Spec => []TokenSpent
<1>1. TypeOK /\ Budgets => TokenSpent
  <2> SUFFICES ASSUME TypeOK, Budgets, NEW t \in Tokens
               PROVE  /\ redeemed[t] <= Racers
                      /\ redeemed[t] > 0 /\ Live(t) => rows[t].used
    BY DEF TokenSpent
  <2>1. redeemed[t] + Cardinality(Pending("redeem", t)) <= Racers
    BY DEF Budgets, SpendBudget
  <2>2. QED
    BY <2>1, BudgetTypes DEF Budgets, SpendBudget, Deciding
<1>2. QED
  BY <1>1, BudgetsHold, TypeCorrect, PTL

\* The time a pending token stays redeemable is bounded by its resends, and
\* the resends by the cap and the racing requests.
THEOREM LifetimeIsBounded == Spec => []LifetimeBounded
<1>1. TypeOK /\ Budgets => LifetimeBounded
  <2> SUFFICES ASSUME TypeOK, Budgets, NEW t \in Tokens, Live(t)
               PROVE  /\ rows[t].expires
                           <= rows[t].created + CodeTTL * (rows[t].resends + 1)
                      /\ rows[t].resends <= MaxResends - 1 + Racers
    BY DEF LifetimeBounded
  <2>1. rows[t].resends + Cardinality(Pending("rotate", t))
          <= MaxResends - 1 + Racers
    BY DEF Budgets, ResendBudget
  <2>2. rows[t].resends <= MaxResends - 1 + Racers
    BY <2>1, BudgetTypes, CapsArePositive DEF Deciding
  <2>3. QED
    BY <2>2 DEF Budgets, LifetimeBudget
<1>2. QED
  BY <1>1, BudgetsHold, TypeCorrect, PTL

-----------------------------------------------------------------------------
(* What a step can do to one row, whoever takes it.                        *)

Created(new)     == new.state = "live"
Guessed(row)     == [row EXCEPT !.attempts = @ + 1]
Spent(row)       == [row EXCEPT !.used = TRUE]
Replaced(row, new) == \E c \in Codes, at \in Nat : new = Rotated(row, c, at)

\* A row comes into being, counts a guess, is spent, gets another code, or is
\* deleted: no handler writes it in any other way.
LEMMA StepOfRow ==
  ASSUME TypeOK, [Next]_vars, NEW t \in Tokens
  PROVE  \/ rows'[t] = rows[t]
         \/ rows[t] = Fresh /\ Created(rows'[t])
         \/ Live(t) /\ \/ rows'[t] = Gone
                       \/ rows'[t] = Guessed(rows[t])
                       \/ rows'[t] = Spent(rows[t])
                       \/ Replaced(rows[t], rows'[t])
<1>1. ASSUME NEW r \in Requests, InsertCode(r)
      PROVE  rows'[t] = rows[t] \/ (rows[t] = Fresh /\ Created(rows'[t]))
  BY <1>1 DEF InsertCode, TypeOK, Created
<1>2. ASSUME NEW r \in Requests, CountMiss(r)
      PROVE  rows'[t] = rows[t] \/ (Live(t) /\ rows'[t] = Guessed(rows[t]))
  <2>1. CASE t = req[r].token /\ Live(t)
    BY <1>2, <2>1 DEF CountMiss, TypeOK, Guessed
  <2>2. CASE ~(t = req[r].token /\ Live(t))
    BY <1>2, <2>2 DEF CountMiss, TypeOK
  <2>3. QED
    BY <2>1, <2>2
<1>3. ASSUME NEW r \in Requests, Redeem(r)
      PROVE  rows'[t] = rows[t] \/ (Live(t) /\ rows'[t] = Spent(rows[t]))
  <2>1. CASE t = req[r].token /\ Live(t)
    BY <1>3, <2>1 DEF Redeem, MarkUsed, TypeOK, Spent
  <2>2. CASE ~(t = req[r].token /\ Live(t))
    BY <1>3, <2>2 DEF Redeem, MarkUsed, TypeOK
  <2>3. QED
    BY <2>1, <2>2
<1>4. ASSUME NEW r \in Requests, Rotate(r)
      PROVE  rows'[t] = rows[t] \/ (Live(t) /\ Replaced(rows[t], rows'[t]))
  <2>1. PICK c \in Codes, at \in Nat :
          /\ at = req[r].at
          /\ rows' = IF Live(req[r].token)
                     THEN [rows EXCEPT ![req[r].token] =
                             Rotated(rows[req[r].token], c, req[r].at)]
                     ELSE rows
    BY <1>4, HeldTypes DEF Rotate
  <2>2. CASE t = req[r].token /\ Live(t)
    BY <2>1, <2>2 DEF TypeOK, Replaced
  <2>3. CASE ~(t = req[r].token /\ Live(t))
    BY <2>1, <2>3 DEF TypeOK
  <2>4. QED
    BY <2>2, <2>3
<1>5. ASSUME NEW u \in Users, DeleteUser(u)
      PROVE  rows'[t] = rows[t] \/ (Live(t) /\ rows'[t] = Gone)
  BY <1>5 DEF DeleteUser, Live
<1>6. CASE Prune
  BY <1>6 DEF Prune, Live
<1>7. ASSUME rows' = rows
      PROVE  rows'[t] = rows[t]
  BY <1>7
<1>8. QED
  BY <1>1, <1>2, <1>3, <1>4, <1>5, <1>6, <1>7
     DEF Next, Start, Finish, LoginTrusted, LoginUntrusted, VerifyWrong,
         VerifyRight, ResendRead, MailCode, Die, Tick, vars

\* A spent or locked pending token is never usable again: a resend that read
\* the row while it was open, and writes late, does not reopen it.
THEOREM TokensStaySpent == Spec => SpentStaysSpent
<1> DEFINE Stays(t) ==
      /\ (Live(t) /\ Live(t)') =>
           /\ rows[t].used => rows'[t].used
           /\ Locked(rows[t]) => Locked(rows[t])'
      /\ rows[t] = Gone => rows'[t] = Gone
<1>1. ASSUME TypeOK, [Next]_vars, NEW t \in Tokens
      PROVE  Stays(t)
  <2>1. Gone # Fresh /\ ~(rows[t] = Gone /\ Live(t)) /\ ~(rows[t] = Fresh /\ Live(t))
    BY DEF Gone, Fresh, Live
  <2>2. rows[t] = Gone => rows'[t] = Gone
    BY <1>1, <2>1, StepOfRow
  <2>3. ASSUME Live(t), Live(t)'
        PROVE  /\ rows[t].used => rows'[t].used
               /\ rows[t].attempts >= MaxAttempts
                    => rows'[t].attempts >= MaxAttempts
    <3>1. rows[t] \in Row /\ rows[t].attempts \in Nat
      BY <1>1, <2>3, LiveRow DEF Row
    <3>2. CASE rows'[t] = Gone
      BY <2>3, <3>2 DEF Live, Gone
    <3>3. CASE rows'[t] = Guessed(rows[t])
      BY <3>1, <3>3, CapsArePositive DEF Guessed, Row
    <3>4. CASE rows'[t] = Spent(rows[t])
      BY <3>1, <3>4 DEF Spent, Row
    <3>5. CASE Replaced(rows[t], rows'[t])
      BY <3>1, <3>5 DEF Replaced, Rotated, Row
    <3>6. QED
      BY <1>1, <2>1, <2>3, <3>2, <3>3, <3>4, <3>5, StepOfRow
  <2>4. QED
    BY <2>2, <2>3 DEF Locked
<1>2. TypeOK /\ [Next]_vars => \A t \in Tokens : Stays(t)
  BY <1>1
<1>3. [](TypeOK) /\ [][Next]_vars => [][\A t \in Tokens : Stays(t)]_vars
  BY <1>2, PTL
<1>4. QED
  BY <1>3, TypeCorrect, PTL DEF Spec, SpentStaysSpent

-----------------------------------------------------------------------------
(* The code a row holds, and the mails about it.                           *)

\* The mail with code c of token t is queued, lost, or about to be queued.
OnItsWay(t, c) ==
    \/ c \in mailed[t] \cup lost[t]
    \/ \E r \in Pending("mail", t) : req[r].code = c

\* Nothing takes back a mail on its way, it only gets where it was going.
LEMMA MailArrives ==
  ASSUME TypeOK, [Next]_vars, NEW t \in Tokens, NEW c, OnItsWay(t, c)
  PROVE  OnItsWay(t, c)'
<1> USE DEF OnItsWay, Pending, HeldIn, TypeOK
<1>1. ASSUME NEW r \in Requests, MailCode(r)
      PROVE  OnItsWay(t, c)'
  <2>1. req[r].token \in Tokens
    BY <1>1, HeldTypes DEF MailCode
  <2>2. CASE req[r].token = t /\ req[r].code = c
    BY <1>1, <2>1, <2>2 DEF MailCode
  <2>3. CASE ~(req[r].token = t /\ req[r].code = c)
    BY <1>1, <2>1, <2>3 DEF MailCode
  <2>4. QED
    BY <2>2, <2>3
<1>2. ASSUME NEW r \in Requests, Die(r)
      PROVE  OnItsWay(t, c)'
  <2>1. req[r].step = "mail" => req[r].token \in Tokens
    BY HeldTypes
  <2>2. CASE req[r].step = "mail" /\ req[r].token = t /\ req[r].code = c
    BY <1>2, <2>1, <2>2 DEF Die
  <2>3. CASE ~(req[r].step = "mail" /\ req[r].token = t /\ req[r].code = c)
    BY <1>2, <2>1, <2>3 DEF Die
  <2>4. QED
    BY <2>2, <2>3
<1>3. ASSUME mailed' = mailed, lost' = lost,
             \A q \in Requests : req'[q] = req[q] \/ req[q].step # "mail"
      PROVE  OnItsWay(t, c)'
  BY <1>3
<1>4. CASE \E r \in Requests : InsertCode(r) \/ CountMiss(r) \/ Redeem(r) \/ Rotate(r)
  BY <1>3, <1>4 DEF InsertCode, CountMiss, Redeem, Rotate
<1>5. CASE \E r \in Requests : Start(r)
  BY <1>3, <1>5 DEF Start, LoginTrusted, LoginUntrusted, VerifyWrong, VerifyRight,
                    ResendRead, Idle
<1>6. CASE Prune \/ Tick \/ UNCHANGED vars \/ \E u \in Users : DeleteUser(u)
  BY <1>3, <1>6 DEF Prune, Tick, vars, DeleteUser
<1>7. QED
  BY <1>1, <1>2, <1>4, <1>5, <1>6 DEF Next, Finish

\* A user is never left waiting for a code that nothing sent: the one a row
\* holds was queued, or its request ended between its two commits.
THEOREM CodesAreMailed == Spec => []CodeIsMailed
<1>1. CodeIsMailed <=> \A t \in Tokens : Live(t) => OnItsWay(t, rows[t].code)
  BY DEF CodeIsMailed, OnItsWay
<1>2. Init => CodeIsMailed
  BY DEF Init, CodeIsMailed, Live, Fresh
<1>3. ASSUME TypeOK, CodeIsMailed, [Next]_vars
      PROVE  CodeIsMailed'
  <2> SUFFICES ASSUME NEW t \in Tokens, Live(t)'
               PROVE  OnItsWay(t, rows[t].code)'
    BY DEF CodeIsMailed, OnItsWay
  <2>1. CASE Live(t) /\ rows'[t].code = rows[t].code
    <3>1. OnItsWay(t, rows[t].code)
      BY <1>1, <1>3, <2>1
    <3>2. PICK c : c = rows[t].code
      OBVIOUS
    <3>3. OnItsWay(t, c)'
      BY <1>3, <3>1, <3>2, MailArrives
    <3>4. QED
      BY <2>1, <3>2, <3>3 DEF OnItsWay
  <2>2. ASSUME NEW r \in Requests, InsertCode(r), rows'[t] # rows[t]
        PROVE  OnItsWay(t, rows[t].code)'
    <3>1. req'[r] = Email(t, rows'[t].code)
      BY <1>3, <2>2 DEF InsertCode, TypeOK
    <3>2. QED
      BY <3>1 DEF OnItsWay, Pending, HeldIn, Email
  <2>3. ASSUME NEW r \in Requests, Rotate(r), rows'[t] # rows[t]
        PROVE  OnItsWay(t, rows[t].code)'
    <3>1. PICK c \in Codes, at \in Nat :
            /\ at = req[r].at
            /\ rows' = IF Live(req[r].token)
                       THEN [rows EXCEPT ![req[r].token] =
                               Rotated(rows[req[r].token], c, at)]
                       ELSE rows
            /\ req' = [req EXCEPT ![r] = Email(req[r].token, c)]
      BY <1>3, <2>3, HeldTypes DEF Rotate
    <3>2. t = req[r].token /\ Live(t) /\ rows'[t] = Rotated(rows[t], c, at)
      BY <1>3, <2>3, <3>1 DEF TypeOK
    <3>3. rows'[t].code = c
      BY <1>3, <3>2, LiveRow DEF Rotated, Row
    <3>4. req'[r] = Email(t, c)
      BY <1>3, <3>1, <3>2 DEF TypeOK
    <3>5. QED
      BY <3>3, <3>4 DEF OnItsWay, Pending, HeldIn, Email
  <2>4. CASE /\ rows'[t] # rows[t]
             /\ ~\E r \in Requests : InsertCode(r) \/ Rotate(r)
    <3>1. Live(t) /\ rows'[t].code = rows[t].code
      <4>1. CASE \E r \in Requests : CountMiss(r)
        <5>1. Live(t) /\ rows'[t] = Guessed(rows[t])
          BY <1>3, <2>4, <4>1 DEF CountMiss, TypeOK, Guessed
        <5>2. QED
          BY <1>3, <5>1, LiveRow DEF Guessed, Row
      <4>2. CASE \E r \in Requests : Redeem(r)
        <5>a. PICK u \in Tokens :
                rows' = IF Live(u) THEN [rows EXCEPT ![u].used = TRUE] ELSE rows
          BY <1>3, <4>2, HeldTypes DEF Redeem, MarkUsed
        <5>1. Live(t) /\ rows'[t] = Spent(rows[t])
          BY <1>3, <2>4, <5>a DEF TypeOK, Spent
        <5>2. QED
          BY <1>3, <5>1, LiveRow DEF Spent, Row
      <4>3. CASE Prune \/ \E u \in Users : DeleteUser(u)
        BY <1>3, <2>4, <4>3 DEF Prune, DeleteUser, Live, Gone
      <4>4. QED
        BY <1>3, <2>4, <4>1, <4>2, <4>3
           DEF Next, Start, Finish, LoginTrusted, LoginUntrusted, VerifyWrong,
               VerifyRight, ResendRead, MailCode, Die, Tick, vars
    <3>2. QED
      BY <2>1, <3>1
  <2>5. CASE rows'[t] = rows[t]
    BY <2>1, <2>5 DEF Live
  <2>6. QED
    BY <2>2, <2>3, <2>4, <2>5
<1>4. QED
  BY <1>2, <1>3, TypeCorrect, PTL DEF Spec

-----------------------------------------------------------------------------
(* Trusted devices.                                                        *)

ByCode(u, d, v) == v.via = "code" /\ v.user = u /\ v.device = d

\* Trust that is recorded dates from a session opened with a code, and lasts
\* from then.
TrustHasOrigin ==
    \A u \in Users, d \in Devices : devices[u][d] # 0 =>
        \E v \in sessions : /\ ByCode(u, d, v)
                            /\ v.at <= now /\ devices[u][d] = v.at + TrustTTL

\* While the account stands, no session's trust is cut short: not by a prune,
\* not by a later session.
TrustIsKept ==
    \A v \in sessions :
        /\ v.at <= now
        /\ (v.via = "code" /\ v.user \in accounts /\ v.device # NoDevice)
             => \/ devices[v.user][v.device] >= v.at + TrustTTL
                \/ now >= v.at + TrustTTL

TrustBooks == TrustHasOrigin /\ TrustIsKept /\ TrustIsEarned

\* The steps that leave trust alone: time at most goes on.
LEMMA TrustLeftAlone ==
  ASSUME TypeOK, TypeOK', TrustBooks,
         UNCHANGED <<accounts, devices, sessions>>, now <= now'
  PROVE  TrustBooks'
<1>1. TrustHasOrigin'
  BY DEF TrustBooks, TrustHasOrigin, ByCode, TypeOK, Session
<1>2. TrustIsKept'
  <2> SUFFICES ASSUME NEW v \in sessions
               PROVE  /\ v.at <= now'
                      /\ (v.via = "code" /\ v.user \in accounts
                            /\ v.device # NoDevice)
                          => \/ devices[v.user][v.device] >= v.at + TrustTTL
                             \/ now' >= v.at + TrustTTL
    BY DEF TrustIsKept
  <2>1. v.at \in Nat /\ v.at + TrustTTL \in Nat /\ now \in Nat /\ now' \in Nat
    BY TimesAreNat DEF TypeOK, Session
  <2>2. QED
    BY <2>1 DEF TrustBooks, TrustIsKept
<1>3. TrustIsEarned'
  BY DEF TrustBooks, TrustIsEarned
<1>4. QED
  BY <1>1, <1>2, <1>3 DEF TrustBooks

\* A login that skips the code is recorded with the trust it used.
LEMMA LoginTrustedKeepsBooks ==
  ASSUME TypeOK, TypeOK', TrustBooks, NEW r \in Requests, NEW u \in Users,
         NEW d \in Devices \cup {NoDevice}, LoginTrusted(r, u, d)
  PROVE  TrustBooks'
<1> DEFINE new == [user |-> u, device |-> d, via |-> "trust", at |-> now]
<1>1. /\ sessions' = sessions \cup {new}
      /\ UNCHANGED <<now, accounts, devices>>
      /\ d \in Devices /\ devices[u][d] > now /\ now \in Nat
  BY DEF LoginTrusted, Trusted, TypeOK
<1>2. TrustHasOrigin'
  BY <1>1 DEF TrustBooks, TrustHasOrigin
<1>3. TrustIsKept'
  BY <1>1 DEF TrustBooks, TrustIsKept
<1>4. \E v \in sessions : /\ v.via = "code" /\ v.user = u /\ v.device = d
                          /\ v.at <= now /\ now < v.at + TrustTTL
  BY <1>1 DEF TrustBooks, TrustHasOrigin, ByCode
<1>5. TrustIsEarned'
  BY <1>1, <1>4 DEF TrustBooks, TrustIsEarned
<1>6. QED
  BY <1>2, <1>3, <1>5 DEF TrustBooks

\* A redemption records the session and the trust it gives together.
LEMMA RedeemKeepsBooks ==
  ASSUME TypeOK, TypeOK', TrustBooks, NEW r \in Requests, Redeem(r)
  PROVE  TrustBooks'
<1>1. PICK u \in Users, d \in Devices \cup {NoDevice} :
        u = req[r].user /\ d = req[r].device
  BY HeldTypes DEF Redeem
<1> DEFINE new == [user |-> u, device |-> d, via |-> "code", at |-> now]
<1>2. /\ sessions' = sessions \cup {new}
      /\ UNCHANGED <<now, accounts>>
      /\ d = NoDevice => devices' = devices
      /\ d # NoDevice => devices' = [devices EXCEPT ![u][d] = now + TrustTTL]
      /\ now \in Nat /\ now + TrustTTL \in Nat
  BY <1>1, TimesAreNat DEF Redeem, TrustDevice, TypeOK
<1>3. TrustHasOrigin'
  <2> SUFFICES ASSUME NEW w \in Users, NEW e \in Devices, devices'[w][e] # 0
               PROVE  \E v \in sessions' :
                        /\ ByCode(w, e, v)
                        /\ v.at <= now /\ devices'[w][e] = v.at + TrustTTL
    BY <1>2 DEF TrustHasOrigin, ByCode
  <2>1. CASE w = u /\ e = d
    <3>1. devices'[w][e] = now + TrustTTL
      BY <1>2, <2>1, NoDeviceIsNoDevice DEF TypeOK
    <3>2. ByCode(w, e, new) /\ new.at <= now /\ new \in sessions'
      BY <1>2, <2>1 DEF ByCode
    <3>3. QED
      BY <3>1, <3>2
  <2>2. CASE ~(w = u /\ e = d)
    <3>1. devices'[w][e] = devices[w][e]
      BY <1>2, <2>2 DEF TypeOK
    <3>2. QED
      BY <1>2, <3>1 DEF TrustBooks, TrustHasOrigin
  <2>3. QED
    BY <2>1, <2>2
<1>4. TrustIsKept'
  <2> SUFFICES ASSUME NEW v \in sessions'
               PROVE  /\ v.at <= now
                      /\ (v.via = "code" /\ v.user \in accounts
                            /\ v.device # NoDevice)
                          => \/ devices'[v.user][v.device] >= v.at + TrustTTL
                             \/ now >= v.at + TrustTTL
    BY <1>2 DEF TrustIsKept
  <2>1. /\ v.at \in Nat /\ v.at + TrustTTL \in Nat /\ v.user \in Users
        /\ v.device \in Devices \cup {NoDevice}
        /\ v \in sessions => v.at <= now
        /\ v \notin sessions => v = new
    BY <1>2, TimesAreNat DEF TypeOK, Session, TrustBooks, TrustIsKept
  <2>2. v.at <= now
    BY <1>2, <2>1
  <2>3. CASE v.user = u /\ v.device = d /\ d # NoDevice
    <3>1. devices'[v.user][v.device] = now + TrustTTL
      BY <1>2, <2>3 DEF TypeOK
    <3>2. QED
      BY <1>2, <2>1, <2>2, <3>1, TimesAreNat
  <2>4. CASE ~(v.user = u /\ v.device = d)
    <3>1. v \in sessions
      BY <2>1, <2>4
    <3>2. v.device # NoDevice => devices'[v.user][v.device] = devices[v.user][v.device]
      BY <1>2, <2>1, <2>4 DEF TypeOK
    <3>3. QED
      BY <2>2, <3>1, <3>2 DEF TrustBooks, TrustIsKept
  <2>5. CASE v.device = NoDevice
    BY <2>2, <2>5
  <2>6. QED
    BY <2>3, <2>4, <2>5
<1>5. TrustIsEarned'
  BY <1>2 DEF TrustBooks, TrustIsEarned
<1>6. QED
  BY <1>3, <1>4, <1>5 DEF TrustBooks

\* A prune drops trust that has run out, and a deletion that of the account.
LEMMA CleanupKeepsBooks ==
  ASSUME TypeOK, TypeOK', TrustBooks, Prune \/ \E u \in Users : DeleteUser(u)
  PROVE  TrustBooks'
<1>1. /\ UNCHANGED <<now, sessions>> /\ accounts' \subseteq accounts
      /\ now \in Nat
      /\ \A u \in Users, d \in Devices :
            /\ devices[u][d] \in Nat /\ devices'[u][d] \in {devices[u][d], 0}
            /\ devices'[u][d] # devices[u][d] =>
                 u \notin accounts' \/ devices[u][d] <= now
  BY DEF Prune, DeleteUser, TypeOK
<1>2. TrustHasOrigin'
  BY <1>1 DEF TrustBooks, TrustHasOrigin
<1>3. TrustIsKept'
  <2> SUFFICES ASSUME NEW v \in sessions, v.via = "code", v.user \in accounts',
                      v.device # NoDevice
               PROVE  \/ devices'[v.user][v.device] >= v.at + TrustTTL
                      \/ now >= v.at + TrustTTL
    BY <1>1 DEF TrustIsKept, TrustBooks
  <2>1. /\ v.at \in Nat /\ v.at + TrustTTL \in Nat /\ v.user \in Users
        /\ v.device \in Devices
    BY TimesAreNat DEF TypeOK, Session
  <2>2. \/ devices[v.user][v.device] >= v.at + TrustTTL
        \/ now >= v.at + TrustTTL
    BY <1>1 DEF TrustBooks, TrustIsKept
  <2>3. QED
    BY <1>1, <2>1, <2>2
<1>4. TrustIsEarned'
  BY <1>1 DEF TrustBooks, TrustIsEarned
<1>5. QED
  BY <1>2, <1>3, <1>4 DEF TrustBooks

\* Whatever logins, prunes, deletions and the clock do: recorded trust comes
\* from a session opened with a code, and lasts as long as that one gives it.
THEOREM TrustIsBooked == Spec => []TrustBooks
<1>1. Init => TrustBooks
  BY DEF Init, TrustBooks, TrustHasOrigin, TrustIsKept, TrustIsEarned
<1>2. ASSUME TypeOK, TypeOK', TrustBooks, [Next]_vars
      PROVE  TrustBooks'
  <2>1. now \in Nat /\ now <= now + 1
    BY <1>2 DEF TypeOK
  <2> DEFINE Alone == UNCHANGED <<accounts, devices, sessions>> /\ now <= now'
  <2>2. Alone => TrustBooks'
    BY <1>2, TrustLeftAlone
  <2>3. ASSUME NEW r \in Requests, NEW u \in Users,
               NEW d \in Devices \cup {NoDevice}, LoginUntrusted(r, u, d)
        PROVE  Alone
    BY <2>1, <2>3 DEF LoginUntrusted
  <2>4. ASSUME NEW r \in Requests, NEW t \in Tokens,
               \/ \E c \in Codes : VerifyWrong(r, t, c)
               \/ \E d \in Devices \cup {NoDevice} : VerifyRight(r, t, d)
               \/ ResendRead(r, t)
        PROVE  Alone
    BY <2>1, <2>4 DEF VerifyWrong, VerifyRight, ResendRead
  <2>5. ASSUME NEW r \in Requests,
               \/ InsertCode(r) \/ MailCode(r) \/ CountMiss(r) \/ Rotate(r)
               \/ Die(r)
        PROVE  Alone
    BY <2>1, <2>5 DEF InsertCode, MailCode, CountMiss, Rotate, Die
  <2>6. CASE Tick \/ UNCHANGED vars
    <3>1. Alone
      BY <2>1, <2>6 DEF Tick, vars
    <3>2. QED
      BY <2>2, <3>1
  <2>7. CASE Prune \/ \E u \in Users : DeleteUser(u)
    BY <1>2, <2>7, CleanupKeepsBooks
  <2> HIDE DEF Alone
  <2>8. QED
    BY <1>2, <2>2, <2>3, <2>4, <2>5, <2>6, <2>7, LoginTrustedKeepsBooks,
       RedeemKeepsBooks DEF Next, Start, Finish
<1>3. QED
  BY <1>1, <1>2, TypeCorrect, PTL DEF Spec

\* No login skips the code but on a device where the same user entered one
\* within the trust window.
THEOREM TrustWasEarned == Spec => []TrustIsEarned
<1>1. TrustBooks => TrustIsEarned
  BY DEF TrustBooks
<1>2. QED
  BY <1>1, TrustIsBooked, PTL

\* A device on which a code was entered is trusted for the whole window.
THEOREM TrustLasts == Spec => []TrustSlides
<1>1. TypeOK /\ TrustBooks => TrustSlides
  <2> SUFFICES ASSUME TypeOK, TrustBooks, NEW v \in sessions,
                      v.via = "code", v.user \in accounts,
                      now < v.at + TrustTTL, v.device # NoDevice
               PROVE  Trusted(v.user, v.device)
    BY DEF TrustSlides
  <2>1. /\ v.user \in Users /\ v.device \in Devices /\ v.at + TrustTTL \in Nat
        /\ now \in Nat /\ devices[v.user][v.device] \in Nat
    BY TimesAreNat DEF TypeOK, Session
  <2>2. QED
    BY <2>1 DEF TrustBooks, TrustIsKept, Trusted
<1>2. QED
  BY <1>1, TrustIsBooked, TypeCorrect, PTL
=============================================================================
