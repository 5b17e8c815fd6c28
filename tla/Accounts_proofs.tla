-------------------------- MODULE Accounts_proofs ---------------------------
(***************************************************************************)
(* Proofs about Accounts, for any number of ids, addresses, passwords,     *)
(* tokens and racing requests, with or without required verification.      *)
(***************************************************************************)
EXTENDS Accounts, FiniteSetTheorems, TLAPS

-----------------------------------------------------------------------------
(* What the type invariant says of a request in flight and of a row.       *)

\* What a request holds is typed by its step.
LEMMA HeldTypes ==
  ASSUME TypeOK, NEW r \in Requests
  PROVE  /\ req[r] # Idle /\ req[r].step # "create" => req[r].id \in Ids
         /\ req[r].step \in {"verify", "reset"} => req[r].token \in Tokens
         /\ req[r].step \in {"reset", "change", "create"}
              => req[r].password \in Passwords
         /\ req[r].step = "relink" => req[r].to \in Emails
         /\ req[r].step = "order" => req[r].what \in Order
                                       /\ req[r].by \in Ids \cup {Operator}
         /\ req[r].step = "create" => req[r].email \in Emails
BY DEF TypeOK, Request, Idle

\* A live entry of users is a row.
LEMMA LiveRow ==
  ASSUME TypeOK, NEW i \in Ids, Live(i)
  PROVE  users[i] \in Row
BY DEF TypeOK, Live, Unborn, Gone

\* A row stays one when its role changes.
LEMMA RowWithRole ==
  ASSUME NEW row \in Row, NEW role \in Roles
  PROVE  [row EXCEPT !.role = role] \in Row
BY DEF Row

\* What the handlers write is a row.
LEMMA RowUpdates ==
  ASSUME TypeOK, NEW row \in Row
  PROVE  /\ \A v \in BOOLEAN : Marked(row, v) \in Row
         /\ \A p \in Passwords : Chosen(row, p) \in Row /\ ResetTo(row, p) \in Row
         /\ \A t \in Tokens :
              Resettable(row, t) \in Row /\ [row EXCEPT !.vtoken = t] \in Row
         /\ \A role \in Roles : [row EXCEPT !.role = role] \in Row
<1>1. now + ResetTTL \in Nat
  BY TimesAreNat DEF TypeOK
<1>2. \A p \in Passwords : Chosen(row, p) \in Row
  BY DEF Row, Chosen
<1>3. \A p \in Passwords : ResetTo(row, p) \in Row
  BY <1>2 DEF Row, ResetTo
<1>4. \A v \in BOOLEAN : Marked(row, v) \in Row
  BY DEF Row, Marked
<1>5. \A t \in Tokens :
         Resettable(row, t) \in Row /\ [row EXCEPT !.vtoken = t] \in Row
  BY <1>1 DEF Row, Resettable
<1>6. \A role \in Roles : [row EXCEPT !.role = role] \in Row
  BY RowWithRole
<1>7. QED
  BY <1>2, <1>3, <1>4, <1>5, <1>6

\* A new account is a row.
LEMMA AccountIsRow ==
  ASSUME NEW e \in Emails, NEW p \in Passwords, NEW v \in BOOLEAN,
         NEW m \in BOOLEAN, NEW t \in Tokens \cup {NoToken}
  PROVE  Account(e, p, v, m, t) \in Row
BY DEF Account, Row, Roles, Rank

\* An UPDATE by id writes a row, or nothing.
LEMMA UpdateTypes ==
  ASSUME TypeOK, NEW i \in Ids, NEW row, Update(i, row),
         Live(i) => row \in Row \cup {Gone}
  PROVE  users' \in [Ids -> Row \cup {Unborn, Gone}]
BY DEF Update, TypeOK

-----------------------------------------------------------------------------
\* Every reachable state is well typed.
THEOREM TypeCorrect == Spec => []TypeOK
<1>1. Init => TypeOK
  <2> SUFFICES ASSUME Init PROVE TypeOK
    OBVIOUS
  <2>1. ASSUME NEW i \in DOMAIN FounderEmail
        PROVE  [Account(FounderEmail[i], FounderPassword, TRUE, FALSE, NoToken)
                  EXCEPT !.role = "admin"] \in Row
    <3>1. Account(FounderEmail[i], FounderPassword, TRUE, FALSE, NoToken) \in Row
      BY AccountIsRow, FoundersAreAccounts
    <3>2. "admin" \in Roles
      BY DEF Roles, Rank
    <3>3. QED
      BY <3>1, <3>2, RowWithRole
  <2>2. users \in [Ids -> Row \cup {Unborn, Gone}]
    BY <2>1 DEF Init
  <2>3. mailed \in [Tokens -> Link \cup {Unmailed}]
        /\ resets \in [Tokens -> Nat] /\ req \in [Requests -> Request]
    BY DEF Init, Request
  <2>4. QED
    BY <2>2, <2>3 DEF Init, TypeOK
<1>2. TypeOK /\ [Next]_vars => TypeOK'
  <2> SUFFICES ASSUME TypeOK, [Next]_vars PROVE TypeOK'
    OBVIOUS
  <2>1. ASSUME NEW e \in Emails, NEW p \in Passwords, Signup(e, p)
        PROVE  TypeOK'
    <3>1. PICK i \in Ids, t \in Tokens :
            /\ users' = [users EXCEPT ![i] = Account(e, p, FALSE, FALSE, t)]
            /\ mailed' = [mailed EXCEPT ![t] = [kind |-> "verify", to |-> e]]
      BY <2>1 DEF Signup
    <3>2. Account(e, p, FALSE, FALSE, t) \in Row
      BY AccountIsRow
    <3>3. QED
      BY <2>1, <3>1, <3>2 DEF Signup, TypeOK, Link
  <2>2. ASSUME NEW r \in Requests, NEW i \in Ids, NEW t \in Tokens,
               VerifyRead(r, i, t)
        PROVE  TypeOK'
    BY <2>2 DEF VerifyRead, TypeOK, Request
  <2>3. ASSUME NEW r \in Requests, VerifyWrite(r)
        PROVE  TypeOK'
    <3>1. req[r].id \in Ids
      BY <2>3, HeldTypes DEF VerifyWrite, Idle
    <3>2. users' \in [Ids -> Row \cup {Unborn, Gone}]
      BY <2>3, <3>1, LiveRow, RowUpdates, UpdateTypes DEF VerifyWrite
    <3>3. QED
      BY <2>3, <3>2 DEF VerifyWrite, TypeOK, Request
  <2>4. ASSUME NEW r \in Requests, NEW i \in Ids, ResendRead(r, i)
        PROVE  TypeOK'
    <3>1. users[i].email \in Emails
      BY <2>4, LiveRow DEF ResendRead, Row
    <3>2. QED
      BY <2>4, <3>1 DEF ResendRead, TypeOK, Request
  <2>5. ASSUME NEW r \in Requests, QueueVerification(r)
        PROVE  TypeOK'
    <3>1. req[r].id \in Ids /\ req[r].to \in Emails
      BY <2>5, HeldTypes DEF QueueVerification, Idle
    <3>2. PICK t \in Tokens :
            /\ Update(req[r].id, [users[req[r].id] EXCEPT !.vtoken = t])
            /\ mailed' = [mailed EXCEPT ![t] =
                   [kind |-> "verify", to |-> req[r].to]]
            /\ late' \in {late, late \cup {t}}
      BY <2>5 DEF QueueVerification
    <3>3. users' \in [Ids -> Row \cup {Unborn, Gone}]
      BY <3>1, <3>2, LiveRow, RowUpdates, UpdateTypes
    <3>4. QED
      BY <2>5, <3>1, <3>2, <3>3 DEF QueueVerification, TypeOK, Request, Link
  <2>6. ASSUME NEW i \in Ids, QueueReset(i)
        PROVE  /\ users' \in [Ids -> Row \cup {Unborn, Gone}]
               /\ mailed' \in [Tokens -> Link \cup {Unmailed}]
    <3>1. users[i] \in Row
      BY <2>6, LiveRow DEF QueueReset
    <3>2. PICK t \in Tokens :
            /\ users' = [users EXCEPT ![i] = Resettable(users[i], t)]
            /\ mailed' = [mailed EXCEPT ![t] =
                   [kind |-> "reset", to |-> users[i].email]]
      BY <2>6 DEF QueueReset, TypeOK
    <3>3. Resettable(users[i], t) \in Row /\ users[i].email \in Emails
      BY <3>1, RowUpdates DEF Row
    <3>4. QED
      BY <3>2, <3>3 DEF TypeOK, Link
  <2>7. ASSUME NEW i \in Ids, ForgotPassword(i)
        PROVE  TypeOK'
    BY <2>6, <2>7 DEF ForgotPassword, TypeOK
  <2>8. ASSUME NEW r \in Requests, NEW i \in Ids, NEW t \in Tokens,
               NEW p \in Passwords, ResetRead(r, i, t, p)
        PROVE  TypeOK'
    BY <2>8 DEF ResetRead, TypeOK, Request
  <2>9. ASSUME NEW r \in Requests, ResetWrite(r)
        PROVE  TypeOK'
    <3>1. /\ req[r].id \in Ids /\ req[r].token \in Tokens
          /\ req[r].password \in Passwords
      BY <2>9, HeldTypes DEF ResetWrite, Idle
    <3>2. users' \in [Ids -> Row \cup {Unborn, Gone}]
      BY <2>9, <3>1, LiveRow, RowUpdates, UpdateTypes DEF ResetWrite
    <3>3. QED
      BY <2>9, <3>1, <3>2 DEF ResetWrite, TypeOK, Request
  <2>10. ASSUME NEW r \in Requests, NEW i \in Ids, NEW current \in Passwords,
                NEW p \in Passwords, ChangeRead(r, i, current, p)
         PROVE  TypeOK'
    BY <2>10 DEF ChangeRead, TypeOK, Request
  <2>11. ASSUME NEW r \in Requests, ChangeWrite(r)
         PROVE  TypeOK'
    <3>1. req[r].id \in Ids /\ req[r].password \in Passwords
      BY <2>11, HeldTypes DEF ChangeWrite, Idle
    <3>2. users' \in [Ids -> Row \cup {Unborn, Gone}]
      BY <2>11, <3>1, LiveRow, RowUpdates, UpdateTypes DEF ChangeWrite
    <3>3. QED
      BY <2>11, <3>2 DEF ChangeWrite, TypeOK, Request
  <2>12. ASSUME NEW r \in Requests, NEW by \in Ids \cup {Operator}, NEW i \in Ids,
                NEW what \in Order, Ordered(r, by, i, what)
         PROVE  TypeOK'
    BY <2>12 DEF Ordered, TypeOK, Request
  <2>13. ASSUME NEW r \in Requests, NEW by \in Ids, NEW i \in Ids,
                AskOverOther(r, by, i) \/ AskOverAny(r, by, i)
                  \/ AskRelink(r, by, i) \/ CliSetRole(r, i)
         PROVE  TypeOK'
    <3>1. PICK who \in Ids \cup {Operator}, what \in Order :
             Ordered(r, who, i, what)
      BY <2>13, GrantsAreRoles
         DEF AskOverOther, AskOverAny, AskRelink, CliSetRole, Order
    <3>2. QED
      BY <2>12, <3>1
  <2>14. ASSUME NEW r \in Requests, NEW by \in Ids, NEW e \in Emails,
                NEW p \in Passwords, AskCreate(r, by, e, p)
         PROVE  TypeOK'
    BY <2>14 DEF AskCreate, TypeOK, Request
  <2>15. ASSUME NEW r \in Requests, PatchRole(r)
         PROVE  TypeOK'
    <3>1. req[r].id \in Ids /\ req[r].what.role \in Roles
      BY <2>15, HeldTypes DEF PatchRole, Due, Order, Idle
    <3>2. users' \in [Ids -> Row \cup {Unborn, Gone}]
      BY <2>15, <3>1, LiveRow, RowUpdates, UpdateTypes DEF PatchRole
    <3>3. QED
      BY <2>15, <3>2 DEF PatchRole, TypeOK, Request
  <2>16. ASSUME NEW r \in Requests, PatchVerification(r)
         PROVE  TypeOK'
    <3>1. req[r].id \in Ids /\ req[r].what.value \in BOOLEAN
      BY <2>16, HeldTypes DEF PatchVerification, Due, Order, Idle
    <3>2. users' \in [Ids -> Row \cup {Unborn, Gone}]
      BY <2>16, <3>1, LiveRow, RowUpdates, UpdateTypes DEF PatchVerification
    <3>3. QED
      BY <2>16, <3>2 DEF PatchVerification, TypeOK, Request
  <2>17. ASSUME NEW r \in Requests, AdminReset(r)
         PROVE  TypeOK'
    <3>1. req[r].id \in Ids
      BY <2>17, HeldTypes DEF AdminReset, Due, Idle
    <3>2. QED
      BY <2>6, <2>17, <3>1 DEF AdminReset, TypeOK, Request
  <2>18. ASSUME NEW r \in Requests, DeleteUser(r)
         PROVE  TypeOK'
    <3>1. req[r].id \in Ids
      BY <2>18, HeldTypes DEF DeleteUser, Due, Idle
    <3>2. users' \in [Ids -> Row \cup {Unborn, Gone}]
      BY <2>18, <3>1, UpdateTypes DEF DeleteUser
    <3>3. QED
      BY <2>18, <3>2 DEF DeleteUser, TypeOK, Request
  <2>19. ASSUME NEW r \in Requests, StaffResendRead(r)
         PROVE  TypeOK'
    <3>1. req[r].id \in Ids
      BY <2>19, HeldTypes DEF StaffResendRead, Due, Idle
    <3>2. users[req[r].id].email \in Emails
      BY <2>19, <3>1, LiveRow DEF StaffResendRead, Row
    <3>3. QED
      BY <2>19, <3>1, <3>2 DEF StaffResendRead, Relink, TypeOK, Request
  <2>20. ASSUME NEW r \in Requests, AdminCreate(r)
         PROVE  TypeOK'
    <3>1. req[r].email \in Emails /\ req[r].password \in Passwords
      BY <2>20, HeldTypes DEF AdminCreate
    <3>2. Account(req[r].email, req[r].password, TRUE, TRUE, NoToken) \in Row
      BY <3>1, AccountIsRow
    <3>3. QED
      BY <2>20, <3>2 DEF AdminCreate, TypeOK, Request
  <2>21. ASSUME NEW r \in Requests, Die(r)
         PROVE  TypeOK'
    BY <2>21 DEF Die, TypeOK, Request
  <2>22. CASE Tick
    BY <2>22 DEF Tick, TypeOK
  <2>23. CASE UNCHANGED vars
    BY <2>23 DEF vars, TypeOK
  <2>24. QED
    BY <2>1, <2>2, <2>3, <2>4, <2>5, <2>7, <2>8, <2>9, <2>10, <2>11, <2>13,
       <2>14, <2>15, <2>16, <2>17, <2>18, <2>19, <2>20, <2>21, <2>22, <2>23
       DEF Next, Public, Start, Finish
<1>3. QED
  BY <1>1, <1>2, PTL DEF Spec

-----------------------------------------------------------------------------
(* The last administrator.                                                 *)

\* An UPDATE by id that keeps the role of the row it writes takes no
\* administrator away.
LEMMA UpdateKeepsAdmins ==
  ASSUME TypeOK, NEW i \in Ids, NEW row, Update(i, row),
         Live(i) => row.state = "live" /\ row.role = users[i].role
  PROVE  Admins \subseteq Admins'
BY DEF Update, Admins, Live, TypeOK

\* A new account takes no administrator away either.
LEMMA BirthKeepsAdmins ==
  ASSUME TypeOK, NEW i \in Ids, NEW row, users[i] = Unborn,
         users' = [users EXCEPT ![i] = row]
  PROVE  Admins \subseteq Admins'
BY DEF Admins, Live, Unborn, TypeOK

\* A demotion or a deletion touches the administrators in no account but the
\* one it names.
LEMMA UpdateKeepsOthers ==
  ASSUME TypeOK, NEW i \in Ids, NEW row, Update(i, row)
  PROVE  Admins \ {i} \subseteq Admins'
BY DEF Update, Admins, Live, TypeOK

\* Only a role change or a deletion may take administrators away.
LEMMA AdminsFall ==
  ASSUME TypeOK, [Next]_vars, ~(Admins \subseteq Admins')
  PROVE  \E r \in Requests : PatchRole(r) \/ DeleteUser(r)
<1>1. ASSUME NEW e \in Emails, NEW p \in Passwords, Signup(e, p)
      PROVE  FALSE
  BY <1>1, BirthKeepsAdmins DEF Signup
<1>2. ASSUME NEW i \in Ids, QueueReset(i)
      PROVE  FALSE
  <2>1. users[i] \in Row
    BY <1>2, LiveRow DEF QueueReset
  <2>2. PICK t \in Tokens : users' = [users EXCEPT ![i] = Resettable(users[i], t)]
    BY <1>2 DEF QueueReset, TypeOK
  <2>3. Update(i, Resettable(users[i], t))
    BY <1>2, <2>2 DEF Update, QueueReset
  <2>4. /\ Resettable(users[i], t).state = "live"
        /\ Resettable(users[i], t).role = users[i].role
    BY <2>1 DEF Resettable, Row
  <2>5. QED
    BY <2>3, <2>4, UpdateKeepsAdmins
<1>3. ASSUME NEW r \in Requests,
             VerifyWrite(r) \/ QueueVerification(r) \/ ResetWrite(r)
               \/ ChangeWrite(r) \/ PatchVerification(r)
      PROVE  FALSE
  <2>0. req[r].step \in {"verify", "relink", "reset", "change", "order"}
    BY <1>3 DEF VerifyWrite, QueueVerification, ResetWrite, ChangeWrite,
                PatchVerification, Due
  <2>1. req[r].id \in Ids
    BY <2>0, HeldTypes DEF Idle
  <2>2. Live(req[r].id) => users[req[r].id] \in Row
    BY <2>1, LiveRow
  <2>3. CASE VerifyWrite(r)
    BY <2>1, <2>2, <2>3, UpdateKeepsAdmins DEF VerifyWrite, Marked, Row
  <2>4. CASE QueueVerification(r)
    <3>1. PICK t \in Tokens :
            Update(req[r].id, [users[req[r].id] EXCEPT !.vtoken = t])
      BY <2>4 DEF QueueVerification
    <3>2. QED
      BY <2>1, <2>2, <3>1, UpdateKeepsAdmins DEF Row
  <2>5. CASE ResetWrite(r)
    BY <2>1, <2>2, <2>5, UpdateKeepsAdmins DEF ResetWrite, ResetTo, Chosen, Row
  <2>6. CASE ChangeWrite(r)
    BY <2>1, <2>2, <2>6, UpdateKeepsAdmins DEF ChangeWrite, Chosen, Row
  <2>7. CASE PatchVerification(r)
    BY <2>1, <2>2, <2>7, UpdateKeepsAdmins DEF PatchVerification, Marked, Row
  <2>8. QED
    BY <1>3, <2>3, <2>4, <2>5, <2>6, <2>7
<1>4. ASSUME NEW r \in Requests, AdminCreate(r)
      PROVE  FALSE
  BY <1>4, BirthKeepsAdmins DEF AdminCreate
<1>5. ASSUME NEW r \in Requests, AdminReset(r)
      PROVE  FALSE
  <2>1. req[r].id \in Ids
    BY <1>5, HeldTypes DEF AdminReset, Due, Idle
  <2>2. QED
    BY <1>2, <1>5, <2>1 DEF AdminReset
<1>6. users' # users
  BY DEF Admins, Live
<1>7. QED
  BY <1>1, <1>2, <1>3, <1>4, <1>5, <1>6
     DEF Next, Public, Start, Finish, vars, ForgotPassword, VerifyRead,
         ResendRead, ResetRead, ChangeRead, AskOverOther, AskOverAny, AskRelink,
         CliSetRole, AskCreate, Ordered, StaffResendRead, Die, Tick

-----------------------------------------------------------------------------
(* Counting the resets in flight.                                          *)

\* A set of requests is finite and no larger than all of them, and one of its
\* subsets no larger than it is; smaller, when an element is missing.
LEMMA Counts ==
  ASSUME NEW F \in SUBSET Requests, NEW G \in SUBSET F
  PROVE  /\ Cardinality(F) \in Nat /\ Cardinality(G) \in Nat /\ Racers \in Nat
         /\ Cardinality(G) <= Cardinality(F) /\ Cardinality(F) <= Racers
         /\ \A r \in F \ G : Cardinality(G) + 1 <= Cardinality(F)
<1>1. /\ IsFiniteSet(F) /\ Cardinality(F) \in Nat /\ Racers \in Nat
      /\ Cardinality(F) <= Racers
  BY RequestsAreFinite, FS_Subset, FS_CardinalityType DEF Racers
<1>2. IsFiniteSet(G) /\ Cardinality(G) \in Nat /\ Cardinality(G) <= Cardinality(F)
  BY <1>1, FS_Subset, FS_CardinalityType
<1>3. ASSUME NEW r \in F \ G
      PROVE  Cardinality(G) + 1 <= Cardinality(F)
  <2>1. /\ IsFiniteSet(F \ {r})
        /\ Cardinality(F \ {r}) = Cardinality(F) - 1
    BY <1>1, FS_RemoveElement
  <2>2. G \in SUBSET (F \ {r})
    BY <1>3
  <2>3. Cardinality(G) <= Cardinality(F \ {r})
    BY <2>1, <2>2, FS_Subset
  <2>4. QED
    BY <1>1, <1>2, <2>1, <2>3
<1>4. QED
  BY <1>1, <1>2, <1>3

\* The counts of SpendBudget are numbers within the racers.
LEMMA SpendTypes ==
  ASSUME TypeOK, NEW t \in Tokens
  PROVE  /\ Resetting(t) \in SUBSET Requests
         /\ Cardinality(Resetting(t)) \in Nat /\ Racers \in Nat
         /\ Cardinality(Resetting(t)) <= Racers
         /\ resets[t] \in Nat
<1>1. Resetting(t) \in SUBSET Requests
  BY DEF Resetting
<1>2. QED
  BY <1>1, Counts DEF TypeOK

-----------------------------------------------------------------------------
(* The bookkeeping is inductive.                                           *)

\* What a step that mints nothing may do to an account: nothing, delete it, or
\* rewrite it under the same address with no link it did not hold.
Fades(i) ==
    \/ users'[i] = users[i]
    \/ Live(i) /\ users'[i] = Gone
    \/ /\ Live(i) /\ users'[i].state = "live"
       /\ users'[i].email = users[i].email
       /\ users'[i].vtoken \in {users[i].vtoken, NoToken}
       /\ users'[i].rtoken \in {users[i].rtoken, NoToken}

\* A request that takes up nothing new but an authority over other accounts.
Orders(q) ==
    \/ req'[q] \in {req[q], Idle}
    \/ req'[q].step \in {"change", "create"}
    \/ /\ req'[q].step = "order"
       /\ req'[q].what.op \in {"role", "delete"} => req'[q].by # req'[q].id

\* When accounts only fade, so do addresses and links.
LEMMA Fading ==
  ASSUME TypeOK, \A i \in Ids : Fades(i)
  PROVE  \A i \in Ids :
           /\ Live(i)' => Live(i) /\ users'[i].email = users[i].email
           /\ users[i] # Unborn => users'[i] # Unborn
           /\ \A t \in Tokens : Holds(i, t)' => Holds(i, t)
<1>1. ASSUME NEW i \in Ids
      PROVE  /\ Live(i)' => Live(i) /\ users'[i].email = users[i].email
             /\ users[i] # Unborn => users'[i] # Unborn
             /\ \A t \in Tokens : Holds(i, t)' => Holds(i, t)
  BY NamesDiffer DEF Fades, Live, Holds, Unborn, Gone
<1>2. QED
  BY <1>1

\* Accounts that fade keep what the bookkeeping says of them alone.
LEMMA FadingKeepsHome ==
  ASSUME TypeOK, Bookkeeping, mailed' = mailed, \A i \in Ids : Fades(i),
         \A q \in Requests : Orders(q)
  PROVE  OneOwner' /\ InFlight' /\ LinksStayHome'
<1>1. \A i \in Ids :
        /\ Live(i)' => Live(i) /\ users'[i].email = users[i].email
        /\ users[i] # Unborn => users'[i] # Unborn
  BY Fading
<1>2. OneOwner'
  BY <1>1 DEF Bookkeeping, OneOwner
<1>3. ASSUME NEW r \in Requests
      PROVE  /\ (req[r].step \in {"verify", "reset", "relink"})'
                  => req'[r] = req[r] /\ req[r].id \in Ids
             /\ (req[r].step = "order" /\ req[r].what.op \in {"role", "delete"})'
                  => req'[r].by # req'[r].id
  BY HeldTypes DEF Orders, Idle, Bookkeeping, InFlight
<1>4. InFlight'
  BY <1>1, <1>3 DEF Bookkeeping, InFlight, Unminted
<1>5. ASSUME NEW i \in Ids, Live(i)'
      PROVE  /\ users'[i].vtoken # NoToken => mailed'[users'[i].vtoken] =
                    [kind |-> "verify", to |-> users'[i].email]
             /\ users'[i].rtoken # NoToken => mailed'[users'[i].rtoken] =
                    [kind |-> "reset", to |-> users'[i].email]
  <2>1. /\ Live(i) /\ users'[i].email = users[i].email
        /\ users'[i].vtoken \in {users[i].vtoken, NoToken}
        /\ users'[i].rtoken \in {users[i].rtoken, NoToken}
    BY <1>5 DEF Fades, Live, Gone
  <2>2. QED
    BY <2>1 DEF Bookkeeping, LinksStayHome
<1>6. ASSUME NEW r \in Requests, req'[r].step \in {"verify", "reset"},
             users'[req'[r].id].state = "live"
      PROVE  mailed'[req'[r].token] =
               [kind |-> req'[r].step, to |-> users'[req'[r].id].email]
  <2>1. req'[r] = req[r] /\ req[r].id \in Ids
    BY <1>3, <1>6
  <2>2. Live(req[r].id) /\ users'[req[r].id].email = users[req[r].id].email
    BY <1>1, <1>6, <2>1 DEF Live
  <2>3. QED
    BY <1>6, <2>1, <2>2 DEF Bookkeeping, LinksStayHome
<1>7. LinksStayHome'
  BY <1>5, <1>6 DEF LinksStayHome, Live
<1>8. QED
  BY <1>2, <1>4, <1>7

\* If besides no link sets a password, everything is kept.
LEMMA FadingKeeps ==
  ASSUME TypeOK, Bookkeeping, mailed' = mailed, resets' = resets,
         \A i \in Ids : Fades(i), \A q \in Requests : Orders(q)
  PROVE  Bookkeeping'
<1>1. ASSUME NEW t \in Tokens
      PROVE  /\ resets'[t] + Cardinality(Resetting(t)') <= Racers
             /\ resets'[t] > 0 =>
                  ~Unminted(t)' /\ \A i \in Ids : ~Holds(i, t)'
  <2>1. Resetting(t)' \in SUBSET Resetting(t)
    BY DEF Resetting, Orders, Idle
  <2>2. /\ Cardinality(Resetting(t)') \in Nat
        /\ Cardinality(Resetting(t)') <= Cardinality(Resetting(t))
    BY <2>1, SpendTypes, Counts
  <2>3. resets[t] + Cardinality(Resetting(t)) <= Racers
    BY DEF Bookkeeping, SpendBudget
  <2>4. resets'[t] + Cardinality(Resetting(t)') <= Racers
    BY <2>2, <2>3, SpendTypes
  <2>5. resets[t] > 0 => ~Unminted(t) /\ \A i \in Ids : ~Holds(i, t)
    BY DEF Bookkeeping, SpendBudget
  <2>6. \A i \in Ids : Holds(i, t)' => Holds(i, t)
    BY Fading
  <2>7. QED
    BY <2>4, <2>5, <2>6 DEF Unminted
<1>2. SpendBudget'
  BY <1>1 DEF SpendBudget
<1>3. QED
  BY <1>2, FadingKeepsHome DEF Bookkeeping

\* An UPDATE by id fades the account it finds, if the row it writes does.
LEMMA UpdateFades ==
  ASSUME TypeOK, NEW i \in Ids, NEW row, Update(i, row),
         Live(i) => \/ row = Gone
                    \/ /\ row.state = "live" /\ row.email = users[i].email
                       /\ row.vtoken \in {users[i].vtoken, NoToken}
                       /\ row.rtoken \in {users[i].rtoken, NoToken}
  PROVE  \A j \in Ids : Fades(j)
BY DEF Update, Fades, Live, TypeOK

\* The writes by id keep the bookkeeping: all but the reset, which also counts.
LEMMA WriteKeeps ==
  ASSUME TypeOK, Bookkeeping, NEW r \in Requests,
         VerifyWrite(r) \/ ChangeWrite(r) \/ PatchRole(r) \/ PatchVerification(r)
           \/ DeleteUser(r)
  PROVE  Bookkeeping'
<1>1. req[r].step \in {"verify", "change", "order"}
  BY DEF VerifyWrite, ChangeWrite, PatchRole, PatchVerification, DeleteUser, Due
<1>2. req[r].id \in Ids
  BY <1>1, HeldTypes DEF Idle
<1>3. Live(req[r].id) => users[req[r].id] \in Row
  BY <1>2, LiveRow
<1>4. mailed' = mailed /\ resets' = resets /\ req' = [req EXCEPT ![r] = Idle]
  BY DEF VerifyWrite, ChangeWrite, PatchRole, PatchVerification, DeleteUser
<1>5. \A j \in Ids : Fades(j)
  <2>1. CASE VerifyWrite(r)
    BY <1>2, <1>3, <2>1, UpdateFades DEF VerifyWrite, Marked, Row
  <2>2. CASE ChangeWrite(r)
    BY <1>2, <1>3, <2>2, UpdateFades DEF ChangeWrite, Chosen, Row
  <2>3. CASE PatchRole(r)
    BY <1>2, <1>3, <2>3, UpdateFades DEF PatchRole, Row
  <2>4. CASE PatchVerification(r)
    BY <1>2, <1>3, <2>4, UpdateFades DEF PatchVerification, Marked, Row
  <2>5. CASE DeleteUser(r)
    BY <1>2, <2>5, UpdateFades DEF DeleteUser
  <2>6. QED
    BY <2>1, <2>2, <2>3, <2>4, <2>5
<1>6. \A q \in Requests : Orders(q)
  BY <1>4 DEF Orders, TypeOK
<1>7. QED
  BY <1>4, <1>5, <1>6, FadingKeeps

\* A reset that finds its account clears the link that account holds, and no
\* other account holds the request's own.
LEMMA ResetWriteKeeps ==
  ASSUME TypeOK, Bookkeeping, NEW r \in Requests, ResetWrite(r)
  PROVE  Bookkeeping'
<1>0. req[r].id \in Ids /\ req[r].token \in Tokens
  BY HeldTypes DEF ResetWrite, Idle
<1>1. PICK i \in Ids, t \in Tokens :
        /\ req[r].step = "reset" /\ req[r].id = i /\ req[r].token = t
        /\ Update(i, ResetTo(users[i], req[r].password))
        /\ resets' = [resets EXCEPT ![t] =
                        IF Live(i) THEN resets[t] + 1 ELSE resets[t]]
        /\ req' = [req EXCEPT ![r] = Idle] /\ mailed' = mailed
  BY <1>0 DEF ResetWrite
<1>2. Live(i) => users[i] \in Row
  BY LiveRow
<1>3. \A j \in Ids : Fades(j)
  BY <1>1, <1>2, UpdateFades DEF ResetTo, Chosen, Row
<1>4. \A q \in Requests : Orders(q)
  BY <1>1 DEF Orders, TypeOK
<1>5. ASSUME NEW u \in Tokens
      PROVE  /\ resets'[u] + Cardinality(Resetting(u)') <= Racers
             /\ resets'[u] > 0 =>
                  ~Unminted(u)' /\ \A j \in Ids : ~Holds(j, u)'
  <2>1. Resetting(u)' \in SUBSET Resetting(u)
    BY <1>4 DEF Resetting, Orders, Idle
  <2>2. /\ Cardinality(Resetting(u)') \in Nat
        /\ Cardinality(Resetting(u)') <= Cardinality(Resetting(u))
        /\ \A q \in Resetting(u) \ Resetting(u)' :
             Cardinality(Resetting(u)') + 1 <= Cardinality(Resetting(u))
    BY <2>1, SpendTypes, Counts
  <2>3. /\ resets[u] + Cardinality(Resetting(u)) <= Racers
        /\ resets[u] > 0 => ~Unminted(u) /\ \A j \in Ids : ~Holds(j, u)
    BY DEF Bookkeeping, SpendBudget
  <2>4. \A j \in Ids : Holds(j, u)' => Holds(j, u)
    BY <1>3, Fading
  <2>5. CASE u # t \/ ~Live(i)
    <3>1. resets'[u] = resets[u]
      BY <1>1, <2>5 DEF TypeOK
    <3>2. resets'[u] + Cardinality(Resetting(u)') <= Racers
      BY <2>2, <2>3, <3>1, SpendTypes
    <3>3. QED
      BY <1>1, <2>3, <2>4, <3>1, <3>2 DEF Unminted
  <2>6. CASE u = t /\ Live(i)
    <3>1. resets'[u] = resets[u] + 1
      BY <1>1, <2>6 DEF TypeOK
    <3>2. r \in Resetting(u) /\ r \notin Resetting(u)'
      BY <1>1, <2>6 DEF Resetting, TypeOK, Idle
    <3>3. resets'[u] + Cardinality(Resetting(u)') <= Racers
      BY <2>2, <2>3, <3>1, <3>2, SpendTypes
    <3>4. ~Unminted(u) /\ mailed[u] = [kind |-> "reset", to |-> users[i].email]
      BY <1>1, <2>6 DEF Bookkeeping, InFlight, LinksStayHome
    <3>5. ASSUME NEW j \in Ids, Holds(j, u)'
          PROVE  FALSE
      <4>1. Holds(j, u) /\ Live(j)
        BY <2>4, <3>5 DEF Holds
      <4>2. users[j].vtoken # u
        <5>1. ~([kind |-> "verify", to |-> users[j].email]
                  = [kind |-> "reset", to |-> users[i].email])
          OBVIOUS
        <5>2. QED
          BY <3>4, <4>1, <5>1, NamesDiffer DEF Bookkeeping, LinksStayHome
      <4>3. users[j].rtoken = u
        BY <4>1, <4>2 DEF Holds
      <4>4. [kind |-> "reset", to |-> users[j].email]
              = [kind |-> "reset", to |-> users[i].email]
        BY <3>4, <4>1, <4>3, NamesDiffer DEF Bookkeeping, LinksStayHome
      <4>5. users[j].email = users[i].email
        BY <4>4
      <4>6. j = i
        BY <2>6, <4>1, <4>5 DEF Bookkeeping, OneOwner
      <4>7. users'[i] = ResetTo(users[i], req[r].password)
        BY <1>1, <2>6 DEF Update, TypeOK
      <4>8. users'[i].rtoken = NoToken /\ users'[i].vtoken = users[i].vtoken
        BY <1>2, <2>6, <4>7 DEF ResetTo, Chosen, Row
      <4>9. QED
        BY <3>5, <4>2, <4>6, <4>8, NamesDiffer DEF Holds
    <3>6. QED
      BY <1>1, <3>3, <3>4, <3>5 DEF Unminted
  <2>7. QED
    BY <2>5, <2>6
<1>6. SpendBudget'
  BY <1>5 DEF SpendBudget
<1>7. QED
  BY <1>1, <1>3, <1>4, <1>6, FadingKeepsHome DEF Bookkeeping

\* Requests that are told who the caller is, and steps that touch no account.
LEMMA AskKeeps ==
  ASSUME TypeOK, Bookkeeping, users' = users, mailed' = mailed,
         resets' = resets, \A q \in Requests : Orders(q)
  PROVE  Bookkeeping'
BY FadingKeeps DEF Fades

\* Holding a link that an account holds now: it has set no password yet.
LEMMA HoldLinkKeeps ==
  ASSUME TypeOK, Bookkeeping, NEW r \in Requests, NEW i \in Ids, NEW t \in Tokens,
         (VerifyRead(r, i, t) \/ \E p \in Passwords : ResetRead(r, i, t, p))
  PROVE  Bookkeeping'
<1>1. /\ users' = users /\ mailed' = mailed /\ resets' = resets
      /\ Live(i) /\ Holds(i, t)
      /\ \A q \in Requests \ {r} : req'[q] = req[q]
      /\ req'[r].id = i /\ req'[r].token = t
      /\ \/ req'[r].step = "verify" /\ users[i].vtoken = t
         \/ req'[r].step = "reset" /\ users[i].rtoken = t
  BY DEF VerifyRead, ResetRead, Holds, TypeOK
<1>2. OneOwner'
  BY <1>1 DEF Bookkeeping, OneOwner, Live
<1>3. mailed[t] = [kind |-> req'[r].step, to |-> users[i].email]
  BY <1>1, NamesDiffer DEF Bookkeeping, LinksStayHome
<1>4. ~Unminted(t)
  <2>1. mailed[t].kind \in {"verify", "reset"}
    BY <1>1, <1>3
  <2>2. QED
    BY <2>1 DEF Unminted, Unmailed
<1>5. InFlight'
  BY <1>1, <1>4 DEF Bookkeeping, InFlight, Unminted, Live, Unborn
<1>6. LinksStayHome'
  BY <1>1, <1>3 DEF Bookkeeping, LinksStayHome, Live
<1>7. ASSUME NEW u \in Tokens
      PROVE  resets'[u] + Cardinality(Resetting(u)') <= Racers
  <2>1. Resetting(u)' \in SUBSET Requests
    BY DEF Resetting
  <2>2. resets[u] + Cardinality(Resetting(u)) <= Racers
    BY DEF Bookkeeping, SpendBudget
  <2>3. CASE u = t
    <3>1. ~(resets[u] > 0)
      BY <1>1, <2>3 DEF Bookkeeping, SpendBudget
    <3>2. resets'[u] = 0
      BY <1>1, <3>1, SpendTypes
    <3>3. QED
      BY <2>1, <3>2, Counts
  <2>4. CASE u # t
    <3>1. Resetting(u)' \in SUBSET Resetting(u)
      BY <1>1, <2>4 DEF Resetting
    <3>2. /\ Cardinality(Resetting(u)') \in Nat
          /\ Cardinality(Resetting(u)') <= Cardinality(Resetting(u))
      BY <3>1, SpendTypes, Counts
    <3>3. QED
      BY <1>1, <2>2, <3>2, SpendTypes
  <2>5. QED
    BY <2>3, <2>4
<1>8. SpendBudget'
  BY <1>1, <1>7 DEF Bookkeeping, SpendBudget, Holds, Live, Unminted
<1>9. QED
  BY <1>2, <1>5, <1>6, <1>8 DEF Bookkeeping

\* Holding an address read from a live account.
LEMMA HoldRelinkKeeps ==
  ASSUME TypeOK, Bookkeeping, NEW r \in Requests, NEW i \in Ids,
         Live(i), users' = users, mailed' = mailed, resets' = resets,
         req' = [req EXCEPT ![r] =
             [step |-> "relink", id |-> i, to |-> users[i].email]]
  PROVE  Bookkeeping'
<1>1. /\ \A q \in Requests \ {r} : req'[q] = req[q]
      /\ req'[r] = [step |-> "relink", id |-> i, to |-> users[i].email]
  BY DEF TypeOK
<1>2. OneOwner'
  BY DEF Bookkeeping, OneOwner, Live
<1>3. InFlight'
  BY <1>1 DEF Bookkeeping, InFlight, Unminted, Live, Unborn
<1>4. LinksStayHome'
  BY <1>1 DEF Bookkeeping, LinksStayHome, Live
<1>5. ASSUME NEW u \in Tokens
      PROVE  resets'[u] + Cardinality(Resetting(u)') <= Racers
  <2>1. Resetting(u)' \in SUBSET Resetting(u)
    BY <1>1 DEF Resetting
  <2>2. /\ Cardinality(Resetting(u)') \in Nat
        /\ Cardinality(Resetting(u)') <= Cardinality(Resetting(u))
    BY <2>1, SpendTypes, Counts
  <2>3. resets[u] + Cardinality(Resetting(u)) <= Racers
    BY DEF Bookkeeping, SpendBudget
  <2>4. QED
    BY <2>2, <2>3, SpendTypes
<1>6. SpendBudget'
  BY <1>5 DEF Bookkeeping, SpendBudget, Holds, Live, Unminted
<1>7. QED
  BY <1>2, <1>3, <1>4, <1>6 DEF Bookkeeping

\* A token nobody has been sent is nowhere yet.
LEMMA Nowhere ==
  ASSUME TypeOK, Bookkeeping, NEW t \in Tokens, Unminted(t)
  PROVE  /\ resets[t] = 0
         /\ \A i \in Ids : ~Holds(i, t)
         /\ \A r \in Requests :
              req[r].step \in {"verify", "reset"} => req[r].token # t
<1>1. ~(resets[t] > 0)
  BY DEF Bookkeeping, SpendBudget
<1>2. ASSUME NEW i \in Ids, Holds(i, t)
      PROVE  FALSE
  <2>1. \/ mailed[t] = [kind |-> "verify", to |-> users[i].email]
        \/ mailed[t] = [kind |-> "reset", to |-> users[i].email]
    BY <1>2, NamesDiffer DEF Bookkeeping, LinksStayHome, Holds
  <2>2. mailed[t].kind \in {"verify", "reset"}
    BY <2>1
  <2>3. QED
    BY <2>2 DEF Unminted, Unmailed
<1>3. \A r \in Requests :
        req[r].step \in {"verify", "reset"} => req[r].token # t
  BY DEF Bookkeeping, InFlight
<1>4. QED
  BY <1>1, <1>2, <1>3, SpendTypes

\* A step that mints at most a token t mailed as `link', after which nothing is
\* held but what was, or t.
LEMMA MintKeepsSpend ==
  ASSUME TypeOK, Bookkeeping, NEW t \in Tokens, NEW link, link # Unmailed,
         mailed' = mailed \/ (Unminted(t) /\ mailed' = [mailed EXCEPT ![t] = link]),
         resets' = resets, \A q \in Requests : req'[q] \in {req[q], Idle},
         \A i \in Ids, u \in Tokens :
             Holds(i, u)' => Holds(i, u) \/ (u = t /\ mailed' # mailed)
  PROVE  SpendBudget'
<1>1. ASSUME NEW u \in Tokens
      PROVE  /\ resets'[u] + Cardinality(Resetting(u)') <= Racers
             /\ resets'[u] > 0 =>
                  ~Unminted(u)' /\ \A i \in Ids : ~Holds(i, u)'
  <2>1. Resetting(u)' \in SUBSET Resetting(u)
    BY DEF Resetting, Idle
  <2>2. /\ Cardinality(Resetting(u)') \in Nat
        /\ Cardinality(Resetting(u)') <= Cardinality(Resetting(u))
    BY <2>1, SpendTypes, Counts
  <2>3. /\ resets[u] + Cardinality(Resetting(u)) <= Racers
        /\ resets[u] > 0 => ~Unminted(u) /\ \A i \in Ids : ~Holds(i, u)
    BY DEF Bookkeeping, SpendBudget
  <2>4. resets'[u] + Cardinality(Resetting(u)') <= Racers
    BY <2>2, <2>3, SpendTypes
  <2>5. (u = t /\ mailed' # mailed) => resets[u] = 0
    BY Nowhere
  <2>6. ~Unminted(u) => ~Unminted(u)'
    BY DEF Unminted, TypeOK
  <2>7. QED
    BY <2>3, <2>4, <2>5, <2>6
<1>2. QED
  BY <1>1 DEF SpendBudget

\* A new account under a free address, with no link or a new one.
LEMMA BornKeeps ==
  ASSUME TypeOK, Bookkeeping, NEW i \in Ids, NEW t \in Tokens \cup {NoToken},
         NEW e \in Emails, NEW p, NEW v, NEW m,
         users[i] = Unborn, ~Taken(e),
         users' = [users EXCEPT ![i] = Account(e, p, v, m, t)],
         resets' = resets, \A q \in Requests : req'[q] \in {req[q], Idle},
         \/ t = NoToken /\ mailed' = mailed
         \/ /\ t \in Tokens /\ Unminted(t)
            /\ mailed' = [mailed EXCEPT ![t] = [kind |-> "verify", to |-> e]]
  PROVE  Bookkeeping'
<1> DEFINE link == [kind |-> "verify", to |-> e]
<1>1. /\ \A j \in Ids \ {i} : users'[j] = users[j]
      /\ users'[i] = Account(e, p, v, m, t)
  BY DEF TypeOK
<1>2. /\ users'[i].state = "live" /\ users'[i].email = e
      /\ users'[i].vtoken = t /\ users'[i].rtoken = NoToken
      /\ ~Live(i) /\ users'[i] # Unborn
  BY <1>1 DEF Account, Live, Unborn
<1>3. \A j \in Ids \ {i} : Live(j)' => Live(j) /\ users[j].email # e
  BY <1>1 DEF Live, Taken
<1>4. OneOwner'
  BY <1>1, <1>2, <1>3 DEF Bookkeeping, OneOwner
<1>5. ASSUME NEW u \in Tokens, ~Unminted(u)
      PROVE  mailed'[u] = mailed[u] /\ ~Unminted(u)'
  BY <1>5 DEF Unminted, TypeOK
<1>6. ASSUME NEW r \in Requests, req'[r].step \in {"verify", "reset", "relink"}
      PROVE  /\ req'[r] = req[r] /\ req[r].id \in Ids /\ users[req[r].id] # Unborn
             /\ req[r].id # i
  BY <1>6, HeldTypes DEF Idle, Bookkeeping, InFlight
<1>7. ASSUME NEW r \in Requests, req'[r].step \in {"verify", "reset"}
      PROVE  req[r].token \in Tokens /\ ~Unminted(req[r].token)
  BY <1>6, <1>7, HeldTypes DEF Bookkeeping, InFlight
<1>8. InFlight'
  <2>1. ASSUME NEW r \in Requests, req'[r].step \in {"verify", "reset"}
        PROVE  users'[req'[r].id] # Unborn /\ mailed'[req'[r].token] # Unmailed
    BY <1>1, <1>5, <1>6, <1>7, <2>1 DEF Unminted
  <2>2. ASSUME NEW r \in Requests, req'[r].step = "relink"
        PROVE  /\ users'[req'[r].id] # Unborn
               /\ users'[req'[r].id].state = "live"
                    => users'[req'[r].id].email = req'[r].to
    BY <1>1, <1>6, <2>2 DEF Bookkeeping, InFlight, Live
  <2>3. ASSUME NEW r \in Requests,
               req'[r].step = "order" /\ req'[r].what.op \in {"role", "delete"}
        PROVE  req'[r].by # req'[r].id
    BY <2>3 DEF Bookkeeping, InFlight, Idle
  <2>4. QED
    BY <2>1, <2>2, <2>3 DEF InFlight, Unminted, Live
<1>9. ASSUME NEW j \in Ids, Live(j)'
      PROVE  /\ users'[j].vtoken # NoToken => mailed'[users'[j].vtoken] =
                    [kind |-> "verify", to |-> users'[j].email]
             /\ users'[j].rtoken # NoToken => mailed'[users'[j].rtoken] =
                    [kind |-> "reset", to |-> users'[j].email]
  <2>1. CASE j = i
    BY <1>2, <2>1 DEF TypeOK
  <2>2. CASE j # i
    <3>1. Live(j) /\ users'[j] = users[j]
      BY <1>1, <1>3, <1>9, <2>2
    <3>2. users[j] \in Row
      BY <3>1, LiveRow
    <3>3. ASSUME NEW u \in Tokens, Holds(j, u)
          PROVE  mailed'[u] = mailed[u]
      BY <1>5, <3>3, Nowhere
    <3>4. QED
      BY <3>1, <3>2, <3>3 DEF Bookkeeping, LinksStayHome, Holds, Row
  <2>3. QED
    BY <2>1, <2>2
<1>10. ASSUME NEW r \in Requests, req'[r].step \in {"verify", "reset"},
              users'[req'[r].id].state = "live"
       PROVE  mailed'[req'[r].token] =
                [kind |-> req'[r].step, to |-> users'[req'[r].id].email]
  <2>1. /\ req'[r] = req[r] /\ req[r].id \in Ids \ {i}
        /\ mailed'[req[r].token] = mailed[req[r].token]
    BY <1>5, <1>6, <1>7, <1>10
  <2>2. users'[req[r].id] = users[req[r].id]
    BY <1>1, <2>1
  <2>3. QED
    BY <1>10, <2>1, <2>2 DEF Bookkeeping, LinksStayHome, Live
<1>11. LinksStayHome'
  BY <1>9, <1>10 DEF LinksStayHome, Live
<1>12. SpendBudget'
  <2>1. \A j \in Ids, u \in Tokens :
          Holds(j, u)' => Holds(j, u) \/ (j = i /\ u = t)
    BY <1>1, <1>2, NamesDiffer DEF Holds, Live
  <2>2. CASE t = NoToken
    <3>2. \A u \in Tokens : \A j \in Ids : Holds(j, u)' => Holds(j, u)
      BY <2>1, <2>2, NamesDiffer
    <3>3. CASE Tokens = {}
      BY <3>3 DEF SpendBudget
    <3>4. ASSUME NEW w \in Tokens
          PROVE  SpendBudget'
      <4>1. link # Unmailed
        BY DEF Unmailed
      <4>2. mailed' = mailed
        BY <2>2, NamesDiffer
      <4>3. QED
        BY <3>2, <3>4, <4>1, <4>2, MintKeepsSpend
    <3>5. QED
      BY <3>3, <3>4
  <2>3. CASE t \in Tokens
    <3>1. link # Unmailed /\ link.kind = "verify"
      BY DEF Unmailed
    <3>2. Unminted(t) /\ mailed' = [mailed EXCEPT ![t] = link]
      BY <2>3, NamesDiffer
    <3>3. mailed'[t] = link /\ mailed[t] = Unmailed
      BY <2>3, <3>2 DEF TypeOK, Unminted
    <3>4. mailed' # mailed
      BY <3>1, <3>3
    <3>5. \A j \in Ids, u \in Tokens :
            Holds(j, u)' => Holds(j, u) \/ (u = t /\ mailed' # mailed)
      BY <2>1, <3>4
    <3> HIDE DEF link
    <3>6. QED
      BY <2>3, <3>1, <3>2, <3>5, MintKeepsSpend
  <2>4. QED
    BY <2>2, <2>3
<1>13. QED
  BY <1>4, <1>8, <1>11, <1>12 DEF Bookkeeping

\* A new link for an account, or for an address whose account is gone: the
\* account holds it in the column of its kind.
LEMMA RelinkKeeps ==
  ASSUME TypeOK, Bookkeeping, NEW i \in Ids, NEW t \in Tokens,
         NEW k \in {"verify", "reset"}, NEW e \in Emails, NEW row,
         users[i] # Unborn, Unminted(t), Update(i, row),
         Live(i) =>
           /\ users[i].email = e
           /\ row.state = "live" /\ row.email = e
           /\ row.vtoken = IF k = "verify" THEN t ELSE users[i].vtoken
           /\ row.rtoken = IF k = "reset" THEN t ELSE users[i].rtoken,
         mailed' = [mailed EXCEPT ![t] = [kind |-> k, to |-> e]],
         resets' = resets, \A q \in Requests : req'[q] \in {req[q], Idle}
  PROVE  Bookkeeping'
<1> DEFINE link == [kind |-> k, to |-> e]
<1>1. \A j \in Ids : users'[j] = IF j = i /\ Live(i) THEN row ELSE users[j]
  BY DEF Update, TypeOK
<1>2. \A j \in Ids : /\ Live(j)' => Live(j) /\ users'[j].email = users[j].email
                     /\ users[j] # Unborn => users'[j] # Unborn
  BY <1>1 DEF Live, Unborn
<1>3. OneOwner'
  BY <1>2 DEF Bookkeeping, OneOwner
<1>4. mailed'[t] = link /\ \A u \in Tokens \ {t} : mailed'[u] = mailed[u]
  BY DEF TypeOK
<1>5. link # Unmailed
  BY DEF Unmailed
<1>6. ASSUME NEW r \in Requests, req'[r].step \in {"verify", "reset", "relink"}
      PROVE  req'[r] = req[r] /\ req[r].id \in Ids /\ users[req[r].id] # Unborn
  BY <1>6, HeldTypes DEF Idle, Bookkeeping, InFlight
<1>7. ASSUME NEW r \in Requests, req'[r].step \in {"verify", "reset"}
      PROVE  /\ req[r].token \in Tokens \ {t} /\ ~Unminted(req[r].token)
  BY <1>6, <1>7, HeldTypes, Nowhere DEF Bookkeeping, InFlight
<1>8. InFlight'
  <2>1. ASSUME NEW r \in Requests, req'[r].step \in {"verify", "reset"}
        PROVE  users'[req'[r].id] # Unborn /\ mailed'[req'[r].token] # Unmailed
    BY <1>2, <1>4, <1>6, <1>7, <2>1 DEF Unminted
  <2>2. ASSUME NEW r \in Requests, req'[r].step = "relink"
        PROVE  /\ users'[req'[r].id] # Unborn
               /\ users'[req'[r].id].state = "live"
                    => users'[req'[r].id].email = req'[r].to
    BY <1>2, <1>6, <2>2 DEF Bookkeeping, InFlight, Live
  <2>3. ASSUME NEW r \in Requests,
               req'[r].step = "order" /\ req'[r].what.op \in {"role", "delete"}
        PROVE  req'[r].by # req'[r].id
    BY <2>3 DEF Bookkeeping, InFlight, Idle
  <2>4. QED
    BY <2>1, <2>2, <2>3 DEF InFlight, Unminted, Live
<1>9. ASSUME NEW j \in Ids, Live(j)'
      PROVE  /\ users'[j].vtoken # NoToken => mailed'[users'[j].vtoken] =
                    [kind |-> "verify", to |-> users'[j].email]
             /\ users'[j].rtoken # NoToken => mailed'[users'[j].rtoken] =
                    [kind |-> "reset", to |-> users'[j].email]
  <2>1. Live(j) /\ users[j] \in Row /\ users'[j].email = users[j].email
    BY <1>2, <1>9, LiveRow
  <2>2. /\ users[j].vtoken # NoToken =>
             /\ users[j].vtoken \in Tokens \ {t}
             /\ mailed[users[j].vtoken] =
                  [kind |-> "verify", to |-> users[j].email]
        /\ users[j].rtoken # NoToken =>
             /\ users[j].rtoken \in Tokens \ {t}
             /\ mailed[users[j].rtoken] =
                  [kind |-> "reset", to |-> users[j].email]
    BY <2>1, Nowhere DEF Bookkeeping, LinksStayHome, Holds, Row
  <2>3. \/ users'[j].vtoken = users[j].vtoken
        \/ /\ users'[j].vtoken = t /\ k = "verify" /\ users[j].email = e
    BY <1>1, <2>1
  <2>4. \/ users'[j].rtoken = users[j].rtoken
        \/ /\ users'[j].rtoken = t /\ k = "reset" /\ users[j].email = e
    BY <1>1, <2>1
  <2>5. QED
    BY <1>4, <2>1, <2>2, <2>3, <2>4
<1>10. ASSUME NEW r \in Requests, req'[r].step \in {"verify", "reset"},
              users'[req'[r].id].state = "live"
       PROVE  mailed'[req'[r].token] =
                [kind |-> req'[r].step, to |-> users'[req'[r].id].email]
  <2>1. /\ req'[r] = req[r] /\ req[r].id \in Ids
        /\ mailed'[req[r].token] = mailed[req[r].token]
    BY <1>4, <1>6, <1>7, <1>10
  <2>2. /\ Live(req[r].id) /\ users'[req[r].id].email = users[req[r].id].email
    BY <1>2, <1>10, <2>1 DEF Live
  <2>3. QED
    BY <1>10, <2>1, <2>2 DEF Bookkeeping, LinksStayHome
<1>11. LinksStayHome'
  BY <1>9, <1>10 DEF LinksStayHome, Live
<1>12. SpendBudget'
  <2>1. mailed' # mailed
    BY <1>4, <1>5 DEF Unminted
  <2>2. ASSUME NEW j \in Ids, NEW u \in Tokens, Holds(j, u)'
        PROVE  Holds(j, u) \/ (u = t /\ mailed' # mailed)
    BY <1>1, <1>2, <2>1, <2>2 DEF Holds
  <2> HIDE DEF link
  <2>3. mailed' = mailed
          \/ (Unminted(t) /\ mailed' = [mailed EXCEPT ![t] = link])
    BY DEF link
  <2>4. QED
    BY <1>5, <2>2, <2>3, MintKeepsSpend
<1>13. QED
  BY <1>3, <1>8, <1>11, <1>12 DEF Bookkeeping

\* queue_password_reset, whoever asked for it.
LEMMA QueueResetKeeps ==
  ASSUME TypeOK, Bookkeeping, NEW i \in Ids, QueueReset(i), resets' = resets,
         \A q \in Requests : req'[q] \in {req[q], Idle}
  PROVE  Bookkeeping'
<1>1. users[i] \in Row /\ users[i] # Unborn /\ Live(i)
  BY LiveRow DEF QueueReset, Live, Unborn
<1>2. PICK t \in Tokens :
        /\ Unminted(t)
        /\ users' = [users EXCEPT ![i] = Resettable(users[i], t)]
        /\ mailed' = [mailed EXCEPT ![t] =
                        [kind |-> "reset", to |-> users[i].email]]
  BY DEF QueueReset, TypeOK
<1>3. Update(i, Resettable(users[i], t))
  BY <1>1, <1>2 DEF Update
<1>4. /\ Resettable(users[i], t).state = "live"
      /\ Resettable(users[i], t).email = users[i].email
      /\ Resettable(users[i], t).vtoken = users[i].vtoken
      /\ Resettable(users[i], t).rtoken = t
      /\ users[i].email \in Emails
  BY <1>1 DEF Resettable, Row
<1>5. QED
  BY <1>1, <1>2, <1>3, <1>4, RelinkKeeps

\* queue_verification_email, whoever asked for it.
LEMMA QueueVerificationKeeps ==
  ASSUME TypeOK, Bookkeeping, NEW r \in Requests, QueueVerification(r)
  PROVE  Bookkeeping'
<1>1. req[r].id \in Ids /\ req[r].to \in Emails /\ users[req[r].id] # Unborn
  BY HeldTypes DEF QueueVerification, Idle, Bookkeeping, InFlight
<1>2. PICK t \in Tokens :
        /\ Unminted(t)
        /\ Update(req[r].id, [users[req[r].id] EXCEPT !.vtoken = t])
        /\ mailed' = [mailed EXCEPT ![t] =
                        [kind |-> "verify", to |-> req[r].to]]
  BY DEF QueueVerification
<1>3. resets' = resets /\ \A q \in Requests : req'[q] \in {req[q], Idle}
  BY DEF QueueVerification, TypeOK
<1>4. Live(req[r].id) =>
        /\ users[req[r].id] \in Row /\ users[req[r].id].email = req[r].to
  BY <1>1, LiveRow DEF Bookkeeping, InFlight, QueueVerification
<1>5. PICK row : row = [users[req[r].id] EXCEPT !.vtoken = t]
  OBVIOUS
<1>6. Live(req[r].id) =>
        /\ row.state = "live" /\ row.email = req[r].to /\ row.vtoken = t
        /\ row.rtoken = users[req[r].id].rtoken
  BY <1>4, <1>5 DEF Row
<1>7. QED
  BY <1>1, <1>2, <1>3, <1>4, <1>5, <1>6, RelinkKeeps

\* Founders hold no links, and requests nothing.
LEMMA InitBookkeeping ==
  ASSUME Init
  PROVE  Bookkeeping
<1>1. ASSUME NEW i \in Ids, Live(i)
      PROVE  /\ i \in DOMAIN FounderEmail /\ users[i].email = FounderEmail[i]
             /\ users[i].vtoken = NoToken /\ users[i].rtoken = NoToken
  BY <1>1 DEF Init, Live, Unborn, Account
<1>2. OneOwner
  BY <1>1, FoundersAreAccounts DEF OneOwner
<1>3. InFlight
  BY DEF Init, InFlight, Idle
<1>4. LinksStayHome
  BY <1>1 DEF Init, LinksStayHome, Idle
<1>5. ASSUME NEW t \in Tokens
      PROVE  resets[t] + Cardinality(Resetting(t)) <= Racers /\ resets[t] = 0
  <2>1. Resetting(t) \in SUBSET Requests /\ resets[t] = 0
    BY DEF Init, Resetting
  <2>2. QED
    BY <2>1, Counts
<1>6. QED
  BY <1>2, <1>3, <1>4, <1>5 DEF Bookkeeping, SpendBudget

\* Every step keeps the bookkeeping.
LEMMA NextBookkeeping ==
  ASSUME TypeOK, Bookkeeping, [Next]_vars
  PROVE  Bookkeeping'
<1>1. ASSUME NEW e \in Emails, NEW p \in Passwords, Signup(e, p)
      PROVE  Bookkeeping'
  <2>1. PICK i \in Ids, t \in Tokens :
          /\ users[i] = Unborn /\ Unminted(t)
          /\ users' = [users EXCEPT ![i] = Account(e, p, FALSE, FALSE, t)]
          /\ mailed' = [mailed EXCEPT ![t] = [kind |-> "verify", to |-> e]]
    BY <1>1 DEF Signup
  <2>2. QED
    BY <1>1, <2>1, BornKeeps DEF Signup
<1>2. ASSUME NEW i \in Ids, ForgotPassword(i)
      PROVE  Bookkeeping'
  BY <1>2, QueueResetKeeps DEF ForgotPassword
<1>3. CASE Tick \/ UNCHANGED vars
  BY <1>3, AskKeeps DEF Tick, vars, Orders
<1>4. ASSUME NEW r \in Requests, NEW i \in Ids, NEW t \in Tokens,
             (VerifyRead(r, i, t) \/ \E p \in Passwords : ResetRead(r, i, t, p))
      PROVE  Bookkeeping'
  BY <1>4, HoldLinkKeeps
<1>5. ASSUME NEW r \in Requests, NEW i \in Ids, ResendRead(r, i)
      PROVE  Bookkeeping'
  BY <1>5, HoldRelinkKeeps DEF ResendRead
<1>6. ASSUME NEW r \in Requests, NEW i \in Ids, NEW current \in Passwords,
             NEW p \in Passwords, ChangeRead(r, i, current, p)
      PROVE  Bookkeeping'
  BY <1>6, AskKeeps DEF ChangeRead, Orders, TypeOK
<1>7. ASSUME NEW r \in Requests, NEW by \in Ids \cup {Operator}, NEW i \in Ids,
             NEW what, Ordered(r, by, i, what),
             what.op \in {"role", "delete"} => by # i
      PROVE  Bookkeeping'
  <2>1. \A q \in Requests : Orders(q)
    BY <1>7 DEF Ordered, Orders, TypeOK
  <2>2. QED
    BY <1>7, <2>1, AskKeeps DEF Ordered
<1>8. ASSUME NEW r \in Requests, NEW by \in Ids, NEW i \in Ids,
             AskOverOther(r, by, i) \/ AskOverAny(r, by, i)
               \/ AskRelink(r, by, i) \/ CliSetRole(r, i)
      PROVE  Bookkeeping'
  <2>1. CASE AskOverOther(r, by, i)
    BY <1>7, <2>1 DEF AskOverOther, NotSelf
  <2>2. CASE AskOverAny(r, by, i)
    <3>1. ASSUME NEW v \in BOOLEAN,
                 Ordered(r, by, i, [op |-> "mark", value |-> v])
          PROVE  Bookkeeping'
      BY <1>7, <3>1
    <3>2. CASE Ordered(r, by, i, [op |-> "reset"])
      BY <1>7, <3>2
    <3>3. QED
      BY <2>2, <3>1, <3>2 DEF AskOverAny
  <2>3. CASE AskRelink(r, by, i)
    <3>1. Ordered(r, by, i, [op |-> "relink"])
      BY <2>3 DEF AskRelink
    <3>2. QED
      BY <1>7, <3>1
  <2>4. CASE CliSetRole(r, i)
    <3>1. Operator # i
      BY NamesDiffer
    <3>2. QED
      BY <1>7, <2>4, <3>1 DEF CliSetRole
  <2>5. QED
    BY <1>8, <2>1, <2>2, <2>3, <2>4
<1>9. ASSUME NEW r \in Requests, NEW by \in Ids, NEW e \in Emails,
             NEW p \in Passwords, AskCreate(r, by, e, p)
      PROVE  Bookkeeping'
  BY <1>9, AskKeeps DEF AskCreate, Orders, TypeOK
<1>10. ASSUME NEW r \in Requests, AdminReset(r)
       PROVE  Bookkeeping'
  <2>1. req[r].id \in Ids
    BY <1>10, HeldTypes DEF AdminReset, Due, Idle
  <2>2. QueueReset(req[r].id) /\ resets' = resets
        /\ \A q \in Requests : req'[q] \in {req[q], Idle}
    BY <1>10 DEF AdminReset, TypeOK
  <2>3. QED
    BY <2>1, <2>2, QueueResetKeeps
<1>11. ASSUME NEW r \in Requests, StaffResendRead(r)
       PROVE  Bookkeeping'
  <2>1. req[r].id \in Ids
    BY <1>11, HeldTypes DEF StaffResendRead, Due, Idle
  <2>2. QED
    BY <1>11, <2>1, HoldRelinkKeeps DEF StaffResendRead, Relink
<1>12. ASSUME NEW r \in Requests, AdminCreate(r)
       PROVE  Bookkeeping'
  <2>1. req[r].email \in Emails
    BY <1>12, HeldTypes DEF AdminCreate
  <2>2. PICK i \in Ids :
          /\ users[i] = Unborn
          /\ users' = [users EXCEPT ![i] = Account(req[r].email,
                          req[r].password, TRUE, TRUE, NoToken)]
    BY <1>12 DEF AdminCreate
  <2>3. /\ resets' = resets /\ mailed' = mailed /\ ~Taken(req[r].email)
        /\ \A q \in Requests : req'[q] \in {req[q], Idle}
    BY <1>12 DEF AdminCreate, TypeOK
  <2>4. QED
    BY <2>1, <2>2, <2>3, BornKeeps
<1>13. ASSUME NEW r \in Requests, Die(r)
       PROVE  Bookkeeping'
  BY <1>13, AskKeeps DEF Die, Orders, TypeOK
<1>14. QED
  BY <1>1, <1>2, <1>3, <1>4, <1>5, <1>6, <1>8, <1>9, <1>10, <1>11, <1>12,
     <1>13, WriteKeeps, ResetWriteKeeps, QueueVerificationKeeps
     DEF Next, Public, Start, Finish

\* An address has one account; what requests in flight hold is in order; links
\* are spent within the racers and stay home: in every reachable state.
THEOREM BooksAreKept == Spec => []Bookkeeping
<1>1. Init => Bookkeeping
  BY InitBookkeeping
<1>2. TypeOK /\ Bookkeeping /\ [Next]_vars => Bookkeeping'
  BY NextBookkeeping
<1>3. QED
  BY <1>1, <1>2, TypeCorrect, PTL DEF Spec

\* A reset link sets at most as many passwords as requests can race, and none
\* of them is accepted after the first has been set.
THEOREM ResetLinksAreSpent == Spec => []ResetSpent
<1>1. TypeOK /\ Bookkeeping => ResetSpent
  <2> SUFFICES ASSUME TypeOK, Bookkeeping, NEW t \in Tokens
               PROVE  /\ resets[t] <= Racers
                      /\ resets[t] > 0 => \A i \in Ids : ~Holds(i, t)
    BY DEF ResetSpent
  <2>1. /\ resets[t] + Cardinality(Resetting(t)) <= Racers
        /\ resets[t] > 0 => \A i \in Ids : ~Holds(i, t)
    BY DEF Bookkeeping, SpendBudget
  <2>2. QED
    BY <2>1, SpendTypes
<1>2. QED
  BY <1>1, TypeCorrect, BooksAreKept, PTL

\* A link acts on no account but that of the address it was mailed to.
THEOREM LinksActAtHome == Spec => []LinksStayHome
<1>1. Bookkeeping => LinksStayHome
  BY DEF Bookkeeping
<1>2. QED
  BY <1>1, BooksAreKept, PTL

\* The last administrator falls only to the operator, or to an administrator
\* who is one no longer.
THEOREM AnAdminStays == Spec => LastAdminStays
<1> DEFINE Fall ==
      (Admins # {} /\ Admins' = {}) =>
         \E r \in Requests :
             /\ req[r].step = "order" /\ req'[r] = Idle
             /\ req[r].by \notin Admins
<1>1. TypeOK /\ Bookkeeping /\ [Next]_vars => [Fall]_vars
  <2> SUFFICES ASSUME TypeOK, Bookkeeping, [Next]_vars,
                      Admins # {}, Admins' = {}
               PROVE  \E r \in Requests :
                        /\ req[r].step = "order" /\ req'[r] = Idle
                        /\ req[r].by \notin Admins
    OBVIOUS
  <2>1. PICK r \in Requests : PatchRole(r) \/ DeleteUser(r)
    BY AdminsFall
  <2>2. /\ req[r].step = "order" /\ req[r].what.op \in {"role", "delete"}
        /\ req'[r] = Idle
    BY <2>1 DEF PatchRole, DeleteUser, Due, TypeOK
  <2>3. req[r].id \in Ids /\ req[r].by # req[r].id
    BY <2>2, HeldTypes DEF Bookkeeping, InFlight, Idle
  <2>4. Admins \ {req[r].id} \subseteq Admins'
    BY <2>1, <2>3, UpdateKeepsOthers DEF PatchRole, DeleteUser
  <2>5. req[r].by \notin Admins
    BY <2>3, <2>4
  <2>6. QED
    BY <2>2, <2>5
<1>2. QED
  BY <1>1, TypeCorrect, BooksAreKept, PTL DEF Spec, LastAdminStays

\* An account comes to hold a token only if nobody had been sent it.
LEMMA OnlyMinting ==
  ASSUME TypeOK, [Next]_vars, NEW j \in Ids, NEW u \in Tokens,
         Holds(j, u)', ~Holds(j, u)
  PROVE  Unminted(u)
<1> USE NamesDiffer
<1>1. ASSUME NEW e \in Emails, NEW p \in Passwords, Signup(e, p)
      PROVE  Unminted(u)
  <2>1. PICK i \in Ids, t \in Tokens :
          /\ Unminted(t)
          /\ users' = [users EXCEPT ![i] = Account(e, p, FALSE, FALSE, t)]
    BY <1>1 DEF Signup
  <2>2. QED
    BY <2>1 DEF Holds, Live, Account, TypeOK
<1>2. ASSUME NEW i \in Ids, QueueReset(i)
      PROVE  Unminted(u)
  <2>1. PICK t \in Tokens :
          /\ Unminted(t)
          /\ users' = [users EXCEPT ![i] = Resettable(users[i], t)]
    BY <1>2 DEF QueueReset, TypeOK
  <2>2. users[i] \in Row /\ Live(i)
    BY <1>2, LiveRow DEF QueueReset
  <2>3. /\ Resettable(users[i], t).vtoken = users[i].vtoken
        /\ Resettable(users[i], t).rtoken = t
    BY <2>2 DEF Resettable, Row
  <2>4. QED
    BY <2>1, <2>2, <2>3 DEF Holds, Live, TypeOK
<1>3. ASSUME NEW r \in Requests, QueueVerification(r)
      PROVE  Unminted(u)
  <2>1. req[r].id \in Ids
    BY <1>3, HeldTypes DEF QueueVerification, Idle
  <2>2. PICK t \in Tokens :
          /\ Unminted(t)
          /\ Update(req[r].id, [users[req[r].id] EXCEPT !.vtoken = t])
    BY <1>3 DEF QueueVerification
  <2>3. Live(req[r].id) => users[req[r].id] \in Row
    BY <2>1, LiveRow
  <2>4. QED
    BY <2>1, <2>2, <2>3 DEF Update, Holds, Live, TypeOK, Row
<1>4. ASSUME NEW r \in Requests, AdminCreate(r)
      PROVE  FALSE
  <2>1. PICK i \in Ids :
          users' = [users EXCEPT ![i] = Account(req[r].email,
                       req[r].password, TRUE, TRUE, NoToken)]
    BY <1>4 DEF AdminCreate
  <2>2. QED
    BY <2>1 DEF Holds, Live, Account, TypeOK
<1>5. ASSUME \A i \in Ids : Fades(i)
      PROVE  FALSE
  BY <1>5, Fading
<1>6. ASSUME NEW r \in Requests,
             VerifyWrite(r) \/ ChangeWrite(r) \/ PatchRole(r)
               \/ PatchVerification(r) \/ DeleteUser(r) \/ ResetWrite(r)
      PROVE  FALSE
  <2>1. req[r].step \in {"verify", "reset", "change", "order"}
    BY <1>6 DEF VerifyWrite, ChangeWrite, PatchRole, PatchVerification,
                DeleteUser, ResetWrite, Due
  <2>2. req[r].id \in Ids
    BY <2>1, HeldTypes DEF Idle
  <2>3. Live(req[r].id) => users[req[r].id] \in Row
    BY <2>2, LiveRow
  <2>4. CASE VerifyWrite(r)
    BY <1>5, <2>2, <2>3, <2>4, UpdateFades DEF VerifyWrite, Marked, Row
  <2>5. CASE ChangeWrite(r)
    BY <1>5, <2>2, <2>3, <2>5, UpdateFades DEF ChangeWrite, Chosen, Row
  <2>6. CASE PatchRole(r)
    BY <1>5, <2>2, <2>3, <2>6, UpdateFades DEF PatchRole, Row
  <2>7. CASE PatchVerification(r)
    BY <1>5, <2>2, <2>3, <2>7, UpdateFades DEF PatchVerification, Marked, Row
  <2>8. CASE DeleteUser(r)
    BY <1>5, <2>2, <2>8, UpdateFades DEF DeleteUser
  <2>9. CASE ResetWrite(r)
    BY <1>5, <2>2, <2>3, <2>9, UpdateFades DEF ResetWrite, ResetTo, Chosen, Row
  <2>10. QED
    BY <1>6, <2>4, <2>5, <2>6, <2>7, <2>8, <2>9
<1>7. ASSUME NEW r \in Requests, AdminReset(r)
      PROVE  Unminted(u)
  <2>1. req[r].id \in Ids
    BY <1>7, HeldTypes DEF AdminReset, Due, Idle
  <2>2. QED
    BY <1>2, <1>7, <2>1 DEF AdminReset
<1>8. users' # users
  BY DEF Holds, Live
<1>9. QED
  BY <1>1, <1>2, <1>3, <1>4, <1>6, <1>7, <1>8
     DEF Next, Public, Start, Finish, vars, ForgotPassword, VerifyRead,
         ResendRead, ResetRead, ChangeRead, AskOverOther, AskOverAny, AskRelink,
         CliSetRole, AskCreate, Ordered, StaffResendRead, Die, Tick

\* A link that has been used, replaced or cancelled never works again.
THEOREM LinksDieOnce == Spec => DeadLinksStayDead
<1> DEFINE StaysDead ==
      \A t \in Tokens :
         (mailed[t] # Unmailed /\ \A i \in Ids : ~Holds(i, t))
             => \A i \in Ids : ~Holds(i, t)'
<1>1. TypeOK /\ [Next]_vars => StaysDead
  BY OnlyMinting DEF Unminted
<1>2. TypeOK /\ [Next]_vars =>
        [\A t \in Tokens :
           (mailed[t] # Unmailed /\ \A i \in Ids : ~Holds(i, t))
               => \A i \in Ids : ~Holds(i, t)']_vars
  BY <1>1
<1>3. QED
  BY <1>2, TypeCorrect, PTL DEF Spec, DeadLinksStayDead

-----------------------------------------------------------------------------
(* Verified accounts and the links that are still out.                     *)

\* One row is written; it is not both verified and waiting for a link.
LEMMA CleanWrite ==
  ASSUME TypeOK, VerifiedHoldsNoLink, NEW i \in Ids, NEW row,
         users' = [users EXCEPT ![i] = row] \/ users' = users, late \subseteq late',
         row.state = "live" /\ row.verified => row.vtoken \in late' \cup {NoToken}
  PROVE  VerifiedHoldsNoLink'
BY DEF VerifiedHoldsNoLink, Live, TypeOK

LEMMA CleanRows ==
  ASSUME TypeOK, VerifiedHoldsNoLink, NEW i \in Ids, Live(i)
  PROVE  users[i].verified => users[i].vtoken \in late \cup {NoToken}
BY DEF VerifiedHoldsNoLink

LEMMA CleanUpdates ==
  ASSUME TypeOK, VerifiedHoldsNoLink, NEW r \in Requests,
         VerifyWrite(r) \/ ChangeWrite(r) \/ PatchRole(r)
           \/ PatchVerification(r) \/ DeleteUser(r) \/ ResetWrite(r)
  PROVE  VerifiedHoldsNoLink'
<1>1. PICK i : i = req[r].id
  OBVIOUS
<1>2. req[r].step \in {"verify", "reset", "change", "order"}
  BY DEF VerifyWrite, ChangeWrite, PatchRole, PatchVerification, DeleteUser,
         ResetWrite, Due
<1>3. i \in Ids /\ late' = late
  <2>1. i \in Ids
    BY <1>1, <1>2, HeldTypes DEF Idle
  <2>2. late' = late
    BY DEF VerifyWrite, ChangeWrite, PatchRole, PatchVerification, DeleteUser, ResetWrite
  <2>3. QED
    BY <2>1, <2>2
<1>4. CASE ~Live(i)
  <2>1. users' = users
    BY <1>1, <1>4 DEF Update, VerifyWrite, ChangeWrite, PatchRole,
                      PatchVerification, DeleteUser, ResetWrite
  <2>2. QED
    BY <1>3, <2>1 DEF VerifiedHoldsNoLink, Live
<1>5. CASE Live(i)
  <2>1. CASE VerifyWrite(r)
    <3>1. Marked(users[i], TRUE).vtoken = NoToken
      BY <1>3, <1>5, LiveRow DEF Marked, Row
    <3>2. QED
      BY <1>1, <1>3, <1>5, <2>1, <3>1, CleanWrite DEF VerifyWrite, Update
  <2>2. CASE ChangeWrite(r)
    <3>1. PICK p : p = req[r].password
      OBVIOUS
    <3>2. /\ Chosen(users[i], p).verified = users[i].verified
          /\ Chosen(users[i], p).vtoken = users[i].vtoken
      BY <1>3, <1>5, LiveRow DEF Chosen, Row
    <3>3. QED
      BY <1>1, <1>3, <1>5, <2>2, <3>1, <3>2, CleanRows, CleanWrite DEF ChangeWrite, Update
  <2>3. CASE PatchRole(r)
    <3>1. users' = [users EXCEPT ![i] = [users[i] EXCEPT !.role = req[r].what.role]]
      BY <1>1, <1>5, <2>3 DEF PatchRole, Update
    <3>2. /\ [users[i] EXCEPT !.role = req[r].what.role].verified = users[i].verified
          /\ [users[i] EXCEPT !.role = req[r].what.role].vtoken = users[i].vtoken
      BY <1>3, <1>5, LiveRow DEF Row
    <3>3. QED
      BY <1>3, <1>5, <3>1, <3>2, CleanRows, CleanWrite
  <2>4. CASE PatchVerification(r)
    <3>1. PICK v : v = req[r].what.value
      OBVIOUS
    <3>2. Marked(users[i], v).vtoken = NoToken
      BY <1>3, <1>5, LiveRow DEF Marked, Row
    <3>3. QED
      BY <1>1, <1>3, <1>5, <2>4, <3>1, <3>2, CleanWrite DEF PatchVerification, Update
  <2>5. CASE DeleteUser(r)
    BY <1>1, <1>3, <1>5, <2>5, CleanWrite DEF DeleteUser, Update, Gone
  <2>6. CASE ResetWrite(r)
    <3>1. PICK p : p = req[r].password
      OBVIOUS
    <3>2. /\ ResetTo(users[i], p).verified = users[i].verified
          /\ ResetTo(users[i], p).vtoken = users[i].vtoken
      BY <1>3, <1>5, LiveRow DEF ResetTo, Chosen, Row
    <3>3. QED
      BY <1>1, <1>3, <1>5, <2>6, <3>1, <3>2, CleanRows, CleanWrite DEF ResetWrite, Update
  <2>7. QED
    BY <2>1, <2>2, <2>3, <2>4, <2>5, <2>6
<1>6. QED
  BY <1>4, <1>5

LEMMA CleanStep == TypeOK /\ VerifiedHoldsNoLink /\ [Next]_vars => VerifiedHoldsNoLink'
<1> SUFFICES ASSUME TypeOK, VerifiedHoldsNoLink, [Next]_vars PROVE VerifiedHoldsNoLink'
  OBVIOUS
<1>1. ASSUME NEW e \in Emails, NEW p \in Passwords, Signup(e, p)
      PROVE  VerifiedHoldsNoLink'
  <2>1. PICK i \in Ids, t \in Tokens :
          users' = [users EXCEPT ![i] = Account(e, p, FALSE, FALSE, t)]
    BY <1>1 DEF Signup
  <2>2. ~Account(e, p, FALSE, FALSE, t).verified /\ late' = late
    BY <1>1 DEF Account, Signup
  <2>3. QED
    BY <2>1, <2>2, CleanWrite
<1>2. ASSUME NEW i \in Ids, QueueReset(i), late' = late
      PROVE  VerifiedHoldsNoLink'
  <2>1. PICK t \in Tokens : users' = [users EXCEPT ![i] = Resettable(users[i], t)]
    BY <1>2 DEF QueueReset, TypeOK
  <2>2. /\ Resettable(users[i], t).verified = users[i].verified
        /\ Resettable(users[i], t).vtoken = users[i].vtoken
    BY <1>2, LiveRow DEF QueueReset, Resettable, Row
  <2>3. QED
    BY <1>2, <2>1, <2>2, CleanRows, CleanWrite DEF QueueReset
<1>3. ASSUME NEW r \in Requests, QueueVerification(r)
      PROVE  VerifiedHoldsNoLink'
  <2>1. req[r].id \in Ids
    BY <1>3, HeldTypes DEF QueueVerification, Idle
  <2>2. PICK i : i = req[r].id
    OBVIOUS
  <2>3. PICK t \in Tokens :
          /\ Update(i, [users[i] EXCEPT !.vtoken = t])
          /\ late' = IF Live(i) /\ users[i].verified THEN late \cup {t} ELSE late
    BY <1>3, <2>2 DEF QueueVerification
  <2>4. CASE ~Live(i)
    BY <2>3, <2>4 DEF Update, VerifiedHoldsNoLink, Live
  <2>5. CASE Live(i)
    <3>1. users[i] \in Row
      BY <2>1, <2>2, <2>5, LiveRow
    <3>2. PICK row : row = [users[i] EXCEPT !.vtoken = t]
      OBVIOUS
    <3>3. row.vtoken = t /\ row.verified = users[i].verified
      BY <3>1, <3>2 DEF Row
    <3>4. users' = [users EXCEPT ![i] = row]
      BY <2>3, <2>5, <3>2 DEF Update
    <3>5. row.verified => t \in late'
      BY <2>3, <2>5, <3>3
    <3>6. late \subseteq late'
      BY <2>3
    <3>7. QED
      BY <2>1, <2>2, <3>3, <3>4, <3>5, <3>6, CleanWrite
  <2>6. QED
    BY <2>4, <2>5
<1>4. ASSUME NEW r \in Requests, AdminCreate(r)
      PROVE  VerifiedHoldsNoLink'
  <2>1. PICK i \in Ids :
          users' = [users EXCEPT ![i] = Account(req[r].email,
                       req[r].password, TRUE, TRUE, NoToken)]
    BY <1>4 DEF AdminCreate
  <2>2. Account(req[r].email, req[r].password, TRUE, TRUE, NoToken).vtoken = NoToken
    BY DEF Account
  <2>3. QED
    BY <1>4, <2>1, <2>2, CleanWrite DEF AdminCreate
<1>5. ASSUME NEW r \in Requests, AdminReset(r)
      PROVE  VerifiedHoldsNoLink'
  <2>1. req[r].id \in Ids
    BY <1>5, HeldTypes DEF AdminReset, Due, Idle
  <2>2. QED
    BY <1>2, <1>5, <2>1 DEF AdminReset
<1>6. ASSUME users' = users, late' = late
      PROVE  VerifiedHoldsNoLink'
  BY <1>6 DEF VerifiedHoldsNoLink, Live
<1>7. QED
  BY <1>1, <1>2, <1>3, <1>4, <1>5, <1>6, CleanUpdates
     DEF Next, Public, Start, Finish, vars, ForgotPassword, VerifyRead,
         ResendRead, ResetRead, ChangeRead, AskOverOther, AskOverAny, AskRelink,
         CliSetRole, AskCreate, Ordered, StaffResendRead, Die, Tick

\* No link is left out to a verified account that would undo a later "mark
\* unverified", but for a resend that the verification overtook (patch_verification
\* and verify clear the token they find).
THEOREM VerifiedIsClean == Spec => []VerifiedHoldsNoLink
<1>1. ASSUME Init PROVE VerifiedHoldsNoLink
  <2>1. ASSUME NEW i \in Ids, Live(i) PROVE users[i].vtoken = NoToken
    <3>1. i \in DOMAIN FounderEmail
      BY <1>1, <2>1 DEF Init, Live, Unborn
    <3>2. users[i] = [Account(FounderEmail[i], FounderPassword, TRUE, FALSE, NoToken)
                         EXCEPT !.role = "admin"]
      BY <1>1, <3>1 DEF Init
    <3>3. QED
      BY <3>2 DEF Account
  <2>2. QED
    BY <2>1 DEF VerifiedHoldsNoLink
<1>2. QED
  BY <1>1, CleanStep, TypeCorrect, PTL DEF Spec
=============================================================================
