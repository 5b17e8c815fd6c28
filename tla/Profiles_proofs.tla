-------------------------- MODULE Profiles_proofs ---------------------------
(***************************************************************************)
(* Proofs about Profiles, for any number of users, names, seeds and        *)
(* requests: an artist's address and the front page stay his, the primary  *)
(* flags are bounded, and a refused save was raced.                        *)
(***************************************************************************)
EXTENDS Profiles, FiniteSetTheorems, TLAPS

-----------------------------------------------------------------------------
(* What the types say.                                                     *)

LEMMA RequestShape ==
    ASSUME NEW q \in Request
    PROVE  /\ q = Idle <=> q.step = "idle"
           /\ q.step \in {"idle", "mine", "slug", "insert", "commit", "edit"}
           /\ q # Idle => q.user \in Ids /\ q.raced \in BOOLEAN
           /\ q.step \in {"mine", "edit"} => q.name \in Names
           /\ q.step \in {"slug", "insert", "commit"} =>
                q.slug \in Slugs /\ q.first \in BOOLEAN
           /\ q.step = "commit" => q.id \in 1 .. MaxRows
PROOF
  BY DEF Request, Idle

LEMMA RowShape ==
    ASSUME NEW p \in Row
    PROVE  p # NoRow /\ p.id \in Nat /\ p.slug \in Slugs /\ p.primary \in BOOLEAN
PROOF
  BY NoRowApart DEF Row

\* What is written is a row.
LEMMA NewRow ==
    ASSUME NEW id \in 1 .. MaxRows, NEW slug \in Slugs, NEW primary \in BOOLEAN
    PROVE  [id |-> id, slug |-> slug, primary |-> primary] \in Row
PROOF
  BY DEF Row

LEMMA NextDrawn ==
    ASSUME TypeOK, next <= MaxRows
    PROVE  next \in 1 .. MaxRows /\ next + 1 \in 1 .. (MaxRows + 1)
PROOF
  BY RowsBound DEF TypeOK

LEMMA RacedShape ==
    ASSUME NEW q \in Request, q # Idle, NEW p, p = [q EXCEPT !.raced = TRUE]
    PROVE  /\ p \in Request /\ p # Idle /\ p.step = q.step /\ p.raced
           /\ q.step \in {"slug", "insert", "commit"} => p.first = q.first
           /\ q.step = "commit" => p.id = q.id
PROOF
  BY DEF Request, Idle

\* Being overtaken changes no more than `raced'.
LEMMA OvertakenShape ==
    ASSUME TypeOK, NEW r \in Requests, NEW q \in Requests
    PROVE  /\ Overtaken(r) \in [Requests -> Request]
           /\ Overtaken(r)[q].step = req[q].step
           /\ req[q].step \in {"slug", "insert", "commit"} =>
                Overtaken(r)[q].first = req[q].first
           /\ req[q].step = "commit" => Overtaken(r)[q].id = req[q].id
           /\ (q # r /\ req[q] # Idle) => Overtaken(r)[q].raced
PROOF
  <1>1. ASSUME NEW o \in Requests
        PROVE  /\ Overtaken(r)[o] \in Request
               /\ Overtaken(r)[o].step = req[o].step
               /\ req[o].step \in {"slug", "insert", "commit"} =>
                    Overtaken(r)[o].first = req[o].first
               /\ req[o].step = "commit" => Overtaken(r)[o].id = req[o].id
               /\ (o # r /\ req[o] # Idle) => Overtaken(r)[o].raced
    <2>1. req[o] \in Request
      BY DEF TypeOK
    <2>2. CASE o = r \/ req[o] = Idle
      BY <2>1, <2>2 DEF Overtaken
    <2>3. CASE o # r /\ req[o] # Idle
      <3>1. Overtaken(r)[o] = [req[o] EXCEPT !.raced = TRUE]
        BY <2>3 DEF Overtaken
      <3> QED
        BY <2>1, <2>3, <3>1, RacedShape
    <2> QED
      BY <2>2, <2>3
  <1>2. Overtaken(r) = [o \in Requests |-> Overtaken(r)[o]]
    BY DEF Overtaken
  <1> QED
    BY <1>1, <1>2

-----------------------------------------------------------------------------
(* Types, and that no request is in flight while the server boots.         *)

Core ==
    /\ TypeOK
    /\ ~up => \A r \in Requests : req[r] = Idle

LEMMA InitCore == Init => Core
PROOF
  <1> SUFFICES ASSUME Init PROVE Core
    OBVIOUS
  <1>1. Saved = {} /\ profiles \in [Ids -> Row \cup {NoRow}]
    BY DEF Init, Saved
  <1>2. next \in 1 .. (MaxRows + 1)
    BY RowsBound DEF Init
  <1>3. req \in [Requests -> Request] /\ \A r \in Requests : req[r] = Idle
    BY DEF Init, Request
  <1>4. seeded \in [Seeds -> accounts \cup {NoRow}]
    BY DEF Init
  <1> QED
    BY <1>1, <1>2, <1>3, <1>4 DEF Init, Core, TypeOK

\* A step of a request that writes no row.
LEMMA OwnStep ==
    ASSUME Core, NEW r \in Requests, NEW q \in Request, up \/ q = Idle,
           Set(r, q), UNCHANGED <<up, accounts, born, seeded, profiles, next>>
    PROVE  Core'
PROOF
  BY DEF Core, TypeOK, Set, Saved

LEMMA SaveCore == ASSUME Core, NEW r \in Requests, Save(r) PROVE Core'
PROOF
  <1>1. ASSUME NEW u \in Ids, NEW name \in Names, ReadMine(r, u, name) PROVE Core'
    <2>1. PICK q : q = [step |-> IF profiles[u] = NoRow THEN "mine" ELSE "edit",
                        user |-> u, name |-> name, raced |-> FALSE]
      OBVIOUS
    <2>2. q \in Request
      BY <2>1 DEF Request
    <2> QED
      BY <1>1, <2>1, <2>2, OwnStep DEF ReadMine
  <1>2. CASE ReadAny(r)
    <2>1. req[r] \in Request /\ req[r] # Idle /\ up
      BY <1>2 DEF ReadAny, Core, TypeOK, Idle
    <2>2. PICK q : q = [step |-> "slug", user |-> req[r].user, slug |-> <<req[r].name, 1>>,
                        first |-> Saved = {}, raced |-> req[r].raced]
      OBVIOUS
    <2>3. <<req[r].name, 1>> \in Slugs /\ (Saved = {}) \in BOOLEAN
      BY <1>2, <2>1, RequestShape, SuffixIsPositive DEF ReadAny, Slugs
    <2>4. q \in Request
      BY <2>1, <2>2, <2>3, RequestShape DEF Request
    <2> QED
      BY <1>2, <2>1, <2>2, <2>4, OwnStep DEF ReadAny
  <1>3. CASE TrySlug(r)
    <2>1. req[r] \in Request /\ req[r] # Idle /\ up
      BY <1>3 DEF TrySlug, Core, TypeOK, Idle
    <2>2. [req[r] EXCEPT !.step = "insert"] \in Request
      BY <1>3, <2>1 DEF TrySlug, Request, Idle
    <2>3. PICK s : s = req[r].slug
      OBVIOUS
    <2>4. s \in Names \X (1 .. MaxSuffix)
      BY <1>3, <2>1, <2>3, RequestShape DEF TrySlug, Slugs
    <2>5. s[2] < MaxSuffix => <<s[1], s[2] + 1>> \in Slugs
      BY <2>4, SuffixIsPositive DEF Slugs
    <2>6. s[2] < MaxSuffix =>
            [req[r] EXCEPT !.slug = <<s[1], s[2] + 1>>] \in Request
      BY <1>3, <2>1, <2>5 DEF TrySlug, Request, Idle
    <2> QED
      BY <1>3, <2>1, <2>2, <2>3, <2>6, OwnStep DEF TrySlug
  <1>4. CASE Insert(r)
    <2>1. req[r] \in Request /\ req[r].step = "insert" /\ req[r] # Idle /\ up
      BY <1>4 DEF Insert, Core, TypeOK, Idle
    <2>2. PICK q : q = [step |-> "commit", user |-> req[r].user, slug |-> req[r].slug,
                        first |-> req[r].first, raced |-> req[r].raced, id |-> next]
      OBVIOUS
    <2>3. next \in 1 .. MaxRows /\ next' \in 1 .. (MaxRows + 1)
      BY <1>4, NextDrawn DEF Insert, Core
    <2>4. q \in Request
      BY <2>1, <2>2, <2>3, RequestShape DEF Request
    <2> QED
      BY <1>4, <2>1, <2>2, <2>3, <2>4 DEF Insert, Set, Core, TypeOK, Saved
  <1>5. CASE Commit(r)
    <2>1. req[r] \in Request /\ req[r].step = "commit" /\ req[r] # Idle /\ up
      BY <1>5 DEF Commit, Core, TypeOK, Idle
    <2>2. PICK u, p : /\ u = req[r].user
                      /\ p = [id |-> req[r].id, slug |-> req[r].slug,
                              primary |-> req[r].first]
      OBVIOUS
    <2>3. u \in Ids /\ u \in accounts
      BY <1>5, <2>1, <2>2, RequestShape DEF Commit, Accepted
    <2>4. p \in Row
      BY <2>1, <2>2, RequestShape, NewRow
    <2>5. profiles' = [profiles EXCEPT ![u] = p]
      BY <1>5, <2>2 DEF Commit
    <2>6. profiles' \in [Ids -> Row \cup {NoRow}] /\ Saved' \subseteq accounts'
      BY <1>5, <2>3, <2>4, <2>5 DEF Commit, Core, TypeOK, Saved
    <2>7. req' \in [Requests -> Request]
      BY <1>5, OvertakenShape DEF Commit, Core, Request
    <2> QED
      BY <1>5, <2>1, <2>6, <2>7 DEF Commit, Core, TypeOK
  <1>6. CASE Edit(r) \/ Fail(r)
    BY <1>6, OwnStep DEF Edit, Fail, Request
  <1> QED
    BY <1>1, <1>2, <1>3, <1>4, <1>5, <1>6 DEF Save

LEMMA AccountsCore ==
    ASSUME Core, NEW u \in Ids, SignUp(u) \/ DeleteUser(u)
    PROVE  Core'
PROOF
  <1>1. CASE SignUp(u)
    BY <1>1 DEF SignUp, Core, TypeOK, Saved
  <1>2. CASE DeleteUser(u)
    <2>1. seeded' \in [Seeds -> accounts' \cup {NoRow}]
      BY <1>2 DEF DeleteUser, Core, TypeOK
    <2>2. profiles' \in [Ids -> Row \cup {NoRow}] /\ Saved' \subseteq accounts'
      BY <1>2 DEF DeleteUser, Core, TypeOK, Saved
    <2>3. req' \in [Requests -> Request]
      <3>1. ASSUME NEW o \in Requests, req[o] # Idle
            PROVE  [req[o] EXCEPT !.raced = TRUE] \in Request
        BY <3>1, RacedShape DEF Core, TypeOK
      <3> QED
        BY <1>2, <3>1 DEF DeleteUser, Request
    <2> QED
      BY <1>2, <2>1, <2>2, <2>3 DEF DeleteUser, Core, TypeOK
  <1> QED
    BY <1>1, <1>2

LEMMA BootCore == ASSUME Core, Stop \/ Boot PROVE Core'
PROOF
  <1>1. CASE Stop
    BY <1>1 DEF Stop, Core, TypeOK, Saved, Request
  <1>2. CASE Start
    BY <1>2 DEF Start, Core, TypeOK, Saved
  <1>3. ASSUME NEW s \in Seeds, SeedUser(s) PROVE Core'
    BY <1>3 DEF SeedUser, Core, TypeOK, Saved
  <1>4. ASSUME NEW s \in Seeds, SeedProfile(s) PROVE Core'
    <2>1. PICK u, p : /\ u = seeded[s]
                      /\ p = [id |-> next, slug |-> <<s, 1>>, primary |-> s = FirstSeed]
      OBVIOUS
    <2>2. u \in accounts /\ u \in Ids
      BY <1>4, <2>1 DEF SeedProfile, Unprofiled, Core, TypeOK
    <2>3. <<s, 1>> \in Slugs /\ (s = FirstSeed) \in BOOLEAN
      BY SeedsAreNames, SuffixIsPositive DEF Slugs
    <2>4. p \in Row
      BY <1>4, <2>1, <2>3, NewRow, NextDrawn DEF SeedProfile, Core
    <2>5. profiles' = [profiles EXCEPT ![u] = p]
      BY <1>4, <2>1 DEF SeedProfile
    <2>6. profiles' \in [Ids -> Row \cup {NoRow}] /\ Saved' \subseteq accounts'
      <3>1. profiles \in [Ids -> Row \cup {NoRow}] /\ Saved \subseteq accounts
        BY DEF Core, TypeOK
      <3>2. accounts' = accounts /\ Saved' \subseteq Saved \cup {u}
        BY <1>4, <2>5, <3>1 DEF SeedProfile, Saved
      <3> QED
        BY <2>2, <2>4, <2>5, <3>1, <3>2
    <2>7. next' \in 1 .. (MaxRows + 1)
      BY <1>4, NextDrawn DEF SeedProfile, Core
    <2> QED
      BY <1>4, <2>6, <2>7 DEF SeedProfile, Core, TypeOK
  <1> QED
    BY <1>1, <1>2, <1>3, <1>4 DEF Boot

LEMMA StepCore == Core /\ [Next]_vars => Core'
PROOF
  <1>1. Core /\ UNCHANGED vars => Core'
    BY DEF Core, TypeOK, vars, Saved
  <1> QED
    BY <1>1, SaveCore, AccountsCore, BootCore DEF Next

LEMMA CoreHolds == Spec => []Core
PROOF
  BY InitCore, StepCore, PTL DEF Spec

\* Every variable keeps its type, and no profile outlives its account.
THEOREM TypeCorrect == Spec => []TypeOK
PROOF
  <1>1. Core => TypeOK
    BY DEF Core
  <1> QED
    BY <1>1, CoreHolds, PTL

-----------------------------------------------------------------------------
(* What a step does to the rows.                                           *)

\* One row appears, for somebody who had none.
Adds(u, id, slug, primary) ==
    /\ u \in accounts' /\ profiles[u] = NoRow
    /\ SlugFree(slug)
    /\ profiles' = [profiles EXCEPT ![u] =
                      [id |-> id, slug |-> slug, primary |-> primary]]

\* One user is deleted, with his row.
Drops(u) ==
    /\ accounts' = accounts \ {u}
    /\ profiles' = [profiles EXCEPT ![u] = NoRow]
    /\ next' = next

LEMMA CommitAdds ==
    ASSUME Core, NEW r \in Requests, Commit(r)
    PROVE  /\ req[r].user \in Ids /\ req[r].id \in 1 .. MaxRows
           /\ req[r].slug \in Slugs /\ req[r].first \in BOOLEAN
           /\ Adds(req[r].user, req[r].id, req[r].slug, req[r].first)
PROOF
  <1>1. req[r] \in Request /\ req[r].step = "commit" /\ req[r] # Idle
    BY DEF Commit, Core, TypeOK, Idle
  <1>2. Adds(req[r].user, req[r].id, req[r].slug, req[r].first)
    BY DEF Commit, Accepted, Adds
  <1> QED
    BY <1>1, <1>2, RequestShape

LEMMA SeedAdds ==
    ASSUME Core, NEW s \in Seeds, SeedProfile(s)
    PROVE  /\ seeded[s] \in Ids /\ next \in 1 .. MaxRows
           /\ <<s, 1>> \in Slugs /\ (s = FirstSeed) \in BOOLEAN
           /\ Adds(seeded[s], next, <<s, 1>>, s = FirstSeed)
PROOF
  <1>1. seeded[s] \in Ids /\ seeded[s] \in accounts
    BY DEF SeedProfile, Unprofiled, Core, TypeOK
  <1>2. <<s, 1>> \in Slugs
    BY SeedsAreNames, SuffixIsPositive DEF Slugs
  <1>3. Adds(seeded[s], next, <<s, 1>>, s = FirstSeed)
    BY <1>1 DEF SeedProfile, Unprofiled, Adds
  <1> QED
    BY <1>1, <1>2, <1>3, NextDrawn DEF SeedProfile, Core

\* Every other step leaves the rows alone.
Adding ==
    \/ \E r \in Requests : Commit(r)
    \/ \E s \in Seeds : SeedProfile(s)
    \/ \E u \in Ids : DeleteUser(u)

LEMMA RowsStay == ASSUME Next, ~Adding PROVE UNCHANGED profiles
PROOF
  BY DEF Adding, Next, Save, Boot, ReadMine, ReadAny, TrySlug, Insert, Edit, Fail, SignUp,
         Stop, Start, SeedUser

LEMMA RowsChange ==
    ASSUME Core, Next
    PROVE  \/ UNCHANGED profiles
           \/ \E u \in Ids, id \in 1 .. MaxRows, slug \in Slugs, primary \in BOOLEAN :
                Adds(u, id, slug, primary)
           \/ \E u \in Ids : Drops(u)
PROOF
  <1>1. ASSUME NEW u \in Ids, DeleteUser(u) PROVE Drops(u)
    BY <1>1 DEF DeleteUser, Drops
  <1>2. ASSUME NEW r \in Requests, Commit(r)
        PROVE  \E u \in Ids, id \in 1 .. MaxRows, slug \in Slugs, primary \in BOOLEAN :
                 Adds(u, id, slug, primary)
    BY <1>2, CommitAdds
  <1>3. ASSUME NEW s \in Seeds, SeedProfile(s)
        PROVE  \E u \in Ids, id \in 1 .. MaxRows, slug \in Slugs, primary \in BOOLEAN :
                 Adds(u, id, slug, primary)
    BY <1>3, SeedAdds
  <1> QED
    BY <1>1, <1>2, <1>3, RowsStay DEF Adding

\* What is known of every row after one was added, or dropped.
LEMMA AfterAdds ==
    ASSUME Core, NEW u \in Ids, NEW id \in 1 .. MaxRows, NEW slug \in Slugs,
           NEW primary \in BOOLEAN, Adds(u, id, slug, primary)
    PROVE  /\ u \notin Saved /\ Saved' = Saved \cup {u}
           /\ profiles'[u] = [id |-> id, slug |-> slug, primary |-> primary]
           /\ profiles'[u] \in Row
           /\ \A v \in Saved : profiles'[v] = profiles[v] /\ profiles[v] \in Row
PROOF
  <1>1. [id |-> id, slug |-> slug, primary |-> primary] \in Row
    BY NewRow
  <1> QED
    BY <1>1, NoRowApart DEF Adds, Saved, Core, TypeOK

LEMMA AfterDrops ==
    ASSUME Core, NEW u \in Ids, Drops(u)
    PROVE  /\ Saved' = Saved \ {u}
           /\ \A v \in Saved \ {u} : profiles'[v] = profiles[v]
           /\ u \notin accounts'
PROOF
  BY DEF Drops, Saved, Core, TypeOK

\* Requests whose row has its id and is not committed.
Drawn == {r \in Requests : req[r].step = "commit"}

\* Ids come from the sequence: no two rows share one, be they committed or not,
\* so the order of the roster is total.
RosterOrdered ==
    /\ \A u \in Saved : profiles[u].id < next
    /\ \A r \in Drawn : req[r].id < next
    /\ \A u, v \in Saved : u # v => profiles[u].id # profiles[v].id
    /\ \A r, q \in Drawn : r # q => req[r].id # req[q].id
    /\ \A u \in Saved, r \in Drawn : profiles[u].id # req[r].id

LEMMA Numbers ==
    ASSUME Core
    PROVE  /\ next \in Nat
           /\ \A u \in Saved : profiles[u].id \in Nat
           /\ \A r \in Drawn : req[r].id \in Nat
PROOF
  <1>1. next \in Nat
    BY RowsBound DEF Core, TypeOK
  <1>2. \A u \in Saved : profiles[u] \in Row
    BY DEF Core, TypeOK, Saved
  <1>3. \A r \in Drawn : req[r].id \in 1 .. MaxRows
    BY RequestShape DEF Core, TypeOK, Drawn
  <1> QED
    BY <1>1, <1>2, <1>3, RowShape, RowsBound

\* A row waiting for its commit keeps its id, and a new one has the next.
LEMMA DrawnStep ==
    ASSUME Core, [Next]_vars, NEW o \in Requests, o \in Drawn'
    PROVE  \/ o \in Drawn /\ req'[o].id = req[o].id /\ req'[o].first = req[o].first
           \/ Insert(o) /\ req'[o].id = next
PROOF
  <1>0. req'[o].step = "commit" /\ req[o] \in Request
    BY DEF Drawn, Core, TypeOK
  <1>1. ASSUME NEW r \in Requests, Commit(r)
        PROVE  o \in Drawn /\ req'[o].id = req[o].id /\ req'[o].first = req[o].first
    <2>1. o # r /\ req'[o] = Overtaken(r)[o]
      BY <1>0, <1>1, OvertakenShape DEF Commit, Core, Idle
    <2> QED
      BY <1>0, <1>1, <2>1, OvertakenShape DEF Core, Drawn
  <1>2. ASSUME NEW u \in Ids, DeleteUser(u)
        PROVE  o \in Drawn /\ req'[o].id = req[o].id /\ req'[o].first = req[o].first
    <2>1. req[o] # Idle /\ req'[o] = [req[o] EXCEPT !.raced = TRUE]
      BY <1>0, <1>2 DEF DeleteUser, Idle
    <2> QED
      BY <1>0, <2>1, RacedShape DEF Drawn
  <1>3. CASE Stop
    BY <1>0, <1>3 DEF Stop, Idle
  <1>4. ASSUME NEW r \in Requests, Save(r), ~Commit(r), o # r \/ ~Insert(r)
        PROVE  req'[o] = req[o]
    <2>1. CASE o # r
      BY <1>4, <2>1
      DEF Save, ReadMine, ReadAny, TrySlug, Insert, Edit, Fail, Set, Core, TypeOK
    <2>2. CASE o = r
      <3>1. CASE TrySlug(o)
        <4>1. req[o].step = "slug"
          BY <3>1 DEF TrySlug
        <4>2. PICK slug : req'[o] \in {[req[o] EXCEPT !.step = "insert"],
                                       [req[o] EXCEPT !.slug = slug]}
          BY <3>1 DEF TrySlug, Set, Core, TypeOK
        <4>3. req'[o].step # "commit"
          BY <1>0, <4>1, <4>2 DEF Request, Idle
        <4> QED
          BY <1>0, <4>3
      <3>2. CASE ReadAny(o)
        <4>1. req'[o].step = "slug"
          BY <3>2 DEF ReadAny, Set, Core, TypeOK
        <4> QED
          BY <1>0, <4>1
      <3>3. CASE Edit(o) \/ Fail(o)
        <4>1. req'[o].step = "idle"
          BY <3>3 DEF Edit, Fail, Set, Idle, Core, TypeOK
        <4> QED
          BY <1>0, <4>1
      <3>4. ASSUME NEW u \in Ids, NEW name \in Names, ReadMine(o, u, name) PROVE FALSE
        <4>1. req'[o].step = IF profiles[u] = NoRow THEN "mine" ELSE "edit"
          BY <3>4 DEF ReadMine, Set, Core, TypeOK
        <4> QED
          BY <1>0, <4>1
      <3> QED
        BY <1>4, <2>2, <3>1, <3>2, <3>3, <3>4 DEF Save
    <2> QED
      BY <2>1, <2>2
  <1>5. ASSUME Insert(o) PROVE req'[o].id = next
    BY <1>5 DEF Insert, Set, Core, TypeOK
  <1>6. ASSUME req'[o] = req[o]
        PROVE  o \in Drawn /\ req'[o].id = req[o].id /\ req'[o].first = req[o].first
    BY <1>0, <1>6 DEF Drawn
  <1>7. CASE UNCHANGED vars
    BY <1>6, <1>7 DEF vars
  <1>8. ASSUME Boot \/ \E u \in Ids : SignUp(u) PROVE req'[o] = req[o]
    BY <1>8 DEF Boot, Start, SeedUser, SeedProfile, SignUp
  <1> QED
    BY <1>1, <1>2, <1>3, <1>4, <1>5, <1>6, <1>7, <1>8 DEF Next

LEMMA RosterStep == Core /\ RosterOrdered /\ [Next]_vars => RosterOrdered'
PROOF
  <1> SUFFICES ASSUME Core, RosterOrdered, [Next]_vars PROVE RosterOrdered'
    OBVIOUS
  <1> DEFINE Kept(r) == r \in Drawn /\ req'[r].id = req[r].id
  <1>1. ASSUME NEW r \in Requests, Insert(r) PROVE RosterOrdered'
    <2>1. /\ profiles' = profiles /\ Saved' = Saved /\ next' = next + 1
          /\ req'[r].id = next
      BY <1>1 DEF Insert, Set, Saved, Core, TypeOK
    <2>2. \A o \in Drawn' : o = r \/ Kept(o)
      <3>1. \A o \in Requests \ {r} : req'[o] = req[o]
        BY <1>1 DEF Insert, Set, Core, TypeOK
      <3> QED
        BY <3>1 DEF Drawn
    <2> QED
      BY <2>1, <2>2, Numbers DEF RosterOrdered
  <1>2. ASSUME NEW r \in Requests, Commit(r) PROVE RosterOrdered'
    <2>1. PICK u \in Ids : u = req[r].user
      BY <1>2, CommitAdds
    <2>2. /\ Saved' = Saved \cup {u} /\ profiles'[u].id = req[r].id /\ next' = next
          /\ \A v \in Saved : profiles'[v] = profiles[v]
      <3>1. /\ Saved' = Saved \cup {u}
            /\ profiles'[u] = [id |-> req[r].id, slug |-> req[r].slug,
                               primary |-> req[r].first]
            /\ \A v \in Saved : profiles'[v] = profiles[v]
        BY <1>2, <2>1, CommitAdds, AfterAdds
      <3> QED
        BY <1>2, <3>1 DEF Commit
    <2>3. r \in Drawn /\ \A o \in Drawn' : o # r /\ Kept(o)
      <3>1. req[r].step = "commit" /\ req'[r] = Idle
        BY <1>2 DEF Commit, Core, TypeOK, Overtaken
      <3>2. \A o \in Requests : ~Insert(o)
        <4>1. next' = next /\ next \in Nat
          BY <1>2, Numbers DEF Commit
        <4> QED
          BY <4>1 DEF Insert
      <3> QED
        BY <3>1, <3>2, DrawnStep DEF Drawn, Idle
    <2> QED
      BY <2>2, <2>3, Numbers DEF RosterOrdered
  <1>3. ASSUME NEW s \in Seeds, SeedProfile(s) PROVE RosterOrdered'
    <2>1. PICK u \in Ids : u = seeded[s]
      BY <1>3, SeedAdds
    <2>2. /\ Saved' = Saved \cup {u} /\ profiles'[u].id = next /\ next' = next + 1
          /\ \A v \in Saved : profiles'[v] = profiles[v]
      <3>1. /\ Saved' = Saved \cup {u}
            /\ profiles'[u] = [id |-> next, slug |-> <<s, 1>>, primary |-> s = FirstSeed]
            /\ \A v \in Saved : profiles'[v] = profiles[v]
        BY <1>3, <2>1, SeedAdds, AfterAdds
      <3> QED
        BY <1>3, <3>1 DEF SeedProfile
    <2>3. Drawn' = {}
      BY <1>3 DEF SeedProfile, Core, Drawn, Idle
    <2> QED
      BY <2>2, <2>3, Numbers DEF RosterOrdered
  <1>4. ASSUME Saved' \subseteq Saved, \A v \in Saved' : profiles'[v] = profiles[v],
               next' \in Nat, next <= next', \A r \in Requests : ~Insert(r)
        PROVE  RosterOrdered'
    <2>1. \A o \in Drawn' : Kept(o)
      BY <1>4, DrawnStep DEF Drawn
    <2> QED
      BY <1>4, <2>1, Numbers DEF RosterOrdered
  <1>5. ASSUME NEW u \in Ids, DeleteUser(u) PROVE RosterOrdered'
    <2>1. /\ Saved' = Saved \ {u} /\ \A v \in Saved \ {u} : profiles'[v] = profiles[v]
          /\ next' = next
      BY <1>5, AfterDrops DEF DeleteUser, Drops
    <2>2. \A r \in Requests : ~Insert(r)
      BY <2>1, Numbers DEF Insert
    <2> QED
      BY <1>4, <2>1, <2>2, Numbers
  <1>6. ASSUME Next, ~Adding, \A r \in Requests : ~Insert(r) PROVE RosterOrdered'
    <2>1. profiles' = profiles /\ Saved' = Saved
      BY <1>6, RowsStay DEF Saved
    <2>2. next' = next
      BY <1>6
      DEF Adding, Next, Save, Boot, ReadMine, ReadAny, TrySlug, Edit, Fail, SignUp, Stop,
          Start, SeedUser
    <2> QED
      BY <1>4, <1>6, <2>1, <2>2, Numbers
  <1>7. CASE UNCHANGED vars
    BY <1>7 DEF vars, RosterOrdered, Saved, Drawn
  <1> QED
    BY <1>1, <1>2, <1>3, <1>5, <1>6, <1>7 DEF Adding

LEMMA RosterHolds == Spec => []RosterOrdered
PROOF
  <1>1. Init => RosterOrdered
    BY DEF Init, RosterOrdered, Saved, Drawn, Idle
  <1> QED
    BY <1>1, RosterStep, CoreHolds, PTL DEF Spec

\* An artist's page keeps its address for as long as he has an account: no save,
\* seed or restart changes the slug of a row that is there.
THEOREM AddressesLast == Spec => LinksSurvive
PROOF
  <1>1. ASSUME Core, Next, NEW u \in Saved, u \in accounts'
        PROVE  profiles'[u] # NoRow /\ profiles'[u].slug = profiles[u].slug
    <2>1. CASE UNCHANGED profiles
      BY <2>1 DEF Saved
    <2>2. ASSUME NEW v \in Ids, NEW id \in 1 .. MaxRows, NEW slug \in Slugs,
                 NEW primary \in BOOLEAN, Adds(v, id, slug, primary)
          PROVE  profiles'[u] = profiles[u]
      BY <1>1, <2>2, AfterAdds
    <2>3. ASSUME NEW v \in Ids, Drops(v) PROVE profiles'[u] = profiles[u]
      BY <1>1, <2>3, AfterDrops
    <2> QED
      BY <1>1, <2>1, <2>2, <2>3, RowsChange DEF Saved
  <1>2. Core /\ [Next]_vars =>
          [\A u \in Saved : u \in accounts' =>
             profiles'[u] # NoRow /\ profiles'[u].slug = profiles[u].slug]_vars
    BY <1>1
  <1> QED
    BY <1>2, CoreHolds, PTL DEF Spec, LinksSurvive

\* While a flagged artist is on the front page, a claim that would come before
\* him was there before.
LEMMA NoNewRivals ==
    ASSUME Core, RosterOrdered, Next, NEW u \in Saved, u \in Saved',
           profiles'[u] = profiles[u]
    PROVE  Rivals(u)' \subseteq Rivals(u)
PROOF
  <1> SUFFICES ASSUME NEW o \in Requests, o \in Drawn', req'[o].first,
                      req'[o].id < profiles[u].id
               PROVE  o \in Rivals(u)
    BY DEF Rivals, Claims, Drawn
  <1>1. req'[o].id # next
    BY Numbers DEF RosterOrdered
  <1>2. o \in Drawn /\ req'[o].id = req[o].id /\ req'[o].first = req[o].first
    BY <1>1, DrawnStep
  <1> QED
    BY <1>2 DEF Rivals, Claims, Drawn

\* A row that appears comes after the flagged one in front, unless it is flagged
\* and has the lower id: then it comes before all others.
LEMMA FrontOrAhead ==
    ASSUME Core, RosterOrdered, NEW u \in Saved, IsFront(u), profiles[u].primary,
           NEW v \in Ids, NEW id \in 1 .. MaxRows, NEW slug \in Slugs,
           NEW primary \in BOOLEAN, Adds(v, id, slug, primary), id # profiles[u].id
    PROVE  /\ profiles'[u] = profiles[u] /\ u \in Saved'
           /\ \/ IsFront(u)'
              \/ IsFront(v)' /\ primary /\ id < profiles[u].id
PROOF
  <1>1. /\ v # u /\ profiles'[u] = profiles[u] /\ profiles'[v].id = id
        /\ profiles'[v].primary = primary /\ Saved' = Saved \cup {v}
        /\ \A w \in Saved : profiles'[w] = profiles[w]
    <2>1. /\ v # u /\ profiles'[u] = profiles[u] /\ Saved' = Saved \cup {v}
          /\ profiles'[v] = [id |-> id, slug |-> slug, primary |-> primary]
          /\ \A w \in Saved : profiles'[w] = profiles[w]
      BY AfterAdds
    <2> QED
      BY <2>1
  <1>2. ASSUME NEW w \in Saved \ {u} PROVE Before(u, w) /\ Before(u, w)'
    BY <1>1 DEF IsFront, Before
  <1>3. CASE primary /\ id < profiles[u].id
    <2>1. Before(v, u)'
      BY <1>1, <1>3 DEF Before
    <2>2. ASSUME NEW w \in Saved \ {u} PROVE Before(v, w)'
      <3>1. /\ profiles'[v].primary /\ profiles'[v].id < profiles[u].id
            /\ profiles'[w] = profiles[w]
        BY <1>1, <1>3
      <3>2. ~profiles[w].primary \/ profiles[u].id < profiles[w].id
        BY <1>2 DEF Before
      <3>3. profiles[w].primary => profiles'[v].id < profiles[w].id
        BY <1>1, <1>3, <3>2, Numbers, RowsBound
      <3>4. profiles[w].primary \in BOOLEAN
        BY RowShape DEF Core, TypeOK, Saved
      <3> QED
        BY <3>1, <3>3, <3>4 DEF Before
    <2> QED
      BY <1>1, <1>3, <2>1, <2>2 DEF IsFront
  <1>4. CASE ~(primary /\ id < profiles[u].id)
    <2>1. profiles[u].id \in Nat /\ (primary => profiles[u].id < id)
      BY <1>4, Numbers, RowsBound
    <2>2. Before(u, v)'
      BY <1>1, <2>1, Zenon DEF Before
    <2> QED
      BY <1>1, <1>2, <2>2 DEF IsFront
  <1> QED
    BY <1>1, <1>3, <1>4

\* The flagged artist in front stays there while his account lives, but for a
\* first save that found the table empty, drew its id before his and is committed
\* after (put_artist_profile): and no such save is new.
THEOREM FrontPageLasts == Spec => FrontPageStays
PROOF
  <1>1. ASSUME Core, RosterOrdered, Next, NEW u \in Ids,
               IsFront(u), profiles[u].primary, u \in accounts'
        PROVE  /\ profiles'[u].primary /\ Rivals(u)' \subseteq Rivals(u)
               /\ IsFront(u)' \/ RivalTakesOver(u)
    <2>0. u \in Saved
      BY <1>1 DEF IsFront
    <2>1. ASSUME u \in Saved', profiles'[u] = profiles[u], IsFront(u)' \/ RivalTakesOver(u)
          PROVE  /\ profiles'[u].primary /\ Rivals(u)' \subseteq Rivals(u)
                 /\ IsFront(u)' \/ RivalTakesOver(u)
      BY <1>1, <2>0, <2>1, NoNewRivals
    <2>2. ASSUME NEW r \in Requests, Commit(r)
          PROVE  /\ u \in Saved' /\ profiles'[u] = profiles[u]
                 /\ IsFront(u)' \/ RivalTakesOver(u)
      <3>1. PICK v, id, slug, first :
              /\ v = req[r].user /\ id = req[r].id /\ slug = req[r].slug
              /\ first = req[r].first
              /\ v \in Ids /\ id \in 1 .. MaxRows /\ slug \in Slugs /\ first \in BOOLEAN
              /\ Adds(v, id, slug, first)
        BY <1>1, <2>2, CommitAdds
      <3>2. r \in Drawn
        BY <2>2 DEF Commit, Drawn
      <3>3. id # profiles[u].id
        BY <1>1, <2>0, <3>1, <3>2 DEF RosterOrdered
      <3>4. first /\ id < profiles[u].id => r \in Rivals(u)
        BY <3>1, <3>2 DEF Rivals, Claims, Drawn
      <3>5. /\ profiles'[u] = profiles[u] /\ u \in Saved'
            /\ \/ IsFront(u)'
               \/ IsFront(v)' /\ first /\ id < profiles[u].id
        BY <1>1, <2>0, <3>1, <3>3, FrontOrAhead
      <3> QED
        BY <2>2, <3>1, <3>4, <3>5 DEF RivalTakesOver
    <2>3. ASSUME NEW s \in Seeds, SeedProfile(s)
          PROVE  u \in Saved' /\ profiles'[u] = profiles[u] /\ IsFront(u)'
      <3>1. profiles[u].id < next /\ profiles[u].id \in Nat /\ next \in Nat
        BY <1>1, <2>0, Numbers DEF RosterOrdered
      <3>2. PICK v \in Ids, slug \in Slugs, first \in BOOLEAN :
              next \in 1 .. MaxRows /\ Adds(v, next, slug, first)
        BY <1>1, <2>3, SeedAdds
      <3> QED
        BY <1>1, <2>0, <3>1, <3>2, FrontOrAhead
    <2>4. ASSUME NEW v \in Ids, DeleteUser(v)
          PROVE  u \in Saved' /\ profiles'[u] = profiles[u] /\ IsFront(u)'
      <3>1. /\ v # u /\ profiles'[u] = profiles[u] /\ Saved' = Saved \ {v}
            /\ \A w \in Saved \ {v} : profiles'[w] = profiles[w]
        BY <1>1, <2>0, <2>4, AfterDrops DEF DeleteUser, Drops
      <3> QED
        BY <1>1, <2>0, <3>1 DEF IsFront, Before
    <2>5. ASSUME ~Adding PROVE u \in Saved' /\ profiles'[u] = profiles[u] /\ IsFront(u)'
      BY <1>1, <2>0, <2>5, RowsStay DEF IsFront, Before, Saved
    <2> QED
      BY <2>1, <2>2, <2>3, <2>4, <2>5 DEF Adding
  <1>2. Core /\ RosterOrdered /\ [Next]_vars =>
          [\A u \in Ids :
             (IsFront(u) /\ profiles[u].primary /\ u \in accounts') =>
               /\ profiles'[u].primary /\ Rivals(u)' \subseteq Rivals(u)
               /\ \/ IsFront(u)'
                  \/ RivalTakesOver(u)]_vars
    BY <1>1
  <1> QED
    BY <1>2, CoreHolds, RosterHolds, PTL DEF Spec, FrontPageStays

-----------------------------------------------------------------------------
(* A first save that is refused was raced.                                 *)

\* What a request that nothing has raced still knows of the table.
Knows(r) ==
    (req[r].step \in {"mine", "slug", "insert", "commit"} /\ ~req[r].raced) =>
        /\ req[r].user \in accounts /\ profiles[req[r].user] = NoRow
        /\ req[r].step \in {"insert", "commit"} => SlugFree(req[r].slug)

Informed == \A r \in Requests : Knows(r)

LEMMA InformedStep == Core /\ Informed /\ [Next]_vars => Informed'
PROOF
  <1> SUFFICES ASSUME Core, Informed, [Next]_vars, NEW o \in Requests PROVE Knows(o)'
    BY DEF Informed
  <1>0. Knows(o) /\ req[o] \in Request
    BY DEF Informed, Core, TypeOK
  <1>1. CASE UNCHANGED vars
    BY <1>0, <1>1 DEF vars, Knows, SlugFree, Saved
  <1>2. CASE ~up /\ Next
    <2>1. \A r \in Requests : req[r] = Idle
      BY <1>2 DEF Core
    <2>2. \A r \in Requests : ~Save(r)
      <3> SUFFICES ASSUME NEW r \in Requests, Save(r) PROVE FALSE
        OBVIOUS
      <3>1. req[r] = Idle /\ req[r].step = "idle" /\ ~up
        BY <1>2, <2>1 DEF Idle
      <3> QED
        BY <3>1 DEF Save, ReadMine, ReadAny, TrySlug, Insert, Commit, Edit, Fail
    <2>3. req' = req
      BY <1>2, <2>2 DEF Next, Boot, Start, Stop, SeedUser, SeedProfile, SignUp, DeleteUser
    <2> QED
      BY <2>1, <2>3 DEF Knows, Idle
  <1>3. ASSUME NEW u \in Ids, SignUp(u) PROVE Knows(o)'
    BY <1>0, <1>3 DEF SignUp, Knows, SlugFree, Saved
  <1>4. ASSUME NEW u \in Ids, DeleteUser(u) PROVE Knows(o)'
    <2>1. CASE req[o] = Idle
      BY <1>4, <2>1 DEF DeleteUser, Knows, Idle
    <2>2. CASE req[o] # Idle
      <3>1. req'[o] = [req[o] EXCEPT !.raced = TRUE]
        BY <1>4, <2>2 DEF DeleteUser
      <3>2. req'[o].raced
        BY <1>0, <2>2, <3>1, RacedShape
      <3> QED
        BY <3>2 DEF Knows
    <2> QED
      BY <2>1, <2>2
  <1>5. ASSUME Stop \/ Boot, up PROVE Knows(o)'
    <2>1. req'[o] = Idle
      BY <1>5 DEF Stop, Boot, Start, SeedUser, SeedProfile
    <2> QED
      BY <2>1 DEF Knows, Idle
  <1>6. ASSUME NEW r \in Requests, Commit(r) PROVE Knows(o)'
    <2>1. CASE o = r \/ req[o] = Idle
      <3>1. req'[o] = Idle
        BY <1>6, <2>1 DEF Commit, Overtaken, Core, TypeOK
      <3> QED
        BY <3>1 DEF Knows, Idle
    <2>2. CASE o # r /\ req[o] # Idle
      <3>1. req'[o] = Overtaken(r)[o] /\ Overtaken(r)[o].raced
        BY <1>6, <2>2, OvertakenShape DEF Commit, Core
      <3> QED
        BY <3>1 DEF Knows
    <2> QED
      BY <2>1, <2>2
  <1>7. ASSUME NEW r \in Requests, Save(r), ~Commit(r) PROVE Knows(o)'
    <2>1. UNCHANGED <<accounts, profiles>>
      BY <1>7 DEF Save, ReadMine, ReadAny, TrySlug, Insert, Edit, Fail
    <2>2. CASE o # r
      <3>1. req'[o] = req[o]
        BY <1>7, <2>2 DEF Save, ReadMine, ReadAny, TrySlug, Insert, Edit, Fail, Set, Core, TypeOK
      <3> QED
        BY <1>0, <2>1, <3>1 DEF Knows, SlugFree, Saved
    <2>3. CASE o = r
      <3>1. ASSUME NEW u \in Ids, NEW name \in Names, ReadMine(o, u, name)
            PROVE  Knows(o)'
        <4>1. req'[o] = [step |-> IF profiles[u] = NoRow THEN "mine" ELSE "edit",
                         user |-> u, name |-> name, raced |-> FALSE]
          BY <3>1 DEF ReadMine, Set, Core, TypeOK
        <4>2. /\ req'[o].step = (IF profiles[u] = NoRow THEN "mine" ELSE "edit")
              /\ req'[o].user = u
          BY <4>1
        <4> QED
          BY <2>1, <3>1, <4>2 DEF Knows, ReadMine
      <3>2. CASE ReadAny(o)
        <4>1. /\ req'[o].step = "slug" /\ req'[o].user = req[o].user
              /\ req'[o].raced = req[o].raced
          BY <3>2 DEF ReadAny, Set, Core, TypeOK
        <4> QED
          BY <1>0, <2>1, <3>2, <4>1 DEF Knows, ReadAny
      <3>3. CASE TrySlug(o)
        <4>1. PICK q : req'[o] = q /\
                (\/ SlugFree(req[o].slug) /\ q = [req[o] EXCEPT !.step = "insert"]
                 \/ q = [req[o] EXCEPT !.slug = <<req[o].slug[1], req[o].slug[2] + 1>>])
          BY <3>3 DEF TrySlug, Set, Core, TypeOK
        <4>2. /\ q.user = req[o].user /\ q.raced = req[o].raced
              /\ \/ q.step = "slug"
                 \/ q.step = "insert" /\ q.slug = req[o].slug /\ SlugFree(req[o].slug)
          BY <1>0, <3>3, <4>1 DEF TrySlug, Request, Idle
        <4>3. SlugFree(req[o].slug) => \A u \in Saved' : profiles'[u].slug # req[o].slug
          BY <2>1 DEF SlugFree, Saved
        <4> QED
          BY <1>0, <2>1, <3>3, <4>1, <4>2, <4>3 DEF Knows, TrySlug, SlugFree
      <3>4. CASE Insert(o)
        <4>1. /\ req'[o].step = "commit" /\ req'[o].user = req[o].user
              /\ req'[o].slug = req[o].slug /\ req'[o].raced = req[o].raced
          BY <3>4 DEF Insert, Set, Core, TypeOK
        <4>2. SlugFree(req[o].slug) => \A u \in Saved' : profiles'[u].slug # req[o].slug
          BY <2>1 DEF SlugFree, Saved
        <4> QED
          BY <1>0, <2>1, <3>4, <4>1, <4>2 DEF Knows, Insert, SlugFree
      <3>5. CASE Edit(o) \/ Fail(o)
        <4>1. req'[o] = Idle
          BY <3>5 DEF Edit, Fail, Set, Core, TypeOK
        <4> QED
          BY <4>1 DEF Knows, Idle
      <3> QED
        BY <1>7, <2>3, <3>1, <3>2, <3>3, <3>4, <3>5 DEF Save
    <2> QED
      BY <2>2, <2>3
  <1> QED
    BY <1>1, <1>2, <1>3, <1>4, <1>5, <1>6, <1>7 DEF Next

\* A first save is refused by the database only if something was saved or
\* deleted since it began (unique_artist_slug, put_artist_profile).
THEOREM RefusalsAreRaces == Spec => []RefusedOnlyIfRaced
PROOF
  <1>1. Init => Informed
    BY DEF Init, Informed, Knows, Idle
  <1>2. Core /\ Informed => RefusedOnlyIfRaced
    BY DEF Informed, Knows, RefusedOnlyIfRaced, Accepted
  <1> QED
    BY <1>1, <1>2, InformedStep, CoreHolds, PTL DEF Spec

-----------------------------------------------------------------------------
(* How many rows are flagged primary.                                      *)

\* Flagged rows, but those of a seeded artist.
Flagged == Primaries \ FirstSeeded

LEMMA BoundTypes ==
    /\ IsFiniteSet(Flagged) /\ Cardinality(Flagged) \in Nat
    /\ IsFiniteSet(Claims) /\ Cardinality(Claims) \in Nat
    /\ Cardinality(Requests) \in Nat /\ Cardinality(Claims) <= Cardinality(Requests)
PROOF
  <1>1. Flagged \subseteq Ids /\ Claims \subseteq Requests
    BY DEF Flagged, Primaries, Saved, Claims
  <1> QED
    BY <1>1, IdsFinite, RequestsFinite, FS_Subset, FS_CardinalityType

\* A step that flags nobody and claims nothing new.
LEMMA NothingNew ==
    ASSUME PrimariesBounded, Flagged' \subseteq Flagged, Claims' \subseteq Claims
    PROVE  PrimariesBounded'
PROOF
  <1>1. /\ Cardinality(Flagged') <= Cardinality(Flagged) /\ Cardinality(Flagged') \in Nat
        /\ Cardinality(Claims') <= Cardinality(Claims) /\ Cardinality(Claims') \in Nat
    BY BoundTypes, FS_Subset, FS_CardinalityType
  <1> QED
    BY <1>1, BoundTypes DEF PrimariesBounded, Flagged

\* A request that was claiming flags its own row.
LEMMA ClaimIsUsed ==
    ASSUME PrimariesBounded, NEW r \in Claims, NEW u,
           Flagged' \subseteq Flagged \cup {u}, Claims' \subseteq Claims \ {r}
    PROVE  PrimariesBounded'
PROOF
  <1>1. /\ IsFiniteSet(Flagged \cup {u})
        /\ Cardinality(Flagged \cup {u}) <= Cardinality(Flagged) + 1
    <2>1. IsFiniteSet(Flagged) /\ Cardinality(Flagged) \in Nat
      BY BoundTypes
    <2>2. Cardinality(Flagged \cup {u}) = Cardinality(Flagged)
            \/ Cardinality(Flagged \cup {u}) = Cardinality(Flagged) + 1
      BY <2>1, FS_AddElement
    <2> QED
      BY <2>1, <2>2, FS_AddElement
  <1>2. /\ IsFiniteSet(Claims \ {r})
        /\ Cardinality(Claims \ {r}) = Cardinality(Claims) - 1
    BY BoundTypes, FS_RemoveElement
  <1>3. /\ Cardinality(Flagged') <= Cardinality(Flagged \cup {u})
        /\ Cardinality(Flagged') \in Nat /\ Cardinality(Flagged \cup {u}) \in Nat
    BY <1>1, FS_Subset, FS_CardinalityType
  <1>4. Cardinality(Claims') <= Cardinality(Claims \ {r}) /\ Cardinality(Claims') \in Nat
    BY <1>2, FS_Subset, FS_CardinalityType
  <1> QED
    BY <1>1, <1>2, <1>3, <1>4, BoundTypes DEF PrimariesBounded, Flagged

\* Nobody has a row: only the requests count.
LEMMA NobodyFlagged ==
    ASSUME Saved' = {} PROVE PrimariesBounded'
PROOF
  <1>1. Flagged' = {}
    BY DEF Flagged, Primaries
  <1>2. /\ Claims' \subseteq Requests
    BY DEF Claims
  <1>3. /\ Cardinality(Claims') <= Cardinality(Requests)
        /\ Cardinality(Claims') \in Nat
    BY <1>2, RequestsFinite, FS_Subset, FS_CardinalityType
  <1> QED
    BY <1>1, <1>3, BoundTypes, FS_EmptySet DEF PrimariesBounded, Flagged

LEMMA BoundStep == Core /\ PrimariesBounded /\ [Next]_vars => PrimariesBounded'
PROOF
  <1> SUFFICES ASSUME Core, PrimariesBounded, [Next]_vars PROVE PrimariesBounded'
    OBVIOUS
  <1>1. CASE UNCHANGED vars
    BY <1>1, NothingNew
    DEF vars, Flagged, Primaries, Saved, FirstSeeded, Claims
  <1>2. ASSUME NEW r \in Requests, ReadAny(r) PROVE PrimariesBounded'
    <2>1. Saved' = Saved
      BY <1>2 DEF ReadAny, Saved
    <2>2. CASE Saved = {}
      BY <2>1, <2>2, NobodyFlagged
    <2>3. CASE Saved # {}
      <3>1. Flagged' = Flagged
        BY <1>2, <2>1 DEF ReadAny, Flagged, Primaries, FirstSeeded
      <3>2. PICK q : req' = [req EXCEPT ![r] = q] /\ ~q.first
        <4>1. PICK p : p = [step |-> "slug", user |-> req[r].user,
                            slug |-> <<req[r].name, 1>>, first |-> Saved = {},
                            raced |-> req[r].raced]
          OBVIOUS
        <4>2. ~p.first
          BY <2>3, <4>1
        <4> QED
          BY <1>2, <4>1, <4>2 DEF ReadAny, Set
      <3>3. Claims' \subseteq Claims
        BY <3>2 DEF Claims, Core, TypeOK
      <3> QED
        BY <3>1, <3>3, NothingNew
    <2> QED
      BY <2>2, <2>3
  <1>3. ASSUME NEW r \in Requests, Commit(r) PROVE PrimariesBounded'
    <2>1. PICK u, slug, first :
            u = req[r].user /\ slug = req[r].slug /\ first = req[r].first
      OBVIOUS
    <2>2. /\ u \in Ids /\ slug \in Slugs /\ first \in BOOLEAN /\ req[r].step = "commit"
          /\ req[r].id \in 1 .. MaxRows
      BY <1>3, <2>1, RequestShape DEF Commit, Core, TypeOK
    <2>3. Adds(u, req[r].id, slug, first) /\ FirstSeeded' = FirstSeeded
      BY <1>3, <2>1 DEF Commit, Accepted, Adds, FirstSeeded
    <2>4. /\ profiles'[u] = [id |-> req[r].id, slug |-> slug, primary |-> first]
          /\ Saved' = Saved \cup {u}
          /\ \A v \in Saved : profiles'[v] = profiles[v]
      BY <2>2, <2>3, AfterAdds
    <2>5. profiles'[u].primary = first
      BY <2>4
    <2>6. Claims' \subseteq Claims \ {r}
      <3>1. req'[r] = Idle /\ \A q \in Requests \ {r} : req'[q] = Overtaken(r)[q]
        BY <1>3, OvertakenShape DEF Commit, Core
      <3>2. \A q \in Requests \ {r} :
              (req'[q].step \in {"slug", "insert", "commit"} /\ req'[q].first) =>
                req[q].step \in {"slug", "insert", "commit"} /\ req[q].first
        BY <3>1, OvertakenShape DEF Core
      <3> QED
        BY <3>1, <3>2 DEF Claims, Idle
    <2>7. CASE first
      <3>1. r \in Claims
        BY <2>1, <2>2, <2>7 DEF Claims
      <3>2. Flagged' \subseteq Flagged \cup {u}
        BY <2>3, <2>4 DEF Flagged, Primaries
      <3> QED
        BY <2>6, <3>1, <3>2, ClaimIsUsed
    <2>8. CASE ~first
      <3>1. Flagged' \subseteq Flagged
        BY <2>3, <2>4, <2>5, <2>8 DEF Flagged, Primaries
      <3> QED
        BY <2>6, <3>1, NothingNew
    <2> QED
      BY <2>2, <2>7, <2>8
  <1>4. ASSUME NEW r \in Requests, Save(r), ~ReadAny(r), ~Commit(r) PROVE PrimariesBounded'
    <2>1. Flagged' = Flagged
      BY <1>4 DEF Save, ReadMine, TrySlug, Insert, Edit, Fail, Flagged, Primaries, Saved, FirstSeeded
    <2>2. req' = [req EXCEPT ![r] = req'[r]]
      BY <1>4 DEF Save, ReadMine, TrySlug, Insert, Edit, Fail, Set, Core, TypeOK
    <2>3. (req'[r].step \in {"slug", "insert", "commit"} /\ req'[r].first) => r \in Claims
      <3>1. CASE TrySlug(r)
        <4>1. req[r] \in Request /\ req[r].step = "slug"
          BY <3>1 DEF TrySlug, Core, TypeOK
        <4>2. PICK slug : req'[r] \in {[req[r] EXCEPT !.step = "insert"],
                                       [req[r] EXCEPT !.slug = slug]}
          BY <3>1 DEF TrySlug, Set, Core, TypeOK
        <4>3. req'[r].first = req[r].first
          BY <4>1, <4>2 DEF Request, Idle
        <4> QED
          BY <4>1, <4>3 DEF Claims
      <3>2. CASE Insert(r)
        BY <3>2 DEF Insert, Set, Claims, Core, TypeOK
      <3>3. CASE ~TrySlug(r) /\ ~Insert(r)
        <4>1. PICK q : q = req'[r] /\ q.step \in {"idle", "mine", "edit"}
          BY <1>4, <3>3 DEF Save, ReadMine, Edit, Fail, Set, Core, TypeOK, Idle
        <4> QED
          BY <4>1
      <3> QED
        BY <3>1, <3>2, <3>3
    <2>4. Claims' \subseteq Claims
      BY <2>2, <2>3 DEF Claims, Core, TypeOK
    <2> QED
      BY <2>1, <2>4, NothingNew
  <1>5. ASSUME NEW u \in Ids, SignUp(u) PROVE PrimariesBounded'
    BY <1>5, NothingNew DEF SignUp, Flagged, Primaries, Saved, FirstSeeded, Claims
  <1>6. ASSUME NEW u \in Ids, DeleteUser(u) PROVE PrimariesBounded'
    <2>1. Drops(u)
      BY <1>6 DEF DeleteUser, Drops
    <2>2. /\ Saved' = Saved \ {u}
          /\ \A v \in Saved \ {u} : profiles'[v] = profiles[v]
      BY <2>1, AfterDrops
    <2>3. FirstSeeded \ {u} \subseteq FirstSeeded'
      BY <1>6 DEF DeleteUser, FirstSeeded, Core, TypeOK
    <2>4. Flagged' \subseteq Flagged
      BY <2>2, <2>3 DEF Flagged, Primaries
    <2>5. ASSUME NEW q \in Requests, req'[q].step \in {"slug", "insert", "commit"}, req'[q].first
          PROVE  q \in Claims
      <3>1. CASE req[q] = Idle
        BY <1>6, <2>5, <3>1 DEF DeleteUser, Idle
      <3>2. CASE req[q] # Idle
        <4>1. req[q] \in Request /\ req'[q] = [req[q] EXCEPT !.raced = TRUE]
          BY <1>6, <3>2 DEF DeleteUser, Core, TypeOK
        <4> QED
          BY <2>5, <3>2, <4>1, RacedShape DEF Claims
      <3> QED
        BY <3>1, <3>2
    <2>6. Claims' \subseteq Claims
      BY <2>5 DEF Claims
    <2> QED
      BY <2>4, <2>6, NothingNew
  <1>7. CASE Stop
    <2>1. Claims' = {} /\ Flagged' = Flagged
      BY <1>7 DEF Stop, Claims, Idle, Flagged, Primaries, Saved, FirstSeeded
    <2> QED
      BY <2>1, NothingNew
  <1>8. CASE Start
    BY <1>8, NothingNew DEF Start, Flagged, Primaries, Saved, FirstSeeded, Claims
  <1>9. ASSUME NEW s \in Seeds, SeedUser(s) PROVE PrimariesBounded'
    <2>1. Primaries' = Primaries /\ Claims' = Claims
      BY <1>9 DEF SeedUser, Primaries, Saved, Claims
    <2>2. FirstSeeded \subseteq FirstSeeded'
      BY <1>9, NoRowApart DEF SeedUser, FirstSeeded, Core, TypeOK
    <2> QED
      BY <2>1, <2>2, NothingNew DEF Flagged
  <1>10. ASSUME NEW s \in Seeds, SeedProfile(s) PROVE PrimariesBounded'
    <2>1. PICK u : u = seeded[s]
      OBVIOUS
    <2>2. /\ u \in Ids /\ u \in accounts /\ u \in FirstSeeded
          /\ <<s, 1>> \in Slugs /\ (s = FirstSeed) \in BOOLEAN
      BY <1>10, <2>1, SeedsAreNames, SuffixIsPositive
      DEF SeedProfile, Unprofiled, Core, TypeOK, FirstSeeded, Slugs
    <2>3. Adds(u, next, <<s, 1>>, s = FirstSeed) /\ next \in 1 .. MaxRows
      BY <1>10, <2>1, <2>2, NextDrawn DEF SeedProfile, Unprofiled, Adds, Core
    <2>4. Saved' = Saved \cup {u} /\ \A v \in Saved : profiles'[v] = profiles[v]
      BY <2>2, <2>3, AfterAdds
    <2>5. FirstSeeded' = FirstSeeded /\ Claims' = Claims
      BY <1>10 DEF SeedProfile, FirstSeeded, Claims
    <2>6. Flagged' \subseteq Flagged
      BY <2>2, <2>4, <2>5 DEF Flagged, Primaries
    <2> QED
      BY <2>5, <2>6, NothingNew
  <1> QED
    BY <1>1, <1>2, <1>3, <1>4, <1>5, <1>6, <1>7, <1>8, <1>9, <1>10 DEF Next, Boot

\* The rows flagged primary are never more than the requests that can race, and
\* the seeded artists: one who found the table empty flags his row, whatever
\* came since (put_artist_profile).
THEOREM PrimariesAreBounded == Spec => []PrimariesBounded
PROOF
  <1>1. ASSUME Init PROVE PrimariesBounded
    <2>1. Flagged = {}
      BY <1>1 DEF Init, Flagged, Primaries, Saved
    <2>2. Claims = {}
      BY <1>1 DEF Init, Claims, Idle
    <2> QED
      BY <2>1, <2>2, BoundTypes, FS_EmptySet DEF PrimariesBounded, Flagged
  <1> QED
    BY <1>1, BoundStep, CoreHolds, PTL DEF Spec
=============================================================================
