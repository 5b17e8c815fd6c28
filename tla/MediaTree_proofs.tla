-------------------------- MODULE MediaTree_proofs --------------------------
(***************************************************************************)
(* Proofs about MediaTree: that rows keep their pictures through profiles, *)
(* relayouts, restores, imports, sweeps, resets and boots, that a finished *)
(* relayout leaves nothing to move and costs no picture, that a restore    *)
(* makes one row for a file, a second boot none, and that a delete takes   *)
(* its files; for any number of artists, albums, stems and pictures.       *)
(***************************************************************************)
EXTENDS MediaTree, FiniteSetTheorems, SequenceTheorems, TLAPS

-----------------------------------------------------------------------------
(* Numbers and sequences.                                                  *)

\* A set of numbers that is not empty has a least one.
LEMMA Least ==
    ASSUME NEW T, T \subseteq Nat, T # {}
    PROVE  Min(T) \in T /\ \A y \in T : Min(T) <= y
PROOF
  <1> DEFINE Below(x) == {y \in T : y < x}
             family == {Below(x) : x \in T}
  <1>1. ASSUME NEW x \in T PROVE Below(x) \in FiniteSubsetsOf(Nat)
    <2>1. IsFiniteSet(0 .. x)
      BY FS_Interval
    <2>2. Below(x) \in SUBSET (0 .. x)
      <3>1. \A y \in T : y < x => y \in 0 .. x
        OBVIOUS
      <3> QED
        BY <3>1
    <2> HIDE DEF Below
    <2>3. IsFiniteSet(Below(x))
      BY <2>1, <2>2, FS_Subset
    <2> QED
      BY <2>2, <2>3 DEF FiniteSubsetsOf
  <1>2. family \subseteq FiniteSubsetsOf(Nat) /\ family # {}
    BY <1>1
  <1>3. IsWellFoundedOn(StrictSubsetOrdering(Nat), FiniteSubsetsOf(Nat))
    BY FS_StrictSubsetOrderingWellFounded
  <1> HIDE DEF family
  <1>4. PICK D \in family : \A C \in family : <<C, D>> \notin StrictSubsetOrdering(Nat)
    BY <1>2, <1>3, WFMin
  <1>5. PICK x \in T : D = Below(x)
    BY DEF family
  <1>6. ASSUME NEW y \in T PROVE ~(y < x)
    <2> SUFFICES ASSUME y < x PROVE FALSE
      OBVIOUS
    <2>1. y \in Below(x) /\ y \notin Below(y)
      OBVIOUS
    <2>2. Below(y) \subseteq Below(x)
      <3>1. x \in Nat /\ y \in Nat
        OBVIOUS
      <3>2. \A z \in T : z \in Nat
        OBVIOUS
      <3>3. \A z \in T : z < y => z < x
        BY <3>1, <3>2
      <3> QED
        BY <3>3
    <2>3. <<Below(y), Below(x)>> \in StrictSubsetOrdering(Nat)
      BY <2>1, <2>2 DEF StrictSubsetOrdering
    <2>4. Below(y) \in family
      BY DEF family
    <2> QED
      BY <1>4, <1>5, <2>3, <2>4
  <1>7. \A y \in T : x <= y
    BY <1>6
  <1> QED
    BY <1>7 DEF Min

\* A finite set as a sequence has each of its elements once.
LEMMA AsSequence ==
    ASSUME NEW S, IsFiniteSet(S)
    PROVE  /\ SetToSeq(S) \in Seq(S)
           /\ Len(SetToSeq(S)) = Cardinality(S)
           /\ \A i, j \in 1 .. Cardinality(S) : SetToSeq(S)[i] = SetToSeq(S)[j] => i = j
           /\ \A x \in S : \E i \in 1 .. Cardinality(S) : SetToSeq(S)[i] = x
PROOF
  <1>1. PICK n \in Nat : n = Cardinality(S) /\ ExistsBijection(1 .. n, S)
    BY FS_CardinalityType
  <1>2. \E f \in [1 .. n -> S] : IsInjective(f)
    BY <1>1 DEF ExistsBijection, Bijection, Injection, IsInjective
  <1>3. PICK f : f = SetToSeq(S) /\ f \in [1 .. n -> S] /\ IsInjective(f)
    BY <1>1, <1>2 DEF SetToSeq
  <1>4. f \in Injection(1 .. n, S)
    BY <1>3 DEF Injection, IsInjective
  <1>5. Cardinality(1 .. n) = n
    BY FS_Interval
  <1>6. f \in Surjection(1 .. n, S)
    BY <1>1, <1>4, <1>5, FS_Injection
  <1>7. f \in Seq(S) /\ Len(f) = n
    BY <1>1, <1>3
  <1> QED
    BY <1>1, <1>3, <1>6, <1>7 DEF Surjection, IsInjective

Table == Seq(Row \cup {Nothing})

\* `t' is the table `s' with the rows of N added behind it, each once.
Extends(s, t, N) ==
    /\ t \in Table /\ DOMAIN s \subseteq DOMAIN t
    /\ \A i \in DOMAIN s : t[i] = s[i]
    /\ \A i \in DOMAIN t \ DOMAIN s : t[i] \in N
    /\ \A i, j \in DOMAIN t \ DOMAIN s : t[i] = t[j] => i = j
    /\ \A r \in N : \E i \in DOMAIN t \ DOMAIN s : t[i] = r

\* A table is a function on 1 to its length.
LEMMA TableTypes ==
    ASSUME NEW s \in Table
    PROVE  /\ Len(s) \in Nat /\ DOMAIN s = 1 .. Len(s)
           /\ \A i \in DOMAIN s : s[i] \in Row \cup {Nothing}
PROOF
  BY LenProperties DEF Table

\* A function on a table's ids, of rows and Nothing, is a table as long.
LEMMA TableUpdate ==
    ASSUME NEW s \in Table, NEW t \in [DOMAIN s -> Row \cup {Nothing}]
    PROVE  t \in Table /\ Len(t) = Len(s) /\ DOMAIN t = DOMAIN s
PROOF
  <1>1. PICK n \in Nat : n = Len(s) /\ DOMAIN s = 1 .. n
    BY TableTypes
  <1>2. t \in [1 .. n -> Row \cup {Nothing}]
    BY <1>1
  <1>3. t \in Table
    BY <1>2, SeqDef DEF Table
  <1>4. Len(t) \in Nat /\ DOMAIN t = 1 .. Len(t)
    BY <1>3, TableTypes
  <1>5. 1 .. n = 1 .. Len(t)
    BY <1>2, <1>4
  <1>6. n = Len(t)
    <2>1. \A k \in Nat : Cardinality(1 .. k) = k
      BY FS_Interval
    <2> QED
      BY <1>4, <1>5, <2>1
  <1> QED
    BY <1>1, <1>3, <1>5, <1>6

\* Nothing added, one row added, a set of rows added.
LEMMA ExtendsItself ==
    ASSUME NEW s \in Table
    PROVE  Extends(s, s, {})
PROOF
  BY DEF Extends

LEMMA AppendExtends ==
    ASSUME NEW s \in Table, NEW r \in Row
    PROVE  Extends(s, Append(s, r), {r}) /\ Len(Append(s, r)) = Len(s) + 1
PROOF
  <1>1. PICK n \in Nat : n = Len(s) /\ DOMAIN s = 1 .. n
    BY TableTypes
  <1>2. PICK t : t = Append(s, r)
    OBVIOUS
  <1>3. /\ t \in Table /\ Len(t) = n + 1
        /\ \A i \in 1 .. n : t[i] = s[i]
        /\ t[n + 1] = r
    BY <1>1, <1>2, AppendProperties DEF Table
  <1>4. DOMAIN t = 1 .. (n + 1)
    BY <1>3, TableTypes
  <1>5. DOMAIN t \ DOMAIN s = {n + 1}
    BY <1>1, <1>4
  <1> QED
    BY <1>1, <1>2, <1>3, <1>4, <1>5 DEF Extends

LEMMA ConcatExtends ==
    ASSUME NEW s \in Table, NEW N \in SUBSET Row, IsFiniteSet(N)
    PROVE  Extends(s, s \o SetToSeq(N), N)
PROOF
  <1>1. PICK n \in Nat : n = Len(s) /\ DOMAIN s = 1 .. n
    BY TableTypes
  <1>2. PICK q : q = SetToSeq(N)
    OBVIOUS
  <1>3. PICK m \in Nat : m = Cardinality(N)
    BY FS_CardinalityType
  <1>4. /\ q \in Seq(N) /\ Len(q) = m
        /\ \A i, j \in 1 .. m : q[i] = q[j] => i = j
        /\ \A x \in N : \E i \in 1 .. m : q[i] = x
    BY <1>2, <1>3, AsSequence
  <1>5. q \in Table /\ \A i \in 1 .. m : q[i] \in N
    <2>1. N \subseteq Row \cup {Nothing}
      OBVIOUS
    <2> QED
      BY <1>4, <2>1, SeqMonotonic, ElementOfSeq DEF Table
  <1>6. PICK t : t = s \o q
    OBVIOUS
  <1>7. /\ t \in Table /\ Len(t) = n + m
        /\ \A i \in 1 .. (n + m) : t[i] = IF i <= n THEN s[i] ELSE q[i - n]
    <2>1. PICK T : T = Row \cup {Nothing}
      OBVIOUS
    <2>2. s \in Seq(T) /\ q \in Seq(T)
      BY <1>5, <2>1 DEF Table
    <2>3. /\ t \in Seq(T) /\ Len(t) = Len(s) + Len(q)
          /\ \A i \in 1 .. (Len(s) + Len(q)) :
                t[i] = IF i <= Len(s) THEN s[i] ELSE q[i - Len(s)]
      BY <1>6, <2>2, ConcatProperties
    <2> QED
      BY <1>1, <1>4, <2>1, <2>3 DEF Table
  <1>8. DOMAIN t = 1 .. (n + m)
    BY <1>7, TableTypes
  <1>9. \A i \in 1 .. n : i \in 1 .. (n + m) /\ i <= n
    OBVIOUS
  <1>10. \A i \in DOMAIN t \ DOMAIN s : i - n \in 1 .. m /\ t[i] = q[i - n]
    BY <1>1, <1>7, <1>8
  <1>11. \A i \in 1 .. m : /\ n + i \in DOMAIN t \ DOMAIN s
                           /\ t[n + i] = q[i]
    BY <1>1, <1>7, <1>8
  <1>12. \A i, j \in DOMAIN t \ DOMAIN s : t[i] = t[j] => i = j
    <2>1. ASSUME NEW i \in DOMAIN t \ DOMAIN s, NEW j \in DOMAIN t \ DOMAIN s,
                 t[i] = t[j]
          PROVE  i = j
      <3>1. i - n = j - n
        BY <1>4, <1>10, <2>1
      <3>2. i \in Int /\ j \in Int
        BY <1>8
      <3> QED
        BY <3>1, <3>2
    <2> QED
      BY <2>1
  <1>13. DOMAIN s \subseteq DOMAIN t /\ \A i \in DOMAIN s : t[i] = s[i]
    BY <1>1, <1>7, <1>8, <1>9
  <1>14. \A r \in N : \E i \in DOMAIN t \ DOMAIN s : t[i] = r
    BY <1>4, <1>11
  <1>15. \A i \in DOMAIN t \ DOMAIN s : t[i] \in N
    BY <1>5, <1>10
  <1> QED
    BY <1>2, <1>6, <1>7, <1>12, <1>13, <1>14, <1>15 DEF Extends

\* One addition after another.
LEMMA ExtendsOnward ==
    ASSUME NEW s \in Table, NEW t, NEW u, NEW M, NEW N,
           Extends(s, t, M), Extends(t, u, N), M \cap N = {}
    PROVE  Extends(s, u, M \cup N)
PROOF
  BY DEF Extends

-----------------------------------------------------------------------------
(* Types.                                                                  *)

Working == cmd # Idle

\* A path is its three parts.
LEMMA PathParts ==
    ASSUME NEW x \in Paths
    PROVE  /\ KeyOf(x) \in Keys /\ SlugOf(x) \in Slugs /\ StemOf(x) \in Stems
           /\ KeyOf(x)[1] \in Artists
           /\ x = <<KeyOf(x), SlugOf(x), StemOf(x)>>
PROOF
  BY DEF Paths, Keys, KeyOf, SlugOf, StemOf

LEMMA PathMade ==
    ASSUME NEW k \in Keys, NEW s \in Slugs, NEW t \in Stems
    PROVE  /\ <<k, s, t>> \in Paths
           /\ KeyOf(<<k, s, t>>) = k
           /\ SlugOf(<<k, s, t>>) = s /\ StemOf(<<k, s, t>>) = t
PROOF
  BY DEF Paths, KeyOf, SlugOf, StemOf

LEMMA KeyTypes ==
    ASSUME NEW a \in Artists
    PROVE  Key(a) \in Keys /\ Key(a)[1] = a
PROOF
  <1>1. PICK known \in BOOLEAN : known <=> a \in profiled
    OBVIOUS
  <1>2. Key(a) = <<a, known>>
    BY <1>1, Zenon DEF Key
  <1> QED
    BY <1>2 DEF Keys

\* The rows and their parts.
LEMMA RowTypes ==
    ASSUME TypeOK
    PROVE  /\ rows \in Table /\ Live \subseteq DOMAIN rows /\ DOMAIN rows \subseteq Ids
           /\ \A i \in Live : /\ rows[i] \in Row
                              /\ rows[i].album \in Slugs /\ rows[i].path \in Paths
                              /\ rows[i].pic \in Bytes
PROOF
  <1>1. rows \in Table /\ Len(rows) <= MaxRows
    BY DEF TypeOK, Table
  <1>2. PICK n \in Nat : n = Len(rows) /\ DOMAIN rows = 1 .. n
    BY <1>1, TableTypes
  <1>3. DOMAIN rows \subseteq Ids
    BY <1>1, <1>2, RowsBound DEF Ids
  <1>4. ASSUME NEW i \in Live
        PROVE  /\ i \in DOMAIN rows
               /\ rows[i] \in Row
               /\ rows[i].album \in Slugs /\ rows[i].path \in Paths
               /\ rows[i].pic \in Bytes
    <2>1. i \in DOMAIN rows /\ rows[i] # Nothing
      BY DEF Live
    <2>2. rows[i] \in Row
      BY <1>1, <2>1, TableTypes
    <2> QED
      BY <2>1, <2>2 DEF Row
  <1> QED
    BY <1>1, <1>3, <1>4

\* The relayout and the delete under way.
LEMMA WorkTypes ==
    ASSUME cmd \in Relayout, Working
    PROVE  /\ cmd.step = "move" /\ cmd.seen \in Table
           /\ cmd.owner \in [Slugs -> Artists \cup {Nothing}]
           /\ cmd.todo \subseteq Ids /\ cmd.staged \subseteq Ids \X Paths
           /\ cmd.calm \in BOOLEAN
           /\ \A i \in DOMAIN cmd.seen :
                cmd.seen[i] # Nothing =>
                  /\ cmd.seen[i] \in Row /\ cmd.seen[i].album \in Slugs
                  /\ cmd.seen[i].path \in Paths
PROOF
  <1>1. /\ cmd.step = "move" /\ cmd.seen \in Table
        /\ cmd.owner \in [Slugs -> Artists \cup {Nothing}]
        /\ cmd.todo \subseteq Ids /\ cmd.staged \subseteq Ids \X Paths
        /\ cmd.calm \in BOOLEAN
    BY DEF Working, Relayout, Table
  <1>2. \A i \in DOMAIN cmd.seen : cmd.seen[i] \in Row \cup {Nothing}
    BY <1>1, TableTypes
  <1>3. \A r \in Row : r.album \in Slugs /\ r.path \in Paths
    BY DEF Row
  <1> QED
    BY <1>1, <1>2, <1>3

LEMMA WorkMade ==
    ASSUME NEW seen \in Table, NEW owner \in [Slugs -> Artists \cup {Nothing}],
           NEW todo \in SUBSET Ids, NEW staged \in SUBSET (Ids \X Paths),
           NEW calm \in BOOLEAN
    PROVE  [step |-> "move", seen |-> seen, owner |-> owner, todo |-> todo,
            staged |-> staged, calm |-> calm] \in Relayout
PROOF
  BY DEF Relayout, Table

LEMMA DelTypes ==
    ASSUME del \in Deletion, del # Idle
    PROVE  /\ del.step \in {"drop", "unlink"} /\ del.album \in Slugs \cup {Nothing}
           /\ del.ids \subseteq Ids /\ del.paths \subseteq Paths
           /\ del.pics \subseteq Bytes /\ del.crossed \in BOOLEAN
           /\ del = [step |-> del.step, album |-> del.album, ids |-> del.ids,
                     paths |-> del.paths, pics |-> del.pics,
                     crossed |-> del.crossed]
PROOF
  BY DEF Deletion

LEMMA DelMade ==
    ASSUME NEW step \in {"drop", "unlink"}, NEW album \in Slugs \cup {Nothing},
           NEW ids \in SUBSET Ids, NEW paths \in SUBSET Paths,
           NEW pics \in SUBSET Bytes, NEW crossed \in BOOLEAN
    PROVE  [step |-> step, album |-> album, ids |-> ids, paths |-> paths,
            pics |-> pics, crossed |-> crossed] \in Deletion
PROOF
  BY DEF Deletion

LEMMA StepsDiffer ==
    ASSUME TRUE
    PROVE  /\ Idle \in Relayout /\ Idle \in Deletion
           /\ Idle.step = "idle"
           /\ \A c : c.step \in {"move", "drop", "unlink"} => c # Idle
PROOF
  BY DEF Idle, Relayout, Deletion

-----------------------------------------------------------------------------
(* How a step changes the rows.                                            *)

\* The rows of N are added behind the others, each once.
Grown(N) ==
    /\ DOMAIN rows \subseteq DOMAIN rows'
    /\ Live \subseteq Live' /\ \A i \in Live : rows'[i] = rows[i]
    /\ \A i \in Live' \ Live : rows'[i] \in N /\ i \notin DOMAIN rows
    /\ \A i, j \in Live' \ Live : rows'[i] = rows'[j] => i = j
    /\ \A r \in N : \E i \in Live' \ Live : rows'[i] = r

\* The rows of G are deleted.
Thinned(G) ==
    /\ DOMAIN rows' = DOMAIN rows
    /\ Live' = Live \ G /\ \A i \in Live' : rows'[i] = rows[i]

LEMMA ExtendsGrows ==
    ASSUME TypeOK, NEW N \in SUBSET Row, Extends(rows, rows', N)
    PROVE  Grown(N) /\ Live' \ Live = DOMAIN rows' \ DOMAIN rows
PROOF
  <1>1. /\ DOMAIN rows \subseteq DOMAIN rows'
        /\ \A i \in DOMAIN rows : rows'[i] = rows[i]
        /\ \A i \in DOMAIN rows' \ DOMAIN rows : rows'[i] \in N
    BY DEF Extends
  <1>2. Live' \ Live = DOMAIN rows' \ DOMAIN rows
    BY <1>1, NoRowIsNothing DEF Live
  <1>3. Live \subseteq Live' /\ \A i \in Live : rows'[i] = rows[i]
    BY <1>1 DEF Live
  <1> QED
    BY <1>2, <1>3 DEF Extends, Grown

LEMMA DeletingThins ==
    ASSUME TypeOK, NEW G,
           rows' = [i \in DOMAIN rows |-> IF i \in G THEN Nothing ELSE rows[i]]
    PROVE  rows' \in Table /\ Len(rows') = Len(rows) /\ Thinned(G)
PROOF
  <1>1. rows \in Table
    BY RowTypes
  <1>2. rows' \in [DOMAIN rows -> Row \cup {Nothing}]
    BY <1>1, TableTypes
  <1>3. rows' \in Table /\ Len(rows') = Len(rows) /\ DOMAIN rows' = DOMAIN rows
    BY <1>1, <1>2, TableUpdate
  <1>4. Live' = Live \ G /\ \A i \in Live' : rows'[i] = rows[i]
    BY DEF Live
  <1> QED
    BY <1>3, <1>4 DEF Thinned

-----------------------------------------------------------------------------
(* Types, with what they need: finitely many files, rows filed under the   *)
(* album they belong to, and a relayout that knows the rows it found.      *)

Files == {x \in Paths : disk[x] # Nothing}

FilesAreFinite == IsFiniteSet(Files)

AtHome ==
    \A i \in Live : /\ rows[i].album = SlugOf(rows[i].path)
                    /\ albums[rows[i].album] # Nothing

\* The rows found had an album each.
FoundAtHome ==
    \A i \in DOMAIN cmd.seen : cmd.seen[i] # Nothing =>
        /\ cmd.owner[cmd.seen[i].album] # Nothing
        /\ cmd.seen[i].album = SlugOf(cmd.seen[i].path)

\* Of them those still there are as they were, and so are their albums.
FoundIsCurrent ==
    /\ DOMAIN cmd.seen \subseteq DOMAIN rows
    /\ \A i \in Live : i \in DOMAIN cmd.seen =>
          rows[i] = cmd.seen[i] /\ albums[rows[i].album] = cmd.owner[rows[i].album]

\* A row updated has been visited, stays in its album, and keeps its stem.
StagedFits ==
    /\ \A i \in cmd.todo : i \in DOMAIN cmd.seen /\ cmd.seen[i] # Nothing
    /\ \A m \in cmd.staged : /\ m[1] \in DOMAIN cmd.seen \ cmd.todo
                             /\ SlugOf(m[2]) = rows[m[1]].album
                             /\ StemOf(m[2]) = StemOf(rows[m[1]].path)
    /\ \A m, n \in cmd.staged : m[1] = n[1] => m = n

Underway == Working => FoundAtHome /\ FoundIsCurrent /\ StagedFits

Filed == FilesAreFinite /\ AtHome /\ Underway

\* Nothing is stored at the start.
LEMMA FiledInit == Init => TypeOK /\ Filed
PROOF
  <1> SUFFICES ASSUME Init PROVE TypeOK /\ Filed
    OBVIOUS
  <1>1. rows = << >> /\ cmd = Idle /\ del = Idle
    BY DEF Init
  <1>2. rows \in Seq(Row \cup {Nothing}) /\ Len(rows) <= MaxRows
    BY <1>1, EmptySeq, RowsBound
  <1>3. Live = {}
    BY <1>1 DEF Live
  <1>4. Locked = {}
    BY <1>1 DEF Locked
  <1>5. TypeOK
    BY <1>1, <1>2, <1>3, <1>4, StepsDiffer DEF Init, TypeOK
  <1>6. Files = {}
    BY DEF Init, Files
  <1> QED
    BY <1>1, <1>3, <1>5, <1>6, FS_EmptySet
       DEF Filed, FilesAreFinite, AtHome, Underway, Working

\* The same work goes on: its snapshot and what it has staged are unchanged.
SameWork ==
    /\ cmd' \in Relayout /\ (Working' <=> Working)
    /\ Working => /\ cmd'.seen = cmd.seen /\ cmd'.owner = cmd.owner
                  /\ cmd'.todo = cmd.todo /\ cmd'.staged = cmd.staged

LEMMA WorkUnchanged ==
    ASSUME TypeOK, cmd' = cmd
    PROVE  SameWork
PROOF
  BY DEF TypeOK, SameWork, Working

LEMMA LockedStays ==
    ASSUME SameWork
    PROVE  Locked' = Locked
PROOF
  BY DEF SameWork, Locked, Working

\* Rows added, in albums that have an owner, are filed, and so are the rest.
LEMMA GrowthFiled ==
    ASSUME TypeOK, Filed, SameWork, NEW N \in SUBSET Row, Extends(rows, rows', N),
           \A s \in Slugs : albums[s] # Nothing => albums'[s] = albums[s],
           \A r \in N : r.album = SlugOf(r.path) /\ albums'[r.album] # Nothing
    PROVE  AtHome' /\ Underway' /\ Locked' \subseteq Live' /\ Grown(N)
PROOF
  <1>1. Grown(N)
    BY ExtendsGrows
  <1>2. Locked' = Locked /\ Locked \subseteq Live
    BY LockedStays DEF TypeOK
  <1>3. \A i \in Live : rows[i].album \in Slugs
    BY RowTypes
  <1>4. ASSUME NEW i \in Live'
        PROVE  rows'[i].album = SlugOf(rows'[i].path) /\ albums'[rows'[i].album] # Nothing
    <2>1. CASE i \in Live
      BY <1>1, <1>3, <2>1 DEF Grown, Filed, AtHome
    <2>2. CASE i \notin Live
      BY <1>1, <2>2 DEF Grown
    <2> QED
      BY <2>1, <2>2
  <1>5. AtHome'
    BY <1>4 DEF AtHome
  <1>6. ASSUME Working PROVE (FoundAtHome /\ FoundIsCurrent /\ StagedFits)'
    <2>1. FoundAtHome /\ FoundIsCurrent /\ StagedFits
      BY <1>6 DEF Filed, Underway
    <2>2. /\ cmd'.seen = cmd.seen /\ cmd'.owner = cmd.owner
          /\ cmd'.todo = cmd.todo /\ cmd'.staged = cmd.staged
      BY <1>6 DEF SameWork
    <2>3. FoundAtHome'
      BY <2>1, <2>2 DEF FoundAtHome
    <2>4. FoundIsCurrent'
      <3>1. DOMAIN cmd'.seen \subseteq DOMAIN rows'
        BY <1>1, <2>1, <2>2 DEF FoundIsCurrent, Grown
      <3>2. ASSUME NEW i \in Live', i \in DOMAIN cmd'.seen
            PROVE  /\ rows'[i] = cmd'.seen[i]
                   /\ albums'[rows'[i].album] = cmd'.owner[rows'[i].album]
        <4>1. i \in Live
          BY <1>1, <2>1, <2>2, <3>2 DEF FoundIsCurrent, Grown
        <4>2. /\ rows[i] = cmd.seen[i]
              /\ albums[rows[i].album] = cmd.owner[rows[i].album]
              /\ albums[rows[i].album] # Nothing
          BY <2>1, <2>2, <3>2, <4>1 DEF FoundIsCurrent, Filed, AtHome
        <4>3. rows'[i] = rows[i]
          BY <1>1, <4>1 DEF Grown
        <4> QED
          BY <1>3, <2>2, <4>1, <4>2, <4>3
      <3> QED
        BY <3>1, <3>2 DEF FoundIsCurrent
    <2>5. StagedFits'
      <3>1. \A m \in cmd.staged : m[1] \in Live
        BY <1>2, <1>6 DEF Locked, Working
      <3>2. \A m \in cmd.staged : rows'[m[1]] = rows[m[1]]
        BY <1>1, <3>1 DEF Grown
      <3> QED
        BY <2>1, <2>2, <3>2 DEF StagedFits
    <2> QED
      BY <2>3, <2>4, <2>5
  <1>7. Underway'
    BY <1>6 DEF Underway, SameWork
  <1> QED
    BY <1>1, <1>2, <1>5, <1>7 DEF Grown

\* So are the rows left by a delete that takes none of a relayout's.
LEMMA ThinningFiled ==
    ASSUME TypeOK, Filed, SameWork, NEW G, Thinned(G), G \cap Locked = {},
           \A i \in Live \ G : albums'[rows[i].album] = albums[rows[i].album]
    PROVE  AtHome' /\ Underway' /\ Locked' \subseteq Live'
PROOF
  <1>1. Locked' = Locked /\ Locked \subseteq Live
    BY LockedStays DEF TypeOK
  <1>2. Locked' \subseteq Live'
    BY <1>1 DEF Thinned
  <1>3. AtHome'
    BY DEF Thinned, Filed, AtHome
  <1>4. ASSUME Working PROVE (FoundAtHome /\ FoundIsCurrent /\ StagedFits)'
    <2>1. FoundAtHome /\ FoundIsCurrent /\ StagedFits
      BY <1>4 DEF Filed, Underway
    <2>2. /\ cmd'.seen = cmd.seen /\ cmd'.owner = cmd.owner
          /\ cmd'.todo = cmd.todo /\ cmd'.staged = cmd.staged
      BY <1>4 DEF SameWork
    <2>3. FoundAtHome'
      BY <2>1, <2>2 DEF FoundAtHome
    <2>4. FoundIsCurrent'
      <3>1. DOMAIN cmd'.seen \subseteq DOMAIN rows'
        BY <2>1, <2>2 DEF FoundIsCurrent, Thinned
      <3>2. ASSUME NEW i \in Live', i \in DOMAIN cmd'.seen
            PROVE  /\ rows'[i] = cmd'.seen[i]
                   /\ albums'[rows'[i].album] = cmd'.owner[rows'[i].album]
        <4>1. i \in Live \ G /\ rows'[i] = rows[i]
          BY <3>2 DEF Thinned
        <4> QED
          BY <2>1, <2>2, <3>2, <4>1 DEF FoundIsCurrent
      <3> QED
        BY <3>1, <3>2 DEF FoundIsCurrent
    <2>5. StagedFits'
      <3>1. \A m \in cmd.staged : m[1] \in Live'
        BY <1>1, <1>2, <1>4 DEF Locked, Working
      <3>2. \A m \in cmd.staged : rows'[m[1]] = rows[m[1]]
        BY <3>1 DEF Thinned
      <3> QED
        BY <2>1, <2>2, <3>2 DEF StagedFits
    <2> QED
      BY <2>3, <2>4, <2>5
  <1>5. Underway'
    BY <1>4 DEF Underway, SameWork
  <1> QED
    BY <1>2, <1>3, <1>5

\* A step that touches no row and takes no album away.
LEMMA RowsUnchanged ==
    ASSUME TypeOK, Filed, SameWork, rows' = rows,
           \A s \in Slugs : albums[s] # Nothing => albums'[s] = albums[s]
    PROVE  AtHome' /\ Underway' /\ Locked' \subseteq Live' /\ Live' = Live
PROOF
  <1>1. Extends(rows, rows', {})
    BY RowTypes, ExtendsItself
  <1>2. Live' = Live
    BY DEF Live
  <1> QED
    BY <1>1, <1>2, GrowthFiled

\* A step that stores at most one file more leaves finitely many.
LEMMA OneFileMore ==
    ASSUME FilesAreFinite, NEW y, Files' \subseteq Files \cup {y}
    PROVE  FilesAreFinite'
PROOF
  <1>1. IsFiniteSet(Files \cup {y})
    BY FS_AddElement DEF FilesAreFinite
  <1>2. IsFiniteSet(Files')
    BY <1>1, FS_Subset
  <1> QED
    BY <1>2 DEF FilesAreFinite

LEMMA SignUpTypes ==
    ASSUME TypeOK, Filed, NEW a \in Artists, SignUp(a)
    PROVE  TypeOK' /\ Filed'
PROOF
  <1>1. SameWork
    BY WorkUnchanged DEF SignUp
  <1>2. AtHome' /\ Underway' /\ Locked' \subseteq Live'
    BY <1>1, RowsUnchanged DEF SignUp
  <1>3. albums' \in [Slugs -> users' \cup {Nothing}]
    BY DEF SignUp, TypeOK
  <1> QED
    BY <1>2, <1>3 DEF SignUp, TypeOK, Filed, FilesAreFinite, Files

LEMMA SaveProfileWork ==
    ASSUME TypeOK, NEW a \in Artists, SaveProfile(a)
    PROVE  SameWork
PROOF
  <1>1. CASE cmd = Idle
    BY <1>1, StepsDiffer DEF SaveProfile, SameWork, Working
  <1>2. CASE Working
    <2>1. cmd' = [cmd EXCEPT !.calm = FALSE]
      BY <1>2 DEF SaveProfile, Working
    <2>2. cmd \in [step : {"move"}, seen : Seq(Row \cup {Nothing}),
                   owner : [Slugs -> Artists \cup {Nothing}], todo : SUBSET Ids,
                   staged : SUBSET (Ids \X Paths), calm : BOOLEAN]
      BY <1>2 DEF TypeOK, Relayout, Working
    <2>3. cmd' \in Relayout /\ cmd'.step = "move"
      BY <2>1, <2>2 DEF Relayout
    <2> QED
      BY <1>2, <2>1, <2>2, <2>3, StepsDiffer DEF SameWork, Working
  <1> QED
    BY <1>1, <1>2 DEF Working

LEMMA SaveProfileTypes ==
    ASSUME TypeOK, Filed, NEW a \in Artists, SaveProfile(a)
    PROVE  TypeOK' /\ Filed'
PROOF
  <1>1. SameWork
    BY SaveProfileWork
  <1>2. AtHome' /\ Underway' /\ Locked' \subseteq Live'
    BY <1>1, RowsUnchanged DEF SaveProfile
  <1>3. cmd' \in Relayout
    BY <1>1 DEF SameWork
  <1> QED
    BY <1>2, <1>3 DEF SaveProfile, TypeOK, Filed, FilesAreFinite, Files

LEMMA CreateAlbumTypes ==
    ASSUME TypeOK, Filed, NEW a \in Artists, NEW s \in Slugs, CreateAlbum(a, s)
    PROVE  TypeOK' /\ Filed'
PROOF
  <1>1. SameWork
    BY WorkUnchanged DEF CreateAlbum
  <1>2. /\ albums' \in [Slugs -> users \cup {Nothing}]
        /\ \A t \in Slugs : albums[t] # Nothing => albums'[t] = albums[t]
    BY DEF CreateAlbum, TypeOK
  <1>3. AtHome' /\ Underway' /\ Locked' \subseteq Live'
    BY <1>1, <1>2, RowsUnchanged DEF CreateAlbum
  <1> QED
    BY <1>2, <1>3 DEF CreateAlbum, TypeOK, Filed, FilesAreFinite, Files

LEMMA DeleteReadTypes ==
    ASSUME TypeOK, Filed, NEW album \in Slugs \cup {Nothing}, NEW ids \in SUBSET Live,
           DeleteRead(album, ids)
    PROVE  TypeOK' /\ Filed'
PROOF
  <1>1. SameWork
    BY WorkUnchanged DEF DeleteRead
  <1>2. AtHome' /\ Underway' /\ Locked' \subseteq Live'
    BY <1>1, RowsUnchanged DEF DeleteRead
  <1>3. PICK paths, pics :
          paths = {rows[i].path : i \in ids} /\ pics = {rows[i].pic : i \in ids}
    OBVIOUS
  <1>4. PICK crossed \in BOOLEAN : crossed <=> cmd # Idle
    OBVIOUS
  <1>5. ids \in SUBSET Ids /\ paths \in SUBSET Paths /\ pics \in SUBSET Bytes
    BY <1>3, RowTypes
  <1>6. del' = [step |-> "drop", album |-> album, ids |-> ids, paths |-> paths,
                pics |-> pics, crossed |-> crossed]
    <2>1. crossed = (cmd # Idle)
      BY <1>4, Zenon
    <2> QED
      BY <1>3, <2>1, Zenon DEF DeleteRead
  <1>7. del' \in Deletion
    BY <1>5, <1>6, DelMade
  <1> QED
    BY <1>2, <1>7 DEF DeleteRead, TypeOK, Filed, FilesAreFinite, Files

LEMMA DeleteDiesTypes ==
    ASSUME TypeOK, Filed, DeleteDies
    PROVE  TypeOK' /\ Filed'
PROOF
  <1>1. SameWork
    BY WorkUnchanged DEF DeleteDies
  <1>2. AtHome' /\ Underway' /\ Locked' \subseteq Live'
    BY <1>1, RowsUnchanged DEF DeleteDies
  <1> QED
    BY <1>2, StepsDiffer DEF DeleteDies, TypeOK, Filed, FilesAreFinite, Files

\* The rows a delete takes: those it read, and its album's.
Gone == del.ids \cup (IF del.album = Nothing THEN {} ELSE InAlbum(del.album))

LEMMA DeleteCommitThins ==
    ASSUME TypeOK, DeleteCommit
    PROVE  /\ rows' \in Table /\ Len(rows') = Len(rows) /\ Thinned(Gone)
           /\ Gone \cap Locked = {} /\ SameWork
           /\ albums' \in [Slugs -> users \cup {Nothing}]
           /\ \A i \in Live \ Gone : albums'[rows[i].album] = albums[rows[i].album]
           /\ del # Idle /\ del' = [del EXCEPT !.step = "unlink"]
PROOF
  <1>1. /\ Gone \cap Locked = {}
        /\ rows' = [i \in DOMAIN rows |-> IF i \in Gone THEN Nothing ELSE rows[i]]
    BY DEF DeleteCommit, Gone
  <1>2. rows' \in Table /\ Len(rows') = Len(rows) /\ Thinned(Gone)
    BY <1>1, DeletingThins
  <1>3. SameWork
    BY WorkUnchanged DEF DeleteCommit
  <1>4. albums' \in [Slugs -> users \cup {Nothing}]
    BY DEF DeleteCommit, TypeOK
  <1>5. ASSUME NEW i \in Live \ Gone PROVE albums'[rows[i].album] = albums[rows[i].album]
    <2>1. rows[i].album \in Slugs /\ (del.album # Nothing => rows[i].album # del.album)
      BY RowTypes DEF Gone, InAlbum
    <2> QED
      BY <2>1 DEF DeleteCommit, TypeOK
  <1>6. del # Idle
    BY StepsDiffer DEF DeleteCommit
  <1>7. del' = [del EXCEPT !.step = "unlink"]
    BY DEF DeleteCommit
  <1> QED
    BY <1>1, <1>2, <1>3, <1>4, <1>5, <1>6, <1>7

LEMMA DeleteCommitTypes ==
    ASSUME TypeOK, Filed, DeleteCommit
    PROVE  TypeOK' /\ Filed'
PROOF
  <1>1. /\ rows' \in Table /\ Len(rows') = Len(rows) /\ Thinned(Gone)
        /\ Gone \cap Locked = {} /\ SameWork
        /\ albums' \in [Slugs -> users \cup {Nothing}]
        /\ \A i \in Live \ Gone : albums'[rows[i].album] = albums[rows[i].album]
        /\ del # Idle /\ del' = [del EXCEPT !.step = "unlink"]
    BY DeleteCommitThins
  <1>2. AtHome' /\ Underway' /\ Locked' \subseteq Live'
    BY <1>1, ThinningFiled
  <1>3. del' = [step |-> "unlink", album |-> del.album, ids |-> del.ids,
                paths |-> del.paths, pics |-> del.pics, crossed |-> del.crossed]
    BY <1>1, DelTypes DEF TypeOK
  <1>4. del' \in Deletion
    <2>1. /\ del.album \in Slugs \cup {Nothing} /\ del.ids \subseteq Ids
          /\ del.paths \subseteq Paths /\ del.pics \subseteq Bytes
          /\ del.crossed \in BOOLEAN
      BY <1>1, DelTypes DEF TypeOK
    <2> QED
      BY <1>3, <2>1 DEF Deletion
  <1> QED
    BY <1>1, <1>2, <1>4
       DEF DeleteCommit, TypeOK, Table, Filed, FilesAreFinite, Files

LEMMA DeleteUnlinkTypes ==
    ASSUME TypeOK, Filed, DeleteUnlink
    PROVE  TypeOK' /\ Filed'
PROOF
  <1>1. SameWork
    BY WorkUnchanged DEF DeleteUnlink
  <1>2. AtHome' /\ Underway' /\ Locked' \subseteq Live'
    BY <1>1, RowsUnchanged DEF DeleteUnlink
  <1>3. disk' \in [Paths -> Bytes \cup {Nothing}] /\ Files' \subseteq Files \cup {Nothing}
    BY DEF DeleteUnlink, TypeOK, Files
  <1>4. FilesAreFinite'
    BY <1>3, OneFileMore DEF Filed
  <1>5. astray' \in BOOLEAN
    BY Zenon DEF DeleteUnlink
  <1> QED
    BY <1>2, <1>3, <1>4, <1>5, StepsDiffer DEF DeleteUnlink, TypeOK, Filed

\* The rows of an artist's albums.
OwnRows(a) == {i \in Live : albums[rows[i].album] = a}

LEMMA DeleteArtistThins ==
    ASSUME TypeOK, Filed, NEW a \in Artists, DeleteArtist(a)
    PROVE  /\ rows' \in Table /\ Len(rows') = Len(rows) /\ Thinned(OwnRows(a))
           /\ OwnRows(a) \cap Locked = {} /\ SameWork
           /\ albums' \in [Slugs -> users' \cup {Nothing}]
           /\ \A i \in Live \ OwnRows(a) :
                albums'[rows[i].album] = albums[rows[i].album]
PROOF
  <1>1. OwnRows(a) \cap Locked = {}
    BY DEF DeleteArtist, OwnRows
  <1>2. rows' = [i \in DOMAIN rows |->
                   IF i \in OwnRows(a) THEN Nothing ELSE rows[i]]
    <2>1. \A i \in DOMAIN rows :
            i \in OwnRows(a) <=> rows[i] # Nothing /\ albums[rows[i].album] = a
      BY DEF OwnRows, Live
    <2> QED
      BY <2>1 DEF DeleteArtist
  <1>3. rows' \in Table /\ Len(rows') = Len(rows) /\ Thinned(OwnRows(a))
    BY <1>2, DeletingThins
  <1>4. SameWork
    BY WorkUnchanged DEF DeleteArtist
  <1>5. albums' \in [Slugs -> users' \cup {Nothing}]
    BY DEF DeleteArtist, TypeOK
  <1>6. ASSUME NEW i \in Live \ OwnRows(a)
        PROVE  albums'[rows[i].album] = albums[rows[i].album]
    <2>1. rows[i].album \in Slugs /\ albums[rows[i].album] # a
      BY RowTypes DEF OwnRows
    <2> QED
      BY <2>1 DEF DeleteArtist
  <1> QED
    BY <1>1, <1>3, <1>4, <1>5, <1>6

LEMMA DeleteArtistTypes ==
    ASSUME TypeOK, Filed, NEW a \in Artists, DeleteArtist(a)
    PROVE  TypeOK' /\ Filed'
PROOF
  <1>1. /\ rows' \in Table /\ Len(rows') = Len(rows) /\ Thinned(OwnRows(a))
        /\ OwnRows(a) \cap Locked = {} /\ SameWork
        /\ albums' \in [Slugs -> users' \cup {Nothing}]
        /\ \A i \in Live \ OwnRows(a) :
             albums'[rows[i].album] = albums[rows[i].album]
    BY DeleteArtistThins
  <1>2. AtHome' /\ Underway' /\ Locked' \subseteq Live'
    BY <1>1, ThinningFiled
  <1> QED
    BY <1>1, <1>2
       DEF DeleteArtist, TypeOK, Table, Filed, FilesAreFinite, Files

\* The rows an upload or an import of one photo adds.
Made(s, x, pic, committed) ==
    IF committed THEN {[album |-> s, path |-> x, pic |-> pic]} ELSE {}

LEMMA AddPhotoExtends ==
    ASSUME TypeOK, NEW s \in Slugs, NEW x \in Paths, NEW pic \in Pics,
           NEW committed \in BOOLEAN, AddPhoto(s, x, pic, committed)
    PROVE  /\ Made(s, x, pic, committed) \subseteq Row
           /\ Extends(rows, rows', Made(s, x, pic, committed))
           /\ Len(rows') <= Len(rows) + 1
PROOF
  <1>1. PICK r : r = [album |-> s, path |-> x, pic |-> pic]
    OBVIOUS
  <1>2. r \in Row
    BY <1>1 DEF Row, Bytes
  <1>3. rows \in Table
    BY RowTypes
  <1>4. CASE committed
    <2>1. rows' = Append(rows, r) /\ Made(s, x, pic, committed) = {r}
      BY <1>1, <1>4 DEF AddPhoto, Made
    <2>2. Extends(rows, Append(rows, r), {r}) /\ Len(Append(rows, r)) = Len(rows) + 1
      BY <1>2, <1>3, AppendExtends
    <2>3. Len(rows) \in Nat
      BY <1>3, TableTypes
    <2> QED
      BY <1>2, <2>1, <2>2, <2>3
  <1>5. CASE ~committed
    <2>1. rows' = rows /\ Made(s, x, pic, committed) = {}
      BY <1>5 DEF AddPhoto, Made
    <2>2. Len(rows) \in Nat
      BY <1>3, TableTypes
    <2> QED
      BY <1>3, <2>1, <2>2, ExtendsItself
  <1> QED
    BY <1>4, <1>5

LEMMA AddPhotoTypes ==
    ASSUME TypeOK, Filed, SameWork, NEW a \in Artists, NEW s \in Slugs,
           NEW stem \in Stems, NEW pic \in Pics, NEW committed \in BOOLEAN,
           AddPhoto(s, <<Key(a), s, stem>>, pic, committed), Len(rows) < MaxRows,
           \A t \in Slugs : albums[t] # Nothing => albums'[t] = albums[t],
           committed => albums'[s] # Nothing
    PROVE  /\ rows' \in Table /\ Len(rows') <= MaxRows
           /\ disk' \in [Paths -> Bytes \cup {Nothing}] /\ drawn' \subseteq Pics
           /\ Filed' /\ Locked' \subseteq Live'
           /\ Grown(Made(s, <<Key(a), s, stem>>, pic, committed))
PROOF
  <1>1. PICK x : x = <<Key(a), s, stem>>
    OBVIOUS
  <1>2. x \in Paths /\ SlugOf(x) = s
    BY <1>1, KeyTypes, PathMade
  <1>3. AddPhoto(s, x, pic, committed)
    BY <1>1
  <1>4. PICK N : N = Made(s, x, pic, committed)
    OBVIOUS
  <1>5. N \subseteq Row /\ Extends(rows, rows', N) /\ Len(rows') <= Len(rows) + 1
    BY <1>2, <1>3, <1>4, AddPhotoExtends
  <1>6. \A r \in N : r.album = SlugOf(r.path) /\ albums'[r.album] # Nothing
    BY <1>2, <1>4 DEF Made
  <1>7. AtHome' /\ Underway' /\ Locked' \subseteq Live' /\ Grown(N)
    BY <1>5, <1>6, GrowthFiled
  <1>8. disk' \in [Paths -> Bytes \cup {Nothing}] /\ drawn' \subseteq Pics
    BY <1>2, <1>3 DEF AddPhoto, TypeOK, Bytes
  <1>9. Files' \subseteq Files \cup {x}
    BY <1>2, <1>3 DEF AddPhoto, TypeOK, Files
  <1>10. FilesAreFinite'
    BY <1>9, OneFileMore DEF Filed
  <1>11. rows' \in Table /\ Len(rows') <= MaxRows
    <2>1. rows' \in Table /\ rows \in Table
      BY <1>5, RowTypes DEF Extends
    <2>2. Len(rows') \in Nat /\ Len(rows) \in Nat
      BY <2>1, TableTypes
    <2> QED
      BY <1>5, <2>1, <2>2, RowsBound
  <1> QED
    BY <1>1, <1>4, <1>7, <1>8, <1>10, <1>11 DEF Filed

LEMMA UploadTypes ==
    ASSUME TypeOK, Filed, NEW s \in Slugs, NEW stem \in Stems, NEW pic \in Pics,
           Upload(s, stem, pic)
    PROVE  TypeOK' /\ Filed'
PROOF
  <1>1. SameWork
    BY WorkUnchanged DEF Upload
  <1>2. PICK committed \in BOOLEAN : AddPhoto(s, <<Key(albums[s]), s, stem>>, pic, committed)
    BY DEF Upload
  <1>3. albums[s] \in Artists /\ albums[s] # Nothing /\ albums' = albums
    BY DEF Upload, TypeOK
  <1>4. /\ rows' \in Table /\ Len(rows') <= MaxRows
        /\ disk' \in [Paths -> Bytes \cup {Nothing}] /\ drawn' \subseteq Pics
        /\ Filed' /\ Locked' \subseteq Live'
    <2>1. Len(rows) < MaxRows
      BY DEF Upload
    <2> QED
      BY <1>1, <1>2, <1>3, <2>1, AddPhotoTypes
  <1>5. last' = "none"
    BY <1>2 DEF AddPhoto
  <1> QED
    BY <1>4, <1>5 DEF Upload, TypeOK, Table

LEMMA ImportTypes ==
    ASSUME TypeOK, Filed, NEW a \in Artists, NEW s \in Slugs, NEW stem \in Stems,
           NEW pic \in Pics, Import(a, s, stem, pic)
    PROVE  TypeOK' /\ Filed'
PROOF
  <1>1. SameWork
    BY WorkUnchanged DEF Import
  <1>2. PICK committed \in BOOLEAN :
          /\ AddPhoto(s, <<Key(a), s, stem>>, pic, committed)
          /\ albums' = IF committed /\ albums[s] = Nothing
                       THEN [albums EXCEPT ![s] = a] ELSE albums
    BY DEF Import
  <1>3. a \in users /\ a # Nothing
    BY NoSlugIsNothing DEF Import
  <1>4. /\ albums' \in [Slugs -> users \cup {Nothing}]
        /\ \A t \in Slugs : albums[t] # Nothing => albums'[t] = albums[t]
        /\ committed => albums'[s] # Nothing
    BY <1>2, <1>3 DEF TypeOK
  <1>5. /\ rows' \in Table /\ Len(rows') <= MaxRows
        /\ disk' \in [Paths -> Bytes \cup {Nothing}] /\ drawn' \subseteq Pics
        /\ Filed' /\ Locked' \subseteq Live'
    <2>1. Len(rows) < MaxRows
      BY DEF Import
    <2> QED
      BY <1>1, <1>2, <1>4, <2>1, AddPhotoTypes
  <1>6. last' = "none"
    BY <1>2 DEF AddPhoto
  <1> QED
    BY <1>4, <1>5, <1>6 DEF Import, TypeOK, Table

LEMMA PruneMediaTypes ==
    ASSUME TypeOK, Filed, PruneMedia
    PROVE  TypeOK' /\ Filed'
PROOF
  <1>1. SameWork
    BY WorkUnchanged DEF PruneMedia
  <1>2. AtHome' /\ Underway' /\ Locked' \subseteq Live'
    BY <1>1, RowsUnchanged DEF PruneMedia
  <1>3. disk' \in [Paths -> Bytes \cup {Nothing}] /\ Files' \subseteq Files \cup {Nothing}
    BY DEF PruneMedia, TypeOK, Files
  <1>4. FilesAreFinite'
    BY <1>3, OneFileMore DEF Filed
  <1> QED
    BY <1>2, <1>3, <1>4 DEF PruneMedia, TypeOK, Filed

LEMMA ResetDbTypes ==
    ASSUME TypeOK, Filed, ResetDb
    PROVE  TypeOK' /\ Filed'
PROOF
  <1>1. rows' = << >> /\ cmd' = cmd /\ cmd = Idle
    BY DEF ResetDb, Quiet
  <1>2. Live' = {} /\ Locked' = {} /\ ~Working'
    BY <1>1 DEF Live, Locked, Working
  <1>3. rows' \in Seq(Row \cup {Nothing}) /\ Len(rows') <= MaxRows
    BY <1>1, EmptySeq, RowsBound
  <1>4. AtHome' /\ Underway'
    BY <1>2 DEF AtHome, Underway
  <1>5. FilesAreFinite'
    BY DEF ResetDb, Filed, FilesAreFinite, Files
  <1> QED
    BY <1>2, <1>3, <1>4, <1>5 DEF ResetDb, TypeOK, Filed

LEMMA RelayoutReadTypes ==
    ASSUME TypeOK, Filed, RelayoutRead
    PROVE  TypeOK' /\ Filed'
PROOF
  <1>1. cmd' = [step |-> "move", seen |-> rows, owner |-> albums, todo |-> Live,
                staged |-> {}, calm |-> TRUE]
    BY DEF RelayoutRead
  <1>2. rows \in Table /\ Live \subseteq Ids
    BY RowTypes
  <1>3. albums \in [Slugs -> Artists \cup {Nothing}]
    BY DEF TypeOK
  <1>4. cmd' \in Relayout
    BY <1>1, <1>2, <1>3, WorkMade
  <1>5. /\ cmd'.seen = rows /\ cmd'.owner = albums /\ cmd'.todo = Live
        /\ cmd'.staged = {} /\ cmd'.step = "move"
    BY <1>1
  <1>6. Locked' = {}
    BY <1>5 DEF Locked
  <1>7. Live' = Live /\ rows' = rows /\ albums' = albums
    BY DEF RelayoutRead, Live
  <1>8. AtHome'
    BY <1>7 DEF Filed, AtHome
  <1>9. Underway'
    <2>1. FoundAtHome'
      BY <1>5 DEF Filed, AtHome, FoundAtHome, Live
    <2>2. FoundIsCurrent'
      BY <1>5, <1>7 DEF FoundIsCurrent
    <2>3. StagedFits'
      BY <1>5 DEF StagedFits, Live
    <2> QED
      BY <2>1, <2>2, <2>3 DEF Underway
  <1>10. del' \in Deletion
    <2>1. CASE del = Idle
      BY <2>1, StepsDiffer DEF RelayoutRead
    <2>2. CASE del # Idle
      <3>1. del' = [del EXCEPT !.crossed = TRUE]
        BY <2>2 DEF RelayoutRead
      <3> QED
        BY <2>2, <3>1 DEF TypeOK, Deletion
    <2> QED
      BY <2>1, <2>2
  <1>11. FilesAreFinite'
    BY DEF RelayoutRead, Filed, FilesAreFinite, Files
  <1> QED
    BY <1>4, <1>6, <1>8, <1>9, <1>10, <1>11 DEF RelayoutRead, TypeOK, Filed

\* Row `i' is not where it belongs, and its file is there to be moved.
Due(i) == cmd.seen[i].path # Wanted(i) /\ disk[cmd.seen[i].path] # Nothing

\* The relayout visits row `i'.
Visits(i) ==
    /\ i \in cmd.todo
    /\ disk' = IF Due(i) THEN MoveFile(cmd.seen[i].path, Wanted(i)) ELSE disk
    /\ cmd' = [cmd EXCEPT !.todo = @ \ {i},
                 !.staged = IF Due(i) /\ rows[i] # Nothing
                            THEN @ \cup {<<i, Wanted(i)>>} ELSE @]
    /\ astray' = (astray \/ (Due(i) /\ (disk[Wanted(i)] # Nothing \/ rows[i] = Nothing)))

LEMMA RowVisited ==
    ASSUME TypeOK, Filed, RelayoutRow
    PROVE  /\ Working
           /\ \E i \in cmd.todo :
                /\ Visits(i)
                /\ i \in DOMAIN rows /\ i \in DOMAIN cmd.seen
                /\ cmd.seen[i] # Nothing /\ i \notin Locked
                /\ cmd.seen[i].path \in Paths /\ Wanted(i) \in Paths
                /\ KeyOf(Wanted(i)) = Key(cmd.owner[cmd.seen[i].album])
                /\ SlugOf(Wanted(i)) = cmd.seen[i].album
                /\ StemOf(Wanted(i)) = StemOf(cmd.seen[i].path)
                /\ rows[i] # Nothing => i \in Live /\ cmd.seen[i] = rows[i]
PROOF
  <1>1. Working
    BY StepsDiffer DEF RelayoutRow, Working
  <1>2. FoundAtHome /\ FoundIsCurrent /\ StagedFits
    BY <1>1 DEF Filed, Underway
  <1>3. PICK i \in cmd.todo : Visits(i)
    BY Zenon DEF RelayoutRow, Visits, Due
  <1>4. i \in DOMAIN cmd.seen /\ cmd.seen[i] # Nothing /\ i \in DOMAIN rows
    BY <1>2 DEF StagedFits, FoundIsCurrent
  <1>5. /\ cmd.seen[i].album \in Slugs /\ cmd.seen[i].path \in Paths
        /\ cmd.owner \in [Slugs -> Artists \cup {Nothing}]
    BY <1>1, <1>4, WorkTypes DEF TypeOK
  <1>6. cmd.owner[cmd.seen[i].album] \in Artists
    BY <1>2, <1>4, <1>5 DEF FoundAtHome
  <1>7. /\ Key(cmd.owner[cmd.seen[i].album]) \in Keys
        /\ StemOf(cmd.seen[i].path) \in Stems
    BY <1>5, <1>6, KeyTypes, PathParts
  <1>8. /\ Wanted(i) \in Paths
        /\ KeyOf(Wanted(i)) = Key(cmd.owner[cmd.seen[i].album])
        /\ SlugOf(Wanted(i)) = cmd.seen[i].album
        /\ StemOf(Wanted(i)) = StemOf(cmd.seen[i].path)
    BY <1>5, <1>7, PathMade DEF Wanted
  <1>9. rows[i] # Nothing => i \in Live /\ cmd.seen[i] = rows[i]
    BY <1>2, <1>4 DEF Live, FoundIsCurrent
  <1>10. i \notin Locked
    BY <1>1, <1>2 DEF Locked, Working, StagedFits
  <1> QED
    BY <1>1, <1>3, <1>4, <1>5, <1>8, <1>9, <1>10

LEMMA RelayoutRowTypes ==
    ASSUME TypeOK, Filed, RelayoutRow
    PROVE  TypeOK' /\ Filed'
PROOF
  <1>1. Working
    BY RowVisited
  <1>2. PICK i \in cmd.todo :
          /\ Visits(i)
          /\ i \in DOMAIN rows /\ i \in DOMAIN cmd.seen
          /\ cmd.seen[i] # Nothing /\ i \notin Locked
          /\ cmd.seen[i].path \in Paths /\ Wanted(i) \in Paths
          /\ KeyOf(Wanted(i)) = Key(cmd.owner[cmd.seen[i].album])
          /\ SlugOf(Wanted(i)) = cmd.seen[i].album
          /\ StemOf(Wanted(i)) = StemOf(cmd.seen[i].path)
          /\ rows[i] # Nothing => i \in Live /\ cmd.seen[i] = rows[i]
    BY RowVisited, Zenon
  <1>3. PICK old, new : old = cmd.seen[i].path /\ new = Wanted(i)
    OBVIOUS
  <1>4. PICK staged : staged = IF Due(i) /\ rows[i] # Nothing
                               THEN cmd.staged \cup {<<i, new>>} ELSE cmd.staged
    OBVIOUS
  <1>5. PICK work : work = cmd
    OBVIOUS
  <1>6. /\ work.step = "move" /\ work.seen \in Table
        /\ work.owner \in [Slugs -> Artists \cup {Nothing}]
        /\ work.todo \subseteq Ids /\ work.staged \subseteq Ids \X Paths
        /\ work.calm \in BOOLEAN
    BY <1>1, <1>5, WorkTypes DEF TypeOK
  <1>7. cmd' = [step |-> "move", seen |-> work.seen, owner |-> work.owner,
                todo |-> work.todo \ {i}, staged |-> staged, calm |-> work.calm]
    <2>1. cmd' = [cmd EXCEPT !.todo = cmd.todo \ {i}, !.staged = staged]
      BY <1>2, <1>3, <1>4 DEF Visits
    <2>2. cmd \in [step : {"move"}, seen : Seq(Row \cup {Nothing}),
                   owner : [Slugs -> Artists \cup {Nothing}], todo : SUBSET Ids,
                   staged : SUBSET (Ids \X Paths), calm : BOOLEAN]
      BY <1>1 DEF TypeOK, Relayout, Working
    <2> QED
      BY <1>5, <2>1, <2>2
  <1>8. /\ i \in Ids /\ old \in Paths /\ new \in Paths
        /\ rows[i] # Nothing => i \in Live
    BY <1>2, <1>3, RowTypes
  <1>9. staged \subseteq Ids \X Paths
    BY <1>4, <1>5, <1>6, <1>8
  <1>10. cmd' \in Relayout /\ cmd'.step = "move"
    BY <1>6, <1>7, <1>9, WorkMade
  <1>11. /\ cmd'.seen = cmd.seen /\ cmd'.owner = cmd.owner
         /\ cmd'.todo = cmd.todo \ {i} /\ cmd'.staged = staged
    BY <1>5, <1>7
  <1>12. Working' /\ Live' = Live /\ rows' = rows /\ albums' = albums
    BY <1>10, StepsDiffer DEF Working, RelayoutRow, Live
  <1>13. FoundAtHome /\ FoundIsCurrent /\ StagedFits
    BY <1>1 DEF Filed, Underway
  <1>14. Locked' \subseteq Live'
    BY <1>1, <1>4, <1>8, <1>11, <1>12 DEF Locked, Working, TypeOK
  <1>15. FoundAtHome' /\ FoundIsCurrent'
    BY <1>11, <1>12, <1>13 DEF FoundAtHome, FoundIsCurrent
  <1>16. StagedFits'
    <2>1. \A j \in cmd'.todo : j \in DOMAIN cmd'.seen /\ cmd'.seen[j] # Nothing
      BY <1>11, <1>13 DEF StagedFits
    <2>2. rows[i] # Nothing =>
            SlugOf(new) = rows[i].album /\ StemOf(new) = StemOf(rows[i].path)
      BY <1>2, <1>3
    <2>3. ASSUME NEW m \in staged
          PROVE  /\ m[1] \in DOMAIN cmd.seen \ (cmd.todo \ {i})
                 /\ SlugOf(m[2]) = rows[m[1]].album
                 /\ StemOf(m[2]) = StemOf(rows[m[1]].path)
      <3>1. CASE m \in cmd.staged
        BY <1>13, <3>1 DEF StagedFits
      <3>2. CASE m \notin cmd.staged
        <4>1. m = <<i, new>> /\ rows[i] # Nothing
          BY <1>4, <3>2
        <4> QED
          BY <1>2, <2>2, <4>1
      <3> QED
        BY <3>1, <3>2
    <2>4. \A m \in cmd.staged : m[1] # i
      BY <1>1, <1>2 DEF Locked, Working
    <2>5. ASSUME NEW m \in staged, NEW n \in staged, m[1] = n[1]
          PROVE  m = n
      <3>1. m \in cmd.staged \/ m = <<i, new>>
        BY <1>4
      <3>2. n \in cmd.staged \/ n = <<i, new>>
        BY <1>4
      <3>3. m \in cmd.staged /\ n \in cmd.staged => m = n
        BY <1>13, <2>5 DEF StagedFits
      <3> QED
        BY <2>4, <2>5, <3>1, <3>2, <3>3
    <2> QED
      BY <1>11, <1>12, <2>1, <2>3, <2>5 DEF StagedFits
  <1>17. /\ disk' \in [Paths -> Bytes \cup {Nothing}]
         /\ Files' \subseteq Files \cup {new}
    <2>1. disk' = disk \/ disk' = [disk EXCEPT ![new] = disk[old], ![old] = Nothing]
      BY <1>2, <1>3 DEF Visits, MoveFile
    <2> QED
      BY <1>8, <2>1 DEF TypeOK, Files
  <1>18. FilesAreFinite'
    BY <1>17, OneFileMore DEF Filed
  <1>19. astray' \in BOOLEAN
    BY <1>2, Zenon DEF Visits
  <1>20. AtHome'
    BY <1>12 DEF Filed, AtHome
  <1> QED
    BY <1>10, <1>14, <1>15, <1>16, <1>17, <1>18, <1>19, <1>20
       DEF RelayoutRow, TypeOK, Filed, Underway

\* Where the file of row `i' is: its path, or the one a relayout has staged.
Place(i) ==
    IF i \in Locked THEN (CHOOSE m \in cmd.staged : m[1] = i)[2] ELSE rows[i].path

LEMMA PlaceFits ==
    ASSUME TypeOK, Filed, NEW i \in Live
    PROVE  /\ Place(i) \in Paths /\ SlugOf(Place(i)) = rows[i].album
           /\ StemOf(Place(i)) = StemOf(rows[i].path)
           /\ i \in Locked => <<i, Place(i)>> \in cmd.staged
           /\ i \notin Locked => Place(i) = rows[i].path
PROOF
  <1>1. CASE i \notin Locked
    BY <1>1, RowTypes DEF Place, Filed, AtHome
  <1>2. CASE i \in Locked
    <2>1. Working /\ \E m \in cmd.staged : m[1] = i
      BY <1>2 DEF Locked, Working
    <2>2. PICK m : m = CHOOSE n \in cmd.staged : n[1] = i
      OBVIOUS
    <2>3. m \in cmd.staged /\ m[1] = i /\ Place(i) = m[2]
      BY <1>2, <2>1, <2>2 DEF Place
    <2>4. StagedFits /\ m \in Ids \X Paths
      BY <2>1, <2>3, WorkTypes DEF Filed, Underway, TypeOK
    <2>5. m = <<i, Place(i)>> /\ Place(i) \in Paths
      BY <2>3, <2>4
    <2> QED
      BY <1>2, <2>3, <2>4, <2>5 DEF StagedFits
  <1> QED
    BY <1>1, <1>2

\* A commit gives every row updated the path staged for it, and nothing else.
LEMMA CommitMoves ==
    ASSUME TypeOK, Filed, RelayoutCommit
    PROVE  /\ Working /\ rows' \in Table /\ Len(rows') = Len(rows) /\ Live' = Live
           /\ \A i \in Live : /\ rows'[i].path = Place(i)
                              /\ rows'[i].album = rows[i].album
                              /\ rows'[i].pic = rows[i].pic
PROOF
  <1>1. Working
    BY StepsDiffer DEF RelayoutCommit, Working
  <1>2. rows \in Table /\ Locked \subseteq Live /\ Live \subseteq DOMAIN rows
    BY RowTypes DEF TypeOK
  <1>3. \A i : i \in Locked <=> \E m \in cmd.staged : m[1] = i
    BY <1>1 DEF Locked, Working
  <1>4. ASSUME NEW i \in Live
        PROVE  /\ Committed(i) \in Row /\ Committed(i).path = Place(i)
               /\ Committed(i).album = rows[i].album
               /\ Committed(i).pic = rows[i].pic
    <2>1. rows[i] \in Row /\ Place(i) \in Paths
      BY RowTypes, PlaceFits
    <2>2. CASE i \in Locked
      <3>1. Committed(i) = [rows[i] EXCEPT !.path = Place(i)]
        BY <1>3, <2>2 DEF Committed, Place
      <3> QED
        BY <2>1, <3>1 DEF Row
    <2>3. CASE i \notin Locked
      <3>1. Committed(i) = rows[i] /\ Place(i) = rows[i].path
        BY <1>3, <2>3 DEF Committed, Place
      <3> QED
        BY <2>1, <3>1
    <2> QED
      BY <2>2, <2>3
  <1>5. \A i \in DOMAIN rows \ Live : Committed(i) = Nothing
    BY <1>2, <1>3 DEF Committed, Live
  <1>6. PICK new : new = [i \in DOMAIN rows |-> Committed(i)]
    OBVIOUS
  <1>7. new \in [DOMAIN rows -> Row \cup {Nothing}]
    BY <1>4, <1>5, <1>6
  <1>8. new \in Table /\ Len(new) = Len(rows)
    BY <1>2, <1>7, TableUpdate
  <1>9. rows' = new
    BY <1>6 DEF RelayoutCommit
  <1>10. \A i \in DOMAIN rows : rows'[i] = Committed(i)
    BY <1>6, <1>9
  <1>11. DOMAIN rows' = DOMAIN rows
    BY <1>6, <1>9
  <1>12. Live' = Live
    BY <1>2, <1>4, <1>5, <1>10, <1>11, NoRowIsNothing DEF Live
  <1> QED
    BY <1>1, <1>2, <1>4, <1>8, <1>9, <1>10, <1>12

LEMMA RelayoutCommitTypes ==
    ASSUME TypeOK, Filed, RelayoutCommit
    PROVE  TypeOK' /\ Filed'
PROOF
  <1>1. /\ rows' \in Table /\ Len(rows') = Len(rows) /\ Live' = Live
        /\ \A i \in Live : /\ rows'[i].path = Place(i)
                           /\ rows'[i].album = rows[i].album
    BY CommitMoves
  <1>2. \A i \in Live : SlugOf(Place(i)) = rows[i].album
    BY PlaceFits
  <1>3. AtHome'
    BY <1>1, <1>2 DEF RelayoutCommit, Filed, AtHome
  <1>4. cmd' = Idle
    BY DEF RelayoutCommit
  <1>5. Locked' = {} /\ Underway'
    BY <1>4 DEF Locked, Underway, Working
  <1>6. FilesAreFinite'
    BY DEF RelayoutCommit, Filed, FilesAreFinite, Files
  <1> QED
    BY <1>1, <1>3, <1>4, <1>5, <1>6, StepsDiffer DEF RelayoutCommit, TypeOK, Table, Filed

LEMMA RelayoutDiesTypes ==
    ASSUME TypeOK, Filed, RelayoutDies
    PROVE  TypeOK' /\ Filed'
PROOF
  <1>1. cmd' = Idle /\ Live' = Live
    BY DEF RelayoutDies, Live
  <1>2. Locked' = {} /\ Underway'
    BY <1>1 DEF Locked, Underway, Working
  <1>3. AtHome'
    BY <1>1 DEF RelayoutDies, Filed, AtHome
  <1>4. FilesAreFinite'
    BY DEF RelayoutDies, Filed, FilesAreFinite, Files
  <1>5. halted' \in BOOLEAN
    BY Zenon DEF RelayoutDies
  <1> QED
    BY <1>1, <1>2, <1>3, <1>4, <1>5, StepsDiffer DEF RelayoutDies, TypeOK, Filed

\* What a restore does to the rows and the albums it starts from.
LEMMA RestoreFacts ==
    ASSUME NEW u \in SUBSET Artists, NEW owner \in [Slugs -> u \cup {Nothing}],
           NEW table \in Table, NEW files \in [Paths -> Bytes \cup {Nothing}],
           IsFiniteSet({x \in Paths : files[x] # Nothing}),
           RestoreOver(owner, table, u, files)
    PROVE  /\ ToRestore(table, u, files) \subseteq Row
           /\ Extends(table, rows', ToRestore(table, u, files))
           /\ Len(rows') <= MaxRows
           /\ albums' \in [Slugs -> u \cup {Nothing}]
           /\ \A s \in Slugs : owner[s] # Nothing => albums'[s] = owner[s]
           /\ \A x \in Found(u, files) : albums'[SlugOf(x)] # Nothing
PROOF
  <1> DEFINE found == Found(u, files)
             unknown == {y \in found : y \notin Known(table, SlugOf(y))}
             claims(s) == {KeyOf(x)[1] : x \in {y \in found : SlugOf(y) = s}}
  <1>1. \A x \in found : /\ x \in Paths /\ files[x] \in Bytes
                         /\ KeyOf(x)[1] \in u /\ SlugOf(x) \in Slugs
    <2>1. \A x \in found : x \in Paths /\ files[x] # Nothing /\ KeyOf(x)[1] \in u
      BY DEF Found
    <2> QED
      BY <2>1, PathParts
  <1> HIDE DEF found
  <1>2. ToRestore(table, u, files) =
          {[album |-> SlugOf(x), path |-> x, pic |-> files[x]] : x \in unknown}
    BY DEF ToRestore, found
  <1>3. unknown \subseteq found
    OBVIOUS
  <1>4. ToRestore(table, u, files) \subseteq Row
    BY <1>1, <1>2, <1>3 DEF Row
  <1>5. IsFiniteSet(unknown)
    <2>1. unknown \subseteq {x \in Paths : files[x] # Nothing}
      BY DEF found, Found
    <2> QED
      BY <2>1, FS_Subset
  <1> HIDE DEF unknown
  <1>6. IsFiniteSet(ToRestore(table, u, files))
    <2>1. PICK f : f = [x \in unknown |->
                          [album |-> SlugOf(x), path |-> x, pic |-> files[x]]]
      OBVIOUS
    <2>2. f \in Surjection(unknown, ToRestore(table, u, files))
      BY <1>2, <2>1 DEF Surjection
    <2> QED
      BY <1>5, <2>2, FS_Surjection
  <1>7. PICK N : N = ToRestore(table, u, files)
    OBVIOUS
  <1>8. Extends(table, table \o SetToSeq(N), N)
    BY <1>4, <1>6, <1>7, ConcatExtends
  <1>9. rows' = table \o SetToSeq(N) /\ Len(rows') <= MaxRows
    BY <1>7 DEF RestoreOver
  <1>10. albums' = [s \in Slugs |-> IF owner[s] = Nothing /\ claims(s) # {}
                                    THEN Min(claims(s)) ELSE owner[s]]
    BY DEF RestoreOver, AlbumsRestored, found
  <1>11. ASSUME NEW s \in Slugs, claims(s) # {}
         PROVE  Min(claims(s)) \in u /\ Min(claims(s)) # Nothing
    <2>1. claims(s) \subseteq u
      BY <1>1
    <2>2. claims(s) \subseteq Nat
      BY <2>1, IdsAreNumbers
    <2>3. PICK T : T = claims(s)
      OBVIOUS
    <2>4. Min(T) \in T
      BY <1>11, <2>2, <2>3, Least
    <2> QED
      BY <2>1, <2>3, <2>4, NoSlugIsNothing
  <1>12. \A x \in found : claims(SlugOf(x)) # {}
    OBVIOUS
  <1> HIDE DEF claims
  <1>13. albums' \in [Slugs -> u \cup {Nothing}]
    BY <1>10, <1>11
  <1>14. \A s \in Slugs : owner[s] # Nothing => albums'[s] = owner[s]
    BY <1>10
  <1>15. \A x \in found : albums'[SlugOf(x)] # Nothing
    BY <1>1, <1>10, <1>11, <1>12
  <1> QED
    BY <1>4, <1>7, <1>8, <1>9, <1>13, <1>14, <1>15 DEF found

\* With no relayout at work, rows are added in albums that have an owner.
LEMMA QuietGrowth ==
    ASSUME TypeOK, Filed, cmd = Idle, cmd' = cmd, NEW N \in SUBSET Row,
           Extends(rows, rows', N),
           \A s \in Slugs : albums[s] # Nothing => albums'[s] # Nothing,
           \A r \in N : r.album = SlugOf(r.path) /\ albums'[r.album] # Nothing
    PROVE  AtHome' /\ Underway' /\ Locked' = {} /\ Grown(N)
PROOF
  <1>1. Grown(N)
    BY ExtendsGrows
  <1>2. \A i \in Live : rows[i].album \in Slugs
    BY RowTypes
  <1>3. ASSUME NEW i \in Live'
        PROVE  rows'[i].album = SlugOf(rows'[i].path) /\ albums'[rows'[i].album] # Nothing
    BY <1>1, <1>2 DEF Grown, Filed, AtHome
  <1> QED
    BY <1>1, <1>3 DEF AtHome, Underway, Working, Locked

\* The files a restore makes rows of, given the artists and files it ends with.
Restored == ToRestore(rows, users', disk')

LEMMA RestoreGrows ==
    ASSUME TypeOK, Filed, Restore
    PROVE  /\ Restored \subseteq Row /\ Extends(rows, rows', Restored)
           /\ Len(rows') <= MaxRows
           /\ albums' \in [Slugs -> users' \cup {Nothing}]
           /\ \A s \in Slugs : albums[s] # Nothing => albums'[s] # Nothing
           /\ \A x \in Found(users', disk') : albums'[SlugOf(x)] # Nothing
PROOF
  <1>1. users' = users /\ disk' = disk
    BY DEF Restore
  <1>2. PICK u, files, owner, table :
          u = users /\ files = disk /\ owner = albums /\ table = rows
    OBVIOUS
  <1>3. /\ u \in SUBSET Artists /\ owner \in [Slugs -> u \cup {Nothing}]
        /\ files \in [Paths -> Bytes \cup {Nothing}]
    BY <1>2 DEF TypeOK
  <1>4. table \in Table
    BY <1>2, RowTypes
  <1>5. IsFiniteSet({x \in Paths : files[x] # Nothing})
    BY <1>2 DEF Filed, FilesAreFinite, Files
  <1>6. RestoreOver(owner, table, u, files)
    BY <1>2 DEF Restore
  <1>7. /\ ToRestore(table, u, files) \subseteq Row
        /\ Extends(table, rows', ToRestore(table, u, files))
        /\ Len(rows') <= MaxRows
        /\ albums' \in [Slugs -> u \cup {Nothing}]
        /\ \A s \in Slugs : owner[s] # Nothing => albums'[s] = owner[s]
        /\ \A x \in Found(u, files) : albums'[SlugOf(x)] # Nothing
    BY <1>3, <1>4, <1>5, <1>6, RestoreFacts
  <1> QED
    BY <1>1, <1>2, <1>7 DEF Restored

LEMMA SeedPathFits ==
    ASSUME TRUE
    PROVE  /\ SeedPath \in Paths /\ SlugOf(SeedPath) = SeedAlbum
           /\ KeyOf(SeedPath) = <<Seeded, TRUE>>
PROOF
  BY SeedIsNamed DEF SeedPath, Paths, Keys, SlugOf, KeyOf

\* What the rows name in an album.
LEMMA KnownRows ==
    ASSUME NEW s
    PROVE  Known(rows, s) = {rows[i].path : i \in InAlbum(s)}
PROOF
  <1>1. InAlbum(s) = {j \in DOMAIN rows : rows[j] # Nothing /\ rows[j].album = s}
    BY DEF InAlbum, Live
  <1> QED
    BY <1>1 DEF Known

\* A boot restores what it seeds along with the rest.
LEMMA BootGrows ==
    ASSUME TypeOK, Filed, Boot
    PROVE  /\ Restored \subseteq Row /\ Extends(rows, rows', Restored)
           /\ Len(rows') <= MaxRows
           /\ albums' \in [Slugs -> users' \cup {Nothing}]
           /\ albums'[SeedAlbum] = Seeded
           /\ \A s \in Slugs : albums[s] # Nothing => albums'[s] # Nothing
           /\ \A x \in Found(users', disk') : albums'[SlugOf(x)] # Nothing
           /\ disk' \in [Paths -> Bytes \cup {Nothing}] /\ FilesAreFinite'
PROOF
  <1>1. PICK u, files, owner :
          u = users' /\ files = disk' /\ owner = [albums EXCEPT ![SeedAlbum] = Seeded]
    OBVIOUS
  <1>2. PICK r : r = [album |-> SeedAlbum, path |-> SeedPath, pic |-> Placeholder]
    OBVIOUS
  <1>3. PICK table : table = IF SeedMissing THEN Append(rows, r) ELSE rows
    OBVIOUS
  <1>4. r \in Row /\ rows \in Table
    BY <1>2, SeedIsNamed, SeedPathFits, RowTypes DEF Row, Bytes
  <1>5. PICK M : M = IF SeedMissing THEN {r} ELSE {}
    OBVIOUS
  <1>6. table \in Table /\ Extends(rows, table, M)
    <2>1. Extends(rows, Append(rows, r), {r}) /\ Extends(rows, rows, {})
      BY <1>4, AppendExtends, ExtendsItself
    <2>2. Append(rows, r) \in Table
      BY <2>1 DEF Extends
    <2> QED
      BY <1>3, <1>4, <1>5, <2>1, <2>2
  <1>7. /\ users' = users \cup {Seeded}
        /\ files = IF SeedMissing THEN [disk EXCEPT ![SeedPath] = Placeholder] ELSE disk
    BY <1>1 DEF Boot
  <1>8. u \in SUBSET Artists /\ owner \in [Slugs -> u \cup {Nothing}]
    BY <1>1, <1>7, SeedIsNamed DEF TypeOK
  <1>9. files \in [Paths -> Bytes \cup {Nothing}]
    BY <1>7, SeedPathFits DEF TypeOK, Bytes
  <1>10. Files' \subseteq Files \cup {SeedPath}
    BY <1>1, <1>7, SeedPathFits DEF TypeOK, Files
  <1>11. FilesAreFinite'
    BY <1>10, OneFileMore DEF Filed
  <1>12. IsFiniteSet({x \in Paths : files[x] # Nothing})
    BY <1>1, <1>11 DEF FilesAreFinite, Files
  <1>13. RestoreOver(owner, table, u, files)
    BY <1>1, <1>2, <1>3 DEF Boot
  <1>14. /\ ToRestore(table, u, files) \subseteq Row
         /\ Extends(table, rows', ToRestore(table, u, files))
         /\ Len(rows') <= MaxRows
         /\ albums' \in [Slugs -> u \cup {Nothing}]
         /\ \A s \in Slugs : owner[s] # Nothing => albums'[s] = owner[s]
         /\ \A x \in Found(u, files) : albums'[SlugOf(x)] # Nothing
    BY <1>6, <1>8, <1>9, <1>12, <1>13, RestoreFacts
  <1>15. /\ M \cap ToRestore(table, u, files) = {}
         /\ M \cup ToRestore(table, u, files) = Restored
    <2>1. CASE ~SeedMissing
      BY <1>1, <1>3, <1>5, <2>1 DEF Restored
    <2>2. CASE SeedMissing
      <3>1. table = Append(rows, r) /\ M = {r}
        BY <1>3, <1>5, <2>2
      <3>2. PICK n \in Nat : n = Len(rows) /\ DOMAIN rows = 1 .. n
        BY <1>4, TableTypes
      <3>3. /\ DOMAIN table = 1 .. (n + 1) /\ table[n + 1] = r
            /\ \A i \in 1 .. n : table[i] = rows[i]
        BY <1>4, <3>1, <3>2, AppendProperties DEF Table
      <3>4. \A j : j \in DOMAIN table <=> j \in DOMAIN rows \/ j = n + 1
        BY <3>2, <3>3
      <3>5. r # Nothing /\ r.album = SeedAlbum /\ r.path = SeedPath
        BY <1>2, <1>4, NoRowIsNothing
      <3>6. \A s : Known(table, s) = Known(rows, s)
                       \cup (IF s = SeedAlbum THEN {SeedPath} ELSE {})
        BY <3>2, <3>3, <3>4, <3>5 DEF Known
      <3>7. SeedPath \notin Known(rows, SeedAlbum)
        BY <2>2, KnownRows DEF SeedMissing
      <3>8. files[SeedPath] = Placeholder
        BY <1>7, <2>2, SeedPathFits DEF TypeOK
      <3>9. SeedPath \in Found(u, files)
        BY <1>1, <1>7, <3>8, SeedPathFits, ContentsDiffer DEF Found
      <3>10. r = [album |-> SlugOf(SeedPath), path |-> SeedPath, pic |-> files[SeedPath]]
        BY <1>2, <3>8, SeedPathFits
      <3>11. \A y : y \in Known(table, SlugOf(y)) <=>
                       y \in Known(rows, SlugOf(y)) \/ y = SeedPath
        BY <3>6, SeedPathFits
      <3>12. PICK A, B : /\ A = {y \in Found(u, files) : y \notin Known(table, SlugOf(y))}
                         /\ B = {y \in Found(u, files) : y \notin Known(rows, SlugOf(y))}
        OBVIOUS
      <3>13. B = A \cup {SeedPath} /\ SeedPath \notin A
        BY <3>7, <3>9, <3>11, <3>12, SeedPathFits
      <3>14. /\ ToRestore(table, u, files) =
                  {[album |-> SlugOf(x), path |-> x, pic |-> files[x]] : x \in A}
             /\ Restored = {[album |-> SlugOf(x), path |-> x, pic |-> files[x]] : x \in B}
        BY <1>1, <3>12 DEF ToRestore, Restored
      <3>15. r \notin ToRestore(table, u, files)
        BY <3>5, <3>13, <3>14
      <3>16. Restored = {r} \cup ToRestore(table, u, files)
        BY <3>10, <3>13, <3>14
      <3> QED
        BY <3>1, <3>15, <3>16
    <2> QED
      BY <2>1, <2>2
  <1>16. Extends(rows, rows', Restored)
    <2>1. PICK t, N : t = rows' /\ N = ToRestore(table, u, files)
      OBVIOUS
    <2>2. Extends(table, t, N) /\ M \cap N = {}
      BY <1>14, <1>15, <2>1
    <2>3. Extends(rows, t, M \cup N)
      BY <1>4, <1>6, <2>2, ExtendsOnward
    <2> QED
      BY <1>15, <2>1, <2>3
  <1>17. Restored \subseteq Row
    BY <1>4, <1>5, <1>14, <1>15
  <1>18. albums'[SeedAlbum] = Seeded
    BY <1>1, <1>14, SeedIsNamed, NoSlugIsNothing DEF TypeOK
  <1>19. \A s \in Slugs : albums[s] # Nothing => albums'[s] # Nothing
    <2>1. \A s \in Slugs : albums[s] # Nothing => owner[s] # Nothing
      BY <1>1, SeedIsNamed, NoSlugIsNothing DEF TypeOK
    <2> QED
      BY <1>14, <2>1
  <1> QED
    BY <1>1, <1>9, <1>11, <1>14, <1>16, <1>17, <1>18, <1>19

\* Every row restored is filed under its file's album, which has an owner.
LEMMA RestoredAtHome ==
    ASSUME \A x \in Found(users', disk') : albums'[SlugOf(x)] # Nothing
    PROVE  \A r \in Restored : r.album = SlugOf(r.path) /\ albums'[r.album] # Nothing
PROOF
  BY DEF Restored, ToRestore

LEMMA RestoreTypes ==
    ASSUME TypeOK, Filed, Restore
    PROVE  TypeOK' /\ Filed' /\ Grown(Restored)
PROOF
  <1>1. PICK N : N = Restored
    OBVIOUS
  <1>2. /\ N \subseteq Row /\ Extends(rows, rows', N) /\ Len(rows') <= MaxRows
        /\ albums' \in [Slugs -> users' \cup {Nothing}]
        /\ \A s \in Slugs : albums[s] # Nothing => albums'[s] # Nothing
        /\ \A x \in Found(users', disk') : albums'[SlugOf(x)] # Nothing
    BY <1>1, RestoreGrows
  <1>3. \A r \in N : r.album = SlugOf(r.path) /\ albums'[r.album] # Nothing
    BY <1>1, <1>2, RestoredAtHome
  <1>4. cmd = Idle /\ cmd' = cmd
    BY DEF Restore, Quiet
  <1>5. AtHome' /\ Underway' /\ Locked' = {} /\ Grown(N)
    BY <1>2, <1>3, <1>4, QuietGrowth
  <1>6. rows' \in Seq(Row \cup {Nothing})
    BY <1>2 DEF Extends, Table
  <1>7. FilesAreFinite'
    BY DEF Restore, Filed, FilesAreFinite, Files
  <1> QED
    BY <1>1, <1>2, <1>5, <1>6, <1>7 DEF Restore, TypeOK, Filed

LEMMA BootTypes ==
    ASSUME TypeOK, Filed, Boot
    PROVE  TypeOK' /\ Filed' /\ Grown(Restored)
PROOF
  <1>1. PICK N : N = Restored
    OBVIOUS
  <1>2. /\ N \subseteq Row /\ Extends(rows, rows', N) /\ Len(rows') <= MaxRows
        /\ albums' \in [Slugs -> users' \cup {Nothing}]
        /\ \A s \in Slugs : albums[s] # Nothing => albums'[s] # Nothing
        /\ \A x \in Found(users', disk') : albums'[SlugOf(x)] # Nothing
        /\ disk' \in [Paths -> Bytes \cup {Nothing}] /\ FilesAreFinite'
    BY <1>1, BootGrows
  <1>3. \A r \in N : r.album = SlugOf(r.path) /\ albums'[r.album] # Nothing
    BY <1>1, <1>2, RestoredAtHome
  <1>4. cmd = Idle /\ cmd' = cmd
    BY DEF Boot, Quiet
  <1>5. AtHome' /\ Underway' /\ Locked' = {} /\ Grown(N)
    BY <1>2, <1>3, <1>4, QuietGrowth
  <1>6. rows' \in Seq(Row \cup {Nothing})
    BY <1>2 DEF Extends, Table
  <1>7. users' \subseteq Artists /\ profiled' \subseteq users'
    BY SeedIsNamed DEF Boot, TypeOK
  <1> QED
    BY <1>1, <1>2, <1>5, <1>6, <1>7 DEF Boot, TypeOK, Filed

\* The photos and albums whose delete can be asked for.
LEMMA DeletesAsked ==
    ASSUME TypeOK
    PROVE  /\ \A i \in Live : Nothing \in Slugs \cup {Nothing} /\ {i} \in SUBSET Live
           /\ \A s \in Slugs : s \in Slugs \cup {Nothing} /\ InAlbum(s) \in SUBSET Live
PROOF
  BY DEF InAlbum

\* Every step keeps the types and the filing.
LEMMA TypesStep == TypeOK /\ Filed /\ [Next]_vars => TypeOK' /\ Filed'
PROOF
  <1> SUFFICES ASSUME TypeOK, Filed, [Next]_vars PROVE TypeOK' /\ Filed'
    OBVIOUS
  <1>1. ASSUME NEW a \in Artists, SignUp(a) \/ SaveProfile(a) \/ DeleteArtist(a)
        PROVE  TypeOK' /\ Filed'
    BY <1>1, SignUpTypes, SaveProfileTypes, DeleteArtistTypes
  <1>2. ASSUME NEW a \in Artists, NEW s \in Slugs, CreateAlbum(a, s)
        PROVE  TypeOK' /\ Filed'
    BY <1>2, CreateAlbumTypes
  <1>3. ASSUME NEW s \in Slugs, NEW stem \in Stems, NEW pic \in Pics, Upload(s, stem, pic)
        PROVE  TypeOK' /\ Filed'
    BY <1>3, UploadTypes
  <1>4. ASSUME NEW i \in Live, DeleteRead(Nothing, {i}) PROVE TypeOK' /\ Filed'
    BY <1>4, DeletesAsked, DeleteReadTypes
  <1>5. ASSUME NEW s \in Slugs, DeleteRead(s, InAlbum(s)) PROVE TypeOK' /\ Filed'
    BY <1>5, DeletesAsked, DeleteReadTypes
  <1>6. CASE DeleteCommit \/ DeleteUnlink \/ DeleteDies
    BY <1>6, DeleteCommitTypes, DeleteUnlinkTypes, DeleteDiesTypes
  <1>7. CASE Api
    BY <1>1, <1>2, <1>3, <1>4, <1>5, <1>6, <1>7 DEF Api
  <1>8. CASE RelayoutMedia
    BY <1>8, RelayoutReadTypes, RelayoutRowTypes, RelayoutCommitTypes, RelayoutDiesTypes
       DEF RelayoutMedia
  <1>9. ASSUME NEW a \in Artists, NEW s \in Slugs, NEW stem \in Stems, NEW pic \in Pics,
               Import(a, s, stem, pic)
        PROVE  TypeOK' /\ Filed'
    BY <1>9, ImportTypes
  <1>10. CASE Commands
    BY <1>9, <1>10, RestoreTypes, PruneMediaTypes, ResetDbTypes, BootTypes DEF Commands
  <1>11. CASE UNCHANGED vars
    <2>1. Live' = Live /\ Locked' = Locked
      BY <1>11 DEF vars, Live, Locked
    <2> QED
      BY <1>11, <2>1 DEF vars, TypeOK, Filed, FilesAreFinite, Files, AtHome, Underway,
           Working, FoundAtHome, FoundIsCurrent, StagedFits
  <1> QED
    BY <1>7, <1>8, <1>10, <1>11 DEF Next

\* Every variable keeps its type, whatever is restored, moved, deleted or reset:
\* a row updated and not committed is a row, and a table never outgrows its ids.
THEOREM TypeCorrect == Spec => []TypeOK
PROOF
  <1>1. Spec => [](TypeOK /\ Filed)
    BY FiledInit, TypesStep, PTL DEF Spec
  <1> QED
    BY <1>1, PTL

LEMMA FiledAlways == Spec => []Filed
PROOF
  BY FiledInit, TypesStep, PTL DEF Spec

-----------------------------------------------------------------------------
(* A relayout loses no picture.                                            *)

\* What two files hold, one of them nothing, when they change places.
LEMMA SwapKeeps ==
    ASSUME NEW f \in [Paths -> Bytes \cup {Nothing}],
           NEW old \in Paths, NEW new \in Paths, f[new] = Nothing, f[old] # Nothing,
           NEW g, g = [f EXCEPT ![new] = f[old], ![old] = Nothing]
    PROVE  {g[x] : x \in Paths} = {f[x] : x \in Paths}
PROOF
  <1>1. /\ g[old] = f[new] /\ g[new] = f[old]
        /\ \A x \in Paths : x # old /\ x # new => g[x] = f[x]
    OBVIOUS
  <1>2. \A x \in Paths : \E y \in Paths : g[x] = f[y]
    BY <1>1
  <1>3. \A x \in Paths : \E y \in Paths : f[x] = g[y]
    BY <1>1
  <1>4. ASSUME NEW x \in Paths PROVE g[x] \in {f[y] : y \in Paths}
    BY <1>2
  <1>5. ASSUME NEW x \in Paths PROVE f[x] \in {g[y] : y \in Paths}
    BY <1>3
  <1>6. /\ {g[x] : x \in Paths} \subseteq {f[x] : x \in Paths}
        /\ {f[x] : x \in Paths} \subseteq {g[x] : x \in Paths}
    BY <1>4, <1>5
  <1> QED
    BY <1>6

\* storage.py:59: a relayout moves no file onto another, so that what the media
\* tree holds is the same before and after each of its steps.
THEOREM NoPictureIsLost == Spec => MovesLoseNothing
PROOF
  <1>1. ASSUME TypeOK, Filed, RelayoutRow
        PROVE  {disk'[x] : x \in Paths} = {disk[x] : x \in Paths}
    <2>1. PICK i \in cmd.todo :
            Visits(i) /\ cmd.seen[i].path \in Paths /\ Wanted(i) \in Paths
      BY <1>1, RowVisited, Zenon
    <2>2. PICK f, g, old, new :
            f = disk /\ g = disk' /\ old = cmd.seen[i].path /\ new = Wanted(i)
      OBVIOUS
    <2>3. \/ g = f
          \/ /\ f[old] # Nothing /\ f[new] = Nothing
             /\ g = [f EXCEPT ![new] = f[old], ![old] = Nothing]
      BY <2>1, <2>2 DEF Visits, MoveFile
    <2>4. f \in [Paths -> Bytes \cup {Nothing}] /\ old \in Paths /\ new \in Paths
      BY <1>1, <2>1, <2>2 DEF TypeOK
    <2>5. {g[x] : x \in Paths} = {f[x] : x \in Paths}
      BY <2>3, <2>4, SwapKeeps
    <2> QED
      BY <2>2, <2>5
  <1>2. TypeOK /\ Filed /\ [Next]_vars =>
          [RelayoutRow => {disk'[x] : x \in Paths} = {disk[x] : x \in Paths}]_vars
    BY <1>1
  <1>3. []TypeOK /\ []Filed /\ [][Next]_vars => MovesLoseNothing
    BY <1>2, PTL DEF MovesLoseNothing
  <1> QED
    BY <1>3, TypeCorrect, FiledAlways, PTL DEF Spec

-----------------------------------------------------------------------------
(* A command that has just finished leaves nothing at work, and a delete   *)
(* that no relayout crossed sees none at work.                             *)

Unrest ==
    /\ last # "none" => Quiet
    /\ del # Idle /\ ~del.crossed => ~Working

LEMMA UnrestInit == Init => Unrest
PROOF
  BY DEF Init, Unrest, Quiet

LEMMA UnrestStep == TypeOK /\ Filed /\ Unrest /\ [Next]_vars => Unrest'
PROOF
  <1> SUFFICES ASSUME TypeOK, Filed, Unrest, [Next]_vars PROVE Unrest'
    OBVIOUS
  <1>1. ASSUME NEW a \in Artists, SignUp(a) \/ DeleteArtist(a) PROVE Unrest'
    BY <1>1 DEF SignUp, DeleteArtist, Unrest, Working
  <1>2. ASSUME NEW a \in Artists, SaveProfile(a) PROVE Unrest'
    <2>1. Working' <=> Working
      BY <1>2, SaveProfileWork DEF SameWork
    <2> QED
      BY <1>2, <2>1 DEF SaveProfile, Unrest
  <1>3. ASSUME NEW a \in Artists, NEW s \in Slugs, CreateAlbum(a, s) PROVE Unrest'
    BY <1>3 DEF CreateAlbum, Unrest, Working
  <1>4. ASSUME NEW s \in Slugs, NEW stem \in Stems, NEW pic \in Pics, Upload(s, stem, pic)
        PROVE  Unrest'
    BY <1>4 DEF Upload, AddPhoto, Unrest, Working
  <1>5. ASSUME NEW album, NEW ids, DeleteRead(album, ids) PROVE Unrest'
    <2>1. last' = "none" /\ cmd' = cmd /\ (del'.crossed <=> cmd # Idle)
      BY <1>5, Zenon DEF DeleteRead
    <2> QED
      BY <2>1 DEF Unrest, Working
  <1>6. CASE DeleteCommit
    <2>1. del # Idle /\ del' = [del EXCEPT !.step = "unlink"]
      BY <1>6, DeleteCommitThins
    <2>2. del'.crossed = del.crossed
      BY <2>1, DelTypes DEF TypeOK
    <2> QED
      BY <1>6, <2>1, <2>2 DEF DeleteCommit, Unrest, Quiet, Working
  <1>7. CASE DeleteUnlink \/ DeleteDies
    <2>1. del # Idle
      BY <1>7, StepsDiffer DEF DeleteUnlink, DeleteDies
    <2> QED
      BY <1>7, <2>1 DEF DeleteUnlink, DeleteDies, Unrest, Quiet
  <1>8. CASE RelayoutRead
    <2>1. del' # Idle => del'.crossed
      BY <1>8 DEF RelayoutRead, TypeOK, Deletion
    <2> QED
      BY <1>8, <2>1 DEF RelayoutRead, Unrest
  <1>9. CASE RelayoutRow
    <2>1. Working /\ Working'
      <3>1. \E i \in cmd.todo : Visits(i)
        BY <1>9, RowVisited, Zenon
      <3>2. Working /\ cmd'.step = "move"
        <4>1. Working
          BY <1>9, RowVisited
        <4>2. cmd \in [step : {"move"}, seen : Seq(Row \cup {Nothing}),
                       owner : [Slugs -> Artists \cup {Nothing}], todo : SUBSET Ids,
                       staged : SUBSET (Ids \X Paths), calm : BOOLEAN]
          BY <4>1 DEF TypeOK, Relayout, Working
        <4> QED
          BY <3>1, <4>1, <4>2 DEF Visits
      <3> QED
        BY <3>2, StepsDiffer DEF Working
    <2> QED
      BY <1>9, <2>1 DEF RelayoutRow, Unrest, Quiet, Working
  <1>10. CASE RelayoutCommit \/ RelayoutDies
    <2>1. Working
      BY <1>10, StepsDiffer DEF RelayoutCommit, RelayoutDies, Working
    <2> QED
      BY <1>10, <2>1 DEF RelayoutCommit, RelayoutDies, Unrest, Quiet, Working
  <1>11. CASE Restore \/ PruneMedia \/ ResetDb \/ Boot
    BY <1>11 DEF Restore, PruneMedia, ResetDb, Boot, Unrest, Quiet
  <1>12. ASSUME NEW a \in Artists, NEW s \in Slugs, NEW stem \in Stems, NEW pic \in Pics,
                Import(a, s, stem, pic)
         PROVE  Unrest'
    BY <1>12 DEF Import, Unrest, Quiet
  <1>13. CASE UNCHANGED vars
    BY <1>13 DEF vars, Unrest, Quiet, Working
  <1>14. CASE Api
    BY <1>1, <1>2, <1>3, <1>4, <1>5, <1>6, <1>7, <1>14 DEF Api
  <1>15. CASE RelayoutMedia
    BY <1>8, <1>9, <1>10, <1>15 DEF RelayoutMedia
  <1>16. CASE Commands
    BY <1>11, <1>12, <1>16 DEF Commands
  <1> QED
    BY <1>13, <1>14, <1>15, <1>16 DEF Next

LEMMA UnrestAlways == Spec => []Unrest
PROOF
  BY UnrestInit, UnrestStep, TypeCorrect, FiledAlways, PTL DEF Spec

-----------------------------------------------------------------------------
(* A picture is uploaded once, and is in one file at most.                 *)

Drawn ==
    /\ \A x \in Paths : disk[x] \in Pics => disk[x] \in drawn
    /\ \A x, y \in Paths : disk[x] = disk[y] /\ disk[x] \in Pics => x = y

\* Files that move, or go, keep it so.
LEMMA DrawnMoves ==
    ASSUME TypeOK, Drawn, NEW old \in Paths, NEW new \in Paths, drawn' = drawn,
           disk' = [disk EXCEPT ![new] = disk[old], ![old] = Nothing]
    PROVE  Drawn'
PROOF
  <1>1. /\ disk'[old] = Nothing
        /\ new # old => disk'[new] = disk[old]
        /\ \A x \in Paths : x # old /\ x # new => disk'[x] = disk[x]
    BY DEF TypeOK
  <1>2. ASSUME NEW x \in Paths, disk'[x] \in Pics
        PROVE  \E y \in Paths : /\ y = IF x = new THEN old ELSE x
                                /\ disk'[x] = disk[y] /\ x # old
    BY <1>1, <1>2, ContentsDiffer
  <1>3. ASSUME NEW x \in Paths, disk'[x] \in Pics PROVE disk'[x] \in drawn'
    <2>1. PICK y \in Paths : disk'[x] = disk[y]
      BY <1>2, <1>3
    <2> QED
      BY <1>3, <2>1 DEF Drawn
  <1>4. ASSUME NEW x \in Paths, NEW y \in Paths, disk'[x] = disk'[y], disk'[x] \in Pics
        PROVE  x = y
    <2>1. PICK v \in Paths : /\ v = IF x = new THEN old ELSE x
                             /\ disk'[x] = disk[v] /\ x # old
      BY <1>2, <1>4
    <2>2. PICK w \in Paths : /\ w = IF y = new THEN old ELSE y
                             /\ disk'[y] = disk[w] /\ y # old
      BY <1>2, <1>4
    <2>3. v = w
      BY <1>4, <2>1, <2>2 DEF Drawn
    <2> QED
      BY <2>1, <2>2, <2>3
  <1> QED
    BY <1>3, <1>4 DEF Drawn

LEMMA DrawnSwept ==
    ASSUME Drawn, drawn' = drawn, \A x \in Paths : disk'[x] \in {disk[x], Nothing, Placeholder}
    PROVE  Drawn'
PROOF
  BY ContentsDiffer DEF Drawn

LEMMA DrawnUploaded ==
    ASSUME TypeOK, Drawn, NEW s, NEW x \in Paths, NEW pic \in Pics \ drawn, NEW committed,
           AddPhoto(s, x, pic, committed)
    PROVE  Drawn'
PROOF
  <1>1. disk'[x] = pic /\ \A y \in Paths : y # x => disk'[y] = disk[y]
    BY DEF AddPhoto, TypeOK
  <1>2. drawn' = drawn \cup {pic}
    BY DEF AddPhoto
  <1> QED
    BY <1>1, <1>2 DEF Drawn

LEMMA DrawnStep == TypeOK /\ Filed /\ Drawn /\ [Next]_vars => Drawn'
PROOF
  <1> SUFFICES ASSUME TypeOK, Filed, Drawn, [Next]_vars PROVE Drawn'
    OBVIOUS
  <1>1. CASE UNCHANGED <<disk, drawn>>
    BY <1>1 DEF Drawn
  <1>2. ASSUME NEW s \in Slugs, NEW stem \in Stems, NEW pic \in Pics, Upload(s, stem, pic)
        PROVE  Drawn'
    <2>1. albums[s] \in Artists /\ pic \notin drawn
      BY <1>2 DEF Upload, TypeOK
    <2>2. PICK x \in Paths : x = <<Key(albums[s]), s, stem>>
      BY <2>1, KeyTypes, PathMade
    <2>3. \E committed \in BOOLEAN : AddPhoto(s, x, pic, committed)
      BY <1>2, <2>2 DEF Upload
    <2> QED
      BY <2>1, <2>3, DrawnUploaded
  <1>3. ASSUME NEW a \in Artists, NEW s \in Slugs, NEW stem \in Stems, NEW pic \in Pics,
               Import(a, s, stem, pic)
        PROVE  Drawn'
    <2>1. pic \notin drawn
      BY <1>3 DEF Import
    <2>2. PICK x \in Paths : x = <<Key(a), s, stem>>
      BY KeyTypes, PathMade
    <2>3. \E committed \in BOOLEAN : AddPhoto(s, x, pic, committed)
      BY <1>3, <2>2 DEF Import
    <2> QED
      BY <2>1, <2>3, DrawnUploaded
  <1>4. CASE DeleteUnlink \/ PruneMedia \/ Boot
    <2>1. drawn' = drawn
      BY <1>4 DEF DeleteUnlink, PruneMedia, Boot
    <2>2. \A x \in Paths : disk'[x] \in {disk[x], Nothing, Placeholder}
      <3>1. CASE DeleteUnlink
        BY <3>1 DEF DeleteUnlink
      <3>2. CASE PruneMedia
        BY <3>2 DEF PruneMedia
      <3>3. CASE Boot
        BY <3>3, SeedPathFits DEF Boot, TypeOK
      <3> QED
        BY <1>4, <3>1, <3>2, <3>3
    <2> QED
      BY <2>1, <2>2, DrawnSwept
  <1>5. CASE RelayoutRow
    <2>1. PICK i \in cmd.todo :
            Visits(i) /\ cmd.seen[i].path \in Paths /\ Wanted(i) \in Paths
      BY <1>5, RowVisited, Zenon
    <2>2. PICK old \in Paths, new \in Paths : old = cmd.seen[i].path /\ new = Wanted(i)
      BY <2>1
    <2>3. disk' = disk \/ disk' = [disk EXCEPT ![new] = disk[old], ![old] = Nothing]
      BY <2>1, <2>2 DEF Visits, MoveFile
    <2>4. drawn' = drawn
      BY <1>5 DEF RelayoutRow
    <2> QED
      BY <1>1, <2>3, <2>4, DrawnMoves
  <1>6. CASE Api
    BY <1>1, <1>2, <1>4, <1>6
       DEF Api, SignUp, SaveProfile, DeleteArtist, CreateAlbum, DeleteRead, DeleteCommit,
           DeleteDies
  <1>7. CASE RelayoutMedia
    BY <1>1, <1>5, <1>7 DEF RelayoutMedia, RelayoutRead, RelayoutCommit, RelayoutDies
  <1>8. CASE Commands
    BY <1>1, <1>3, <1>4, <1>8 DEF Commands, Restore, ResetDb
  <1> QED
    BY <1>1, <1>6, <1>7, <1>8 DEF Next, vars

LEMMA DrawnAlways == Spec => []Drawn
PROOF
  <1>1. Init => Drawn
    BY ContentsDiffer DEF Init, Drawn
  <1> QED
    BY <1>1, DrawnStep, TypeCorrect, FiledAlways, PTL DEF Spec

-----------------------------------------------------------------------------
(* Rows keep their pictures. Where a relayout has staged a new path, the    *)
(* file is there already; the row's own path is its file's at the commit.  *)

Sound == ~halted /\ ~astray

HeldInPlace == \A i \in Live : disk[Place(i)] = rows[i].pic
Apart       == \A i, j \in Live : Place(i) = Place(j) => i = j

\* A delete no relayout crossed has names of the rows it takes, and of no other.
NamesItsOwn ==
    del # Idle /\ ~del.crossed =>
        \A i \in Live : rows[i].path \in del.paths => del.step = "drop" /\ i \in del.ids

\* What it is to take off the disk is under those names.
NamesItsPics ==
    del # Idle /\ ~del.crossed => \A p \in del.pics : \E x \in del.paths : disk[x] = p

Kept == Sound => HeldInPlace /\ Apart /\ NamesItsOwn /\ NamesItsPics

\* Rows that stay, with the same relayout at work, stay in place.
LEMMA PlaceStays ==
    ASSUME SameWork, NEW i \in Live, rows'[i] = rows[i]
    PROVE  Place(i)' = Place(i)
PROOF
  <1>1. Locked' = Locked
    BY LockedStays
  <1>2. i \in Locked => Working
    BY DEF Locked, Working
  <1>3. CASE i \in Locked
    <2>1. cmd'.staged = cmd.staged
      BY <1>2, <1>3 DEF SameWork
    <2>2. PICK S : S = cmd.staged
      OBVIOUS
    <2>3. Place(i) = (CHOOSE m \in S : m[1] = i)[2]
      BY <1>3, <2>2, Zenon DEF Place
    <2>4. Place(i)' = (CHOOSE m \in S : m[1] = i)[2]
      BY <1>1, <1>3, <2>1, <2>2, Zenon DEF Place
    <2> QED
      BY <2>3, <2>4
  <1>4. CASE i \notin Locked
    BY <1>1, <1>4 DEF Place
  <1> QED
    BY <1>3, <1>4

\* With none at work a row is in place at its own path.
LEMMA PlaceAtRest ==
    ASSUME ~Working, NEW i
    PROVE  Place(i) = rows[i].path
PROOF
  BY DEF Place, Locked, Working

\* Rows added where no other row is, with their files.
LEMMA KeptGrows ==
    ASSUME TypeOK, Filed, HeldInPlace, Apart, SameWork, NEW N, Grown(N),
           \A i \in Live : disk'[Place(i)] = disk[Place(i)],
           \A r \in N : disk'[r.path] = r.pic,
           \A r \in N, i \in Live : r.path # Place(i),
           \A q, r \in N : q.path = r.path => q = r
    PROVE  HeldInPlace' /\ Apart'
PROOF
  <1>1. \A i \in Live : i \in Live' /\ rows'[i] = rows[i]
    BY DEF Grown
  <1>2. \A i \in Live : Place(i)' = Place(i)
    BY <1>1, PlaceStays
  <1>3. ASSUME NEW i \in Live' \ Live
        PROVE  Place(i)' = rows'[i].path /\ rows'[i] \in N
    <2>1. i \notin Locked'
      BY LockedStays DEF TypeOK
    <2> QED
      BY <2>1 DEF Place, Grown
  <1>4. ASSUME NEW i \in Live' PROVE (disk[Place(i)])' = rows'[i].pic
    <2>1. CASE i \in Live
      BY <1>1, <1>2, <2>1 DEF HeldInPlace
    <2>2. CASE i \notin Live
      BY <1>3, <2>2
    <2> QED
      BY <2>1, <2>2
  <1>5. ASSUME NEW i \in Live', NEW j \in Live', Place(i)' = Place(j)' PROVE i = j
    <2>1. CASE i \in Live /\ j \in Live
      BY <1>2, <1>5, <2>1 DEF Apart
    <2>2. CASE i \notin Live /\ j \notin Live
      <3>1. rows'[i] = rows'[j]
        BY <1>3, <1>5, <2>2
      <3> QED
        BY <2>2, <3>1 DEF Grown
    <2>3. CASE (i \in Live) # (j \in Live)
      BY <1>2, <1>3, <1>5, <2>3
    <2> QED
      BY <2>1, <2>2, <2>3
  <1> QED
    BY <1>4, <1>5 DEF HeldInPlace, Apart

\* Rows deleted, or none, and no file touched.
LEMMA KeptThins ==
    ASSUME HeldInPlace, Apart, SameWork, NEW G, Thinned(G), disk' = disk
    PROVE  HeldInPlace' /\ Apart'
PROOF
  <1>1. \A i \in Live' : i \in Live /\ rows'[i] = rows[i]
    BY DEF Thinned
  <1>2. \A i \in Live' : Place(i)' = Place(i)
    BY <1>1, PlaceStays
  <1> QED
    BY <1>1, <1>2 DEF HeldInPlace, Apart

LEMMA NoneThinned ==
    ASSUME rows' = rows
    PROVE  Thinned({})
PROOF
  BY DEF Thinned, Live

\* Steps of the API that store and delete no file.
LEMMA KeptApi ==
    ASSUME TypeOK, Filed, Kept, NEW a \in Artists,
           SignUp(a) \/ SaveProfile(a) \/ \E s \in Slugs : CreateAlbum(a, s)
    PROVE  Kept'
PROOF
  <1>1. SameWork
    BY WorkUnchanged, SaveProfileWork DEF SignUp, CreateAlbum
  <1>2. /\ rows' = rows /\ disk' = disk /\ del' = del
        /\ halted' = halted /\ astray' = astray
    BY DEF SignUp, SaveProfile, CreateAlbum
  <1>3. Sound => HeldInPlace' /\ Apart'
    BY <1>1, <1>2, NoneThinned, KeptThins DEF Kept
  <1>4. Live' = Live
    BY <1>2 DEF Live
  <1> QED
    BY <1>2, <1>3, <1>4 DEF Kept, Sound, NamesItsOwn, NamesItsPics

LEMMA KeptRead ==
    ASSUME TypeOK, Filed, Kept, NEW album, NEW ids \in SUBSET Live, DeleteRead(album, ids)
    PROVE  Kept'
PROOF
  <1> SUFFICES ASSUME Sound' PROVE (HeldInPlace /\ Apart /\ NamesItsOwn /\ NamesItsPics)'
    BY DEF Kept
  <1>1. /\ rows' = rows /\ disk' = disk /\ cmd' = cmd /\ Live' = Live
        /\ Sound /\ SameWork
    BY WorkUnchanged DEF DeleteRead, Sound, Live
  <1>2. HeldInPlace /\ Apart
    BY <1>1 DEF Kept
  <1>3. HeldInPlace' /\ Apart'
    BY <1>1, <1>2, NoneThinned, KeptThins
  <1>4. /\ del'.step = "drop" /\ del'.ids = ids
        /\ del'.paths = {rows[i].path : i \in ids}
        /\ del'.pics = {rows[i].pic : i \in ids}
        /\ (del'.crossed <=> Working)
    BY Zenon DEF DeleteRead, Working
  <1>5. ASSUME ~del'.crossed
        PROVE  /\ \A i \in Live : rows[i].path \in del'.paths => i \in del'.ids
               /\ \A p \in del'.pics : \E x \in del'.paths : disk[x] = p
    <2>1. \A i \in Live : Place(i) = rows[i].path
      BY <1>4, <1>5, PlaceAtRest
    <2> QED
      BY <1>2, <1>4, <2>1 DEF HeldInPlace, Apart
  <1> QED
    BY <1>1, <1>3, <1>4, <1>5 DEF NamesItsOwn, NamesItsPics

LEMMA KeptCommit ==
    ASSUME TypeOK, Filed, Kept, DeleteCommit
    PROVE  Kept'
PROOF
  <1> SUFFICES ASSUME Sound' PROVE (HeldInPlace /\ Apart /\ NamesItsOwn /\ NamesItsPics)'
    BY DEF Kept
  <1>1. /\ Thinned(Gone) /\ SameWork /\ del # Idle
        /\ del' = [del EXCEPT !.step = "unlink"]
    BY DeleteCommitThins
  <1>2. Sound /\ disk' = disk
    BY DEF DeleteCommit, Sound
  <1>3. HeldInPlace' /\ Apart'
    BY <1>1, <1>2, KeptThins DEF Kept
  <1>4. /\ del'.paths = del.paths /\ del'.pics = del.pics
        /\ (del'.crossed <=> del.crossed)
    BY <1>1, DelTypes DEF TypeOK
  <1>5. \A i \in Live' : i \in Live /\ i \notin del.ids /\ rows'[i] = rows[i]
    BY <1>1 DEF Thinned, Gone
  <1> QED
    BY <1>1, <1>2, <1>3, <1>4, <1>5 DEF Kept, NamesItsOwn, NamesItsPics

\* A delete unlinks no row's file: it would be crossed, and astray.
LEMMA KeptUnlink ==
    ASSUME TypeOK, Filed, Unrest, Kept, DeleteUnlink
    PROVE  Kept'
PROOF
  <1> SUFFICES ASSUME Sound' PROVE (HeldInPlace /\ Apart /\ NamesItsOwn /\ NamesItsPics)'
    BY DEF Kept
  <1>1. /\ Sound /\ del.step = "unlink" /\ del # Idle /\ rows' = rows
        /\ del' = Idle /\ cmd' = cmd
        /\ (del.crossed => del.paths \cap Owned = {})
    BY StepsDiffer DEF DeleteUnlink, Sound
  <1>2. HeldInPlace /\ Apart /\ NamesItsOwn
    BY <1>1 DEF Kept
  <1>3. Live' = Live /\ \A i \in Live : Place(i)' = Place(i)
    BY <1>1, WorkUnchanged, PlaceStays DEF Live
  <1>4. ASSUME NEW i \in Live PROVE Place(i) \notin del.paths
    <2>1. CASE del.crossed
      <3>1. /\ i \in Locked => <<i, Place(i)>> \in cmd.staged
            /\ i \notin Locked => Place(i) = rows[i].path
        BY PlaceFits
      <3>2. i \in Locked => cmd # Idle
        BY DEF Locked
      <3>3. Place(i) \in Owned
        BY <3>1, <3>2 DEF Owned
      <3> QED
        BY <1>1, <2>1, <3>3
    <2>2. CASE ~del.crossed
      <3>1. Place(i) = rows[i].path
        BY <1>1, <2>2, PlaceAtRest DEF Unrest
      <3> QED
        BY <1>1, <1>2, <2>2, <3>1 DEF NamesItsOwn
    <2> QED
      BY <2>1, <2>2
  <1>5. \A i \in Live : disk'[Place(i)] = disk[Place(i)]
    BY <1>4, PlaceFits DEF DeleteUnlink
  <1> QED
    BY <1>1, <1>2, <1>3, <1>5 DEF HeldInPlace, Apart, NamesItsOwn, NamesItsPics

LEMMA KeptDies ==
    ASSUME TypeOK, Filed, Kept, DeleteDies
    PROVE  Kept'
PROOF
  <1>1. /\ rows' = rows /\ disk' = disk /\ del' = Idle /\ SameWork
        /\ halted' = halted /\ astray' = astray
    BY WorkUnchanged DEF DeleteDies
  <1>2. Sound => HeldInPlace' /\ Apart'
    BY <1>1, NoneThinned, KeptThins DEF Kept
  <1> QED
    BY <1>1, <1>2 DEF Kept, Sound, NamesItsOwn, NamesItsPics

LEMMA KeptDeleteArtist ==
    ASSUME TypeOK, Filed, Kept, NEW a \in Artists, DeleteArtist(a)
    PROVE  Kept'
PROOF
  <1>1. Thinned(OwnRows(a)) /\ SameWork
    BY DeleteArtistThins
  <1>2. /\ disk' = disk /\ del = Idle /\ del' = del
        /\ halted' = halted /\ astray' = astray
    BY DEF DeleteArtist
  <1>3. Sound => HeldInPlace' /\ Apart'
    BY <1>1, <1>2, KeptThins DEF Kept
  <1> QED
    BY <1>2, <1>3 DEF Kept, Sound, NamesItsOwn, NamesItsPics

\* A stem that is free in the album is in nobody's way.
LEMMA FreeStem ==
    ASSUME TypeOK, Filed, NEW k \in Keys, NEW s \in Slugs, NEW stem \in Stems \ UsedStems(s),
           NEW i \in Live
    PROVE  Place(i) # <<k, s, stem>>
PROOF
  <1> SUFFICES ASSUME Place(i) = <<k, s, stem>> PROVE FALSE
    OBVIOUS
  <1>1. SlugOf(Place(i)) = s /\ StemOf(Place(i)) = stem
    BY PathMade
  <1>2. rows[i].album = s /\ StemOf(rows[i].path) = stem
    BY <1>1, PlaceFits
  <1> QED
    BY <1>2 DEF InAlbum, UsedStems

LEMMA KeptAddPhoto ==
    ASSUME TypeOK, Filed, Kept, SameWork, NEW a \in Artists, NEW s \in Slugs,
           NEW stem \in Stems \ UsedStems(s), NEW pic \in Pics, NEW committed \in BOOLEAN,
           AddPhoto(s, <<Key(a), s, stem>>, pic, committed),
           Grown(Made(s, <<Key(a), s, stem>>, pic, committed)),
           del' = Idle, halted' = halted, astray' = astray
    PROVE  Kept'
PROOF
  <1> SUFFICES ASSUME Sound' PROVE (HeldInPlace /\ Apart /\ NamesItsOwn /\ NamesItsPics)'
    BY DEF Kept
  <1>1. HeldInPlace /\ Apart
    BY DEF Kept, Sound
  <1>2. PICK x, N : x = <<Key(a), s, stem>> /\ N = Made(s, x, pic, committed)
    OBVIOUS
  <1>3. x \in Paths /\ \A i \in Live : Place(i) # x
    BY <1>2, KeyTypes, PathMade, FreeStem
  <1>4. disk' = [disk EXCEPT ![x] = pic]
    BY <1>2 DEF AddPhoto
  <1>5. \A i \in Live : disk'[Place(i)] = disk[Place(i)]
    BY <1>3, <1>4, PlaceFits DEF TypeOK
  <1>6. \A r \in N : r.path = x /\ r.pic = pic /\ r = [album |-> s, path |-> x, pic |-> pic]
    BY <1>2 DEF Made
  <1>7. /\ \A r \in N : disk'[r.path] = r.pic
        /\ \A r \in N, i \in Live : r.path # Place(i)
        /\ \A q, r \in N : q.path = r.path => q = r
    BY <1>3, <1>4, <1>6 DEF TypeOK
  <1>8. Grown(N)
    BY <1>2
  <1>9. HeldInPlace' /\ Apart'
    BY <1>1, <1>5, <1>7, <1>8, KeptGrows
  <1> QED
    BY <1>9 DEF NamesItsOwn, NamesItsPics

LEMMA KeptUpload ==
    ASSUME TypeOK, Filed, Kept, NEW s \in Slugs, NEW stem \in Stems, NEW pic \in Pics,
           Upload(s, stem, pic)
    PROVE  Kept'
PROOF
  <1>1. SameWork
    BY WorkUnchanged DEF Upload
  <1>2. PICK committed \in BOOLEAN : AddPhoto(s, <<Key(albums[s]), s, stem>>, pic, committed)
    BY DEF Upload
  <1>3. /\ albums[s] \in Artists /\ albums[s] # Nothing /\ albums' = albums
        /\ stem \notin UsedStems(s) /\ Len(rows) < MaxRows
        /\ del' = Idle /\ halted' = halted /\ astray' = astray
    BY DEF Upload, TypeOK
  <1>4. Grown(Made(s, <<Key(albums[s]), s, stem>>, pic, committed))
    BY <1>1, <1>2, <1>3, AddPhotoTypes
  <1> QED
    BY <1>1, <1>2, <1>3, <1>4, KeptAddPhoto

LEMMA KeptImport ==
    ASSUME TypeOK, Filed, Kept, NEW a \in Artists, NEW s \in Slugs, NEW stem \in Stems,
           NEW pic \in Pics, Import(a, s, stem, pic)
    PROVE  Kept'
PROOF
  <1>1. SameWork
    BY WorkUnchanged DEF Import
  <1>2. PICK committed \in BOOLEAN :
          /\ AddPhoto(s, <<Key(a), s, stem>>, pic, committed)
          /\ albums' = IF committed /\ albums[s] = Nothing
                       THEN [albums EXCEPT ![s] = a] ELSE albums
    BY DEF Import
  <1>3. /\ stem \notin UsedStems(s) /\ Len(rows) < MaxRows
        /\ del' = Idle /\ halted' = halted /\ astray' = astray
    BY DEF Import, Quiet
  <1>4. /\ \A t \in Slugs : albums[t] # Nothing => albums'[t] = albums[t]
        /\ committed => albums'[s] # Nothing
    BY <1>2, NoSlugIsNothing DEF TypeOK
  <1>5. Grown(Made(s, <<Key(a), s, stem>>, pic, committed))
    BY <1>1, <1>2, <1>3, <1>4, AddPhotoTypes
  <1> QED
    BY <1>1, <1>2, <1>3, <1>5, KeptAddPhoto

\* A relayout that starts finds every file at its row's path.
LEMMA KeptRelayoutRead ==
    ASSUME TypeOK, Filed, Kept, RelayoutRead
    PROVE  Kept'
PROOF
  <1> SUFFICES ASSUME Sound' PROVE (HeldInPlace /\ Apart /\ NamesItsOwn /\ NamesItsPics)'
    BY DEF Kept
  <1>1. /\ Sound /\ ~Working /\ rows' = rows /\ disk' = disk /\ Live' = Live
        /\ cmd'.staged = {}
    BY DEF RelayoutRead, Sound, Working, Live
  <1>2. Locked' = {}
    BY <1>1 DEF Locked
  <1>3. \A i \in Live : Place(i) = rows[i].path /\ Place(i)' = rows[i].path
    BY <1>1, <1>2, PlaceAtRest DEF Place
  <1>4. HeldInPlace' /\ Apart'
    BY <1>1, <1>3 DEF Kept, HeldInPlace, Apart
  <1>5. del' # Idle => del'.crossed
    BY DEF RelayoutRead, TypeOK, Deletion
  <1> QED
    BY <1>4, <1>5 DEF NamesItsOwn, NamesItsPics

\* A relayout that is stopped, with nothing moved, leaves them there.
LEMMA KeptRelayoutDies ==
    ASSUME TypeOK, Filed, Unrest, Kept, RelayoutDies
    PROVE  Kept'
PROOF
  <1> SUFFICES ASSUME Sound' PROVE (HeldInPlace /\ Apart /\ NamesItsOwn /\ NamesItsPics)'
    BY DEF Kept
  <1>1. /\ Sound /\ Working /\ rows' = rows /\ disk' = disk /\ Live' = Live
        /\ ~Working' /\ cmd.staged = {} /\ del' = del
    BY DEF RelayoutDies, Sound, Working, Live
  <1>2. Locked = {} /\ Locked' = {}
    BY <1>1 DEF Locked, Working
  <1>3. \A i \in Live : Place(i) = rows[i].path /\ Place(i)' = rows[i].path
    BY <1>1, <1>2 DEF Place
  <1>4. HeldInPlace' /\ Apart'
    BY <1>1, <1>3 DEF Kept, HeldInPlace, Apart
  <1> QED
    BY <1>1, <1>4 DEF Unrest, NamesItsOwn, NamesItsPics

LEMMA KeptRelayoutCommit ==
    ASSUME TypeOK, Filed, Unrest, Kept, RelayoutCommit
    PROVE  Kept'
PROOF
  <1> SUFFICES ASSUME Sound' PROVE (HeldInPlace /\ Apart /\ NamesItsOwn /\ NamesItsPics)'
    BY DEF Kept
  <1>1. /\ Working /\ Live' = Live
        /\ \A i \in Live : rows'[i].path = Place(i) /\ rows'[i].pic = rows[i].pic
    BY CommitMoves
  <1>2. Sound /\ disk' = disk /\ del' = del /\ cmd' = Idle
    BY DEF RelayoutCommit, Sound
  <1>3. \A i \in Live : Place(i)' = Place(i)
    BY <1>1, <1>2 DEF Place, Locked
  <1>4. HeldInPlace' /\ Apart'
    BY <1>1, <1>2, <1>3 DEF Kept, HeldInPlace, Apart
  <1> QED
    BY <1>1, <1>2, <1>4 DEF Unrest, NamesItsOwn, NamesItsPics

\* A sweep spares every file that is a row's.
LEMMA KeptPrune ==
    ASSUME TypeOK, Filed, Kept, PruneMedia
    PROVE  Kept'
PROOF
  <1>1. /\ rows' = rows /\ cmd' = cmd /\ ~Working /\ del' = Idle
        /\ halted' = halted /\ astray' = astray /\ Live' = Live
    BY DEF PruneMedia, Quiet, Working, Live
  <1>2. \A i \in Live : Place(i) = rows[i].path /\ Place(i)' = rows[i].path
    BY <1>1 DEF Place, Locked, Working
  <1>3. \A i \in Live : disk'[rows[i].path] = disk[rows[i].path]
    BY RowTypes DEF PruneMedia
  <1> QED
    BY <1>1, <1>2, <1>3 DEF Kept, Sound, HeldInPlace, Apart, NamesItsOwn, NamesItsPics

LEMMA KeptReset ==
    ASSUME ResetDb
    PROVE  Kept'
PROOF
  <1>1. Live' = {} /\ del' = Idle
    BY DEF ResetDb, Quiet, Live
  <1> QED
    BY <1>1 DEF Kept, HeldInPlace, Apart, NamesItsOwn, NamesItsPics

\* A restore adds no row where there is one, and each with its file.
LEMMA KeptRestored ==
    ASSUME TypeOK, Filed, Kept, Quiet, cmd' = cmd, del' = del, halted' = halted,
           astray' = astray, Grown(Restored),
           \A i \in Live : disk'[rows[i].path] = disk[rows[i].path]
    PROVE  Kept'
PROOF
  <1> SUFFICES ASSUME Sound' PROVE (HeldInPlace /\ Apart /\ NamesItsOwn /\ NamesItsPics)'
    BY DEF Kept
  <1>1. HeldInPlace /\ Apart /\ SameWork /\ ~Working /\ del' = Idle
    BY WorkUnchanged DEF Kept, Sound, Quiet, Working
  <1>2. \A i \in Live : Place(i) = rows[i].path
    BY <1>1, PlaceAtRest
  <1>3. PICK N : N = Restored
    OBVIOUS
  <1>4. ASSUME NEW r \in N
        PROVE  /\ r = [album |-> SlugOf(r.path), path |-> r.path, pic |-> disk'[r.path]]
               /\ r.path \notin Known(rows, SlugOf(r.path))
    BY <1>3 DEF Restored, ToRestore
  <1>5. ASSUME NEW r \in N, NEW i \in Live PROVE r.path # Place(i)
    <2> SUFFICES ASSUME r.path = Place(i) PROVE FALSE
      OBVIOUS
    <2>1. rows[i].path = r.path /\ rows[i].album = SlugOf(r.path)
      BY <1>2 DEF Filed, AtHome
    <2>2. i \in InAlbum(SlugOf(r.path))
      BY <2>1 DEF InAlbum
    <2>3. Known(rows, SlugOf(r.path)) = {rows[j].path : j \in InAlbum(SlugOf(r.path))}
      BY KnownRows
    <2> QED
      BY <1>4, <2>1, <2>2, <2>3
  <1>6. \A r \in N : disk'[r.path] = r.pic
    BY <1>4
  <1>7. \A q, r \in N : q.path = r.path => q = r
    BY <1>4
  <1>8. Grown(N)
    BY <1>3
  <1>9. \A i \in Live : disk'[Place(i)] = disk[Place(i)]
    BY <1>2
  <1>10. HeldInPlace' /\ Apart'
    BY <1>1, <1>5, <1>6, <1>7, <1>8, <1>9, KeptGrows
  <1> QED
    BY <1>1, <1>10 DEF NamesItsOwn, NamesItsPics

LEMMA KeptRestore ==
    ASSUME TypeOK, Filed, Kept, Restore
    PROVE  Kept'
PROOF
  <1>1. Grown(Restored)
    BY RestoreTypes
  <1>2. /\ Quiet /\ cmd' = cmd /\ del' = del /\ halted' = halted /\ astray' = astray
        /\ disk' = disk
    BY DEF Restore
  <1> QED
    BY <1>1, <1>2, KeptRestored

\* The placeholder is stored where the album has no row.
LEMMA KeptBoot ==
    ASSUME TypeOK, Filed, Kept, Boot
    PROVE  Kept'
PROOF
  <1>1. Grown(Restored)
    BY BootTypes
  <1>2. /\ Quiet /\ cmd' = cmd /\ del' = del /\ halted' = halted /\ astray' = astray
        /\ disk' = IF SeedMissing THEN [disk EXCEPT ![SeedPath] = Placeholder] ELSE disk
    BY DEF Boot
  <1>3. ASSUME SeedMissing, NEW i \in Live PROVE rows[i].path # SeedPath
    <2> SUFFICES ASSUME rows[i].path = SeedPath PROVE FALSE
      OBVIOUS
    <2>1. rows[i].album = SeedAlbum
      BY SeedPathFits DEF Filed, AtHome
    <2> QED
      BY <1>3, <2>1 DEF InAlbum, SeedMissing
  <1>4. \A i \in Live : disk'[rows[i].path] = disk[rows[i].path]
    BY <1>2, <1>3, RowTypes DEF TypeOK
  <1> QED
    BY <1>1, <1>2, <1>4, KeptRestored

\* What a visit changes.
LEMMA VisitMoves ==
    ASSUME TypeOK, Filed, RelayoutRow
    PROVE  \E i \in cmd.todo :
             /\ Visits(i) /\ Working /\ Working' /\ i \notin Locked /\ i \in DOMAIN cmd.seen
             /\ cmd.seen[i].path \in Paths /\ Wanted(i) \in Paths
             /\ KeyOf(Wanted(i)) = Key(cmd.owner[cmd.seen[i].album])
             /\ rows[i] # Nothing => i \in Live /\ cmd.seen[i] = rows[i]
             /\ cmd'.calm = cmd.calm /\ cmd'.seen = cmd.seen /\ cmd'.owner = cmd.owner
             /\ cmd'.todo = cmd.todo \ {i}
             /\ cmd'.staged = IF Due(i) /\ rows[i] # Nothing
                              THEN cmd.staged \cup {<<i, Wanted(i)>>} ELSE cmd.staged
             /\ \A j \in Live \ {i} : Place(j)' = Place(j)
             /\ Place(i)' = IF Due(i) /\ rows[i] # Nothing THEN Wanted(i) ELSE Place(i)
PROOF
  <1>1. Working
    BY RowVisited
  <1>2. PICK i \in cmd.todo :
          /\ Visits(i)
          /\ i \in DOMAIN cmd.seen /\ i \notin Locked
          /\ cmd.seen[i].path \in Paths /\ Wanted(i) \in Paths
          /\ KeyOf(Wanted(i)) = Key(cmd.owner[cmd.seen[i].album])
          /\ rows[i] # Nothing => i \in Live /\ cmd.seen[i] = rows[i]
    BY RowVisited, Zenon
  <1>3. PICK moved \in BOOLEAN : moved <=> Due(i) /\ rows[i] # Nothing
    OBVIOUS
  <1>4. PICK S, T, new : /\ S = cmd.staged /\ new = Wanted(i)
                         /\ T = IF moved THEN S \cup {<<i, new>>} ELSE S
    OBVIOUS
  <1>5. /\ cmd'.staged = T /\ cmd'.step = "move" /\ cmd'.calm = cmd.calm
        /\ cmd'.seen = cmd.seen /\ cmd'.owner = cmd.owner /\ cmd'.todo = cmd.todo \ {i}
    <2>1. cmd' = [cmd EXCEPT !.todo = cmd.todo \ {i}, !.staged = T]
      <3>1. T = IF Due(i) /\ rows[i] # Nothing
                THEN cmd.staged \cup {<<i, Wanted(i)>>} ELSE cmd.staged
        BY <1>3, <1>4
      <3> QED
        BY <1>2, <3>1 DEF Visits
    <2>2. cmd \in [step : {"move"}, seen : Seq(Row \cup {Nothing}),
                   owner : [Slugs -> Artists \cup {Nothing}], todo : SUBSET Ids,
                   staged : SUBSET (Ids \X Paths), calm : BOOLEAN]
      BY <1>1 DEF TypeOK, Relayout, Working
    <2> QED
      BY <2>1, <2>2
  <1>6. Working'
    BY <1>5, StepsDiffer DEF Working
  <1>7. /\ \A j : j \in Locked <=> \E m \in S : m[1] = j
        /\ \A j : j \in Locked' <=> \E m \in T : m[1] = j
    BY <1>1, <1>4, <1>5, <1>6 DEF Locked, Working
  <1>8. rows' = rows
    BY DEF RelayoutRow
  <1>9. \A m \in S : m[1] # i
    BY <1>2, <1>7
  <1>10. ASSUME NEW j, j # i PROVE Place(j)' = Place(j)
    <2>1. \A m \in T : m[1] = j => m \in S
      BY <1>4, <1>10
    <2>2. \A m \in S : m \in T
      BY <1>4
    <2>3. j \in Locked' <=> j \in Locked
      BY <1>7, <2>1, <2>2
    <2>4. (CHOOSE m \in T : m[1] = j) = (CHOOSE m \in S : m[1] = j)
      <3>1. \A m : m \in T /\ m[1] = j <=> m \in S /\ m[1] = j
        BY <2>1, <2>2
      <3> QED
        BY <3>1
    <2>5. CASE j \in Locked
      <3>1. Place(j) = (CHOOSE m \in S : m[1] = j)[2]
        BY <1>4, <2>5, Zenon DEF Place
      <3>2. Place(j)' = (CHOOSE m \in T : m[1] = j)[2]
        BY <1>5, <2>3, <2>5, Zenon DEF Place
      <3> QED
        BY <2>4, <3>1, <3>2
    <2>6. CASE j \notin Locked
      BY <1>8, <2>3, <2>6 DEF Place
    <2> QED
      BY <2>5, <2>6
  <1>11. Place(i)' = IF moved THEN new ELSE Place(i)
    <2>1. CASE moved
      <3>1. <<i, new>> \in T /\ \A m \in T : m \in S \/ m = <<i, new>>
        BY <1>4, <2>1
      <3>2. PICK n : n = <<i, new>>
        OBVIOUS
      <3>3. n[1] = i /\ n[2] = new /\ n \in T /\ \A m \in T : m[1] = i => m = n
        BY <1>9, <3>1, <3>2
      <3>4. i \in Locked'
        BY <1>7, <3>3
      <3>5. Place(i)' = (CHOOSE m \in T : m[1] = i)[2]
        BY <1>5, <3>4, Zenon DEF Place
      <3>6. (CHOOSE m \in T : m[1] = i) = n
        BY <3>3
      <3>7. Place(i)' = new
        BY <3>3, <3>5, <3>6
      <3> QED
        BY <2>1, <3>7, Zenon
    <2>2. CASE ~moved
      <3>1. i \notin Locked /\ i \notin Locked'
        BY <1>4, <1>7, <1>9, <2>2
      <3> QED
        BY <1>8, <2>2, <3>1 DEF Place
    <2> QED
      BY <2>1, <2>2
  <1> QED
    BY <1>1, <1>2, <1>3, <1>4, <1>5, <1>6, <1>10, <1>11

\* A relayout that is refused no move moves each row's file to its new place.
LEMMA KeptRelayoutRow ==
    ASSUME TypeOK, Filed, Unrest, Kept, RelayoutRow
    PROVE  Kept'
PROOF
  <1> SUFFICES ASSUME Sound' PROVE (HeldInPlace /\ Apart /\ NamesItsOwn /\ NamesItsPics)'
    BY DEF Kept
  <1>1. PICK i \in cmd.todo :
          /\ Visits(i) /\ Working /\ i \notin Locked
          /\ cmd.seen[i].path \in Paths /\ Wanted(i) \in Paths
          /\ rows[i] # Nothing => i \in Live /\ cmd.seen[i] = rows[i]
          /\ \A j \in Live \ {i} : Place(j)' = Place(j)
          /\ Place(i)' = IF Due(i) /\ rows[i] # Nothing THEN Wanted(i) ELSE Place(i)
    BY VisitMoves, Zenon
  <1>2. rows' = rows /\ del' = del /\ halted' = halted /\ Live' = Live
    BY DEF RelayoutRow, Live
  <1>3. astray' <=> astray \/ (Due(i) /\ (disk[Wanted(i)] # Nothing \/ rows[i] = Nothing))
    BY <1>1, Zenon DEF Visits
  <1>4. HeldInPlace /\ Apart
    BY <1>2, <1>3 DEF Kept, Sound
  <1>5. HeldInPlace' /\ Apart'
    <2>1. CASE ~Due(i)
      <3>1. disk' = disk /\ \A j \in Live : Place(j)' = Place(j)
        BY <1>1, <2>1 DEF Visits
      <3> QED
        BY <1>2, <1>4, <3>1 DEF HeldInPlace, Apart
    <2>2. CASE Due(i)
      <3>1. disk[Wanted(i)] = Nothing /\ rows[i] # Nothing
        BY <1>3, <2>2 DEF Sound
      <3>2. PICK old \in Paths, new \in Paths : old = cmd.seen[i].path /\ new = Wanted(i)
        BY <1>1
      <3>3. i \in Live /\ Place(i) = old /\ Place(i)' = new /\ old # new
        BY <1>1, <2>2, <3>1, <3>2 DEF Place, Due
      <3>4. disk[old] # Nothing /\ disk[new] = Nothing
        BY <2>2, <3>1, <3>2 DEF Due
      <3>5. disk' = [disk EXCEPT ![new] = disk[old], ![old] = Nothing]
        BY <1>1, <2>2, <3>2, <3>4 DEF Visits, MoveFile
      <3>6. /\ disk'[new] = disk[old]
            /\ \A x \in Paths : x # old /\ x # new => disk'[x] = disk[x]
        BY <3>3, <3>5 DEF TypeOK
      <3>7. ASSUME NEW j \in Live, j # i
            PROVE  /\ Place(j)' = Place(j) /\ Place(j) # new
                   /\ disk'[Place(j)] = rows[j].pic
        <4>1. Place(j)' = Place(j)
          BY <1>1, <3>7
        <4>2. Place(j) # old
          BY <1>4, <3>3, <3>7 DEF Apart
        <4>3. disk[Place(j)] = rows[j].pic /\ rows[j].pic # Nothing
          BY <1>4, RowTypes, ContentsDiffer DEF HeldInPlace, Bytes
        <4>4. Place(j) # new
          BY <3>4, <4>3
        <4> QED
          BY <3>6, <4>1, <4>2, <4>3, <4>4, PlaceFits
      <3>8. \A j \in Live : (disk[Place(j)])' = rows'[j].pic
        BY <1>2, <1>4, <3>3, <3>6, <3>7 DEF HeldInPlace
      <3>9. \A j, k \in Live : Place(j)' = Place(k)' => j = k
        BY <1>4, <3>3, <3>7 DEF Apart
      <3> QED
        BY <1>2, <3>8, <3>9 DEF HeldInPlace, Apart
    <2> QED
      BY <2>1, <2>2
  <1> QED
    BY <1>1, <1>2, <1>5 DEF Unrest, NamesItsOwn, NamesItsPics

LEMMA KeptStep == TypeOK /\ Filed /\ Unrest /\ Kept /\ [Next]_vars => Kept'
PROOF
  <1> SUFFICES ASSUME TypeOK, Filed, Unrest, Kept, [Next]_vars PROVE Kept'
    OBVIOUS
  <1>1. ASSUME NEW a \in Artists,
               \/ SignUp(a) \/ SaveProfile(a) \/ DeleteArtist(a)
               \/ \E s \in Slugs : CreateAlbum(a, s)
        PROVE  Kept'
    BY <1>1, KeptApi, KeptDeleteArtist
  <1>2. ASSUME NEW s \in Slugs, NEW stem \in Stems, NEW pic \in Pics, Upload(s, stem, pic)
        PROVE  Kept'
    BY <1>2, KeptUpload
  <1>3. ASSUME NEW i \in Live, DeleteRead(Nothing, {i}) PROVE Kept'
    BY <1>3, DeletesAsked, KeptRead
  <1>4. ASSUME NEW s \in Slugs, DeleteRead(s, InAlbum(s)) PROVE Kept'
    BY <1>4, DeletesAsked, KeptRead
  <1>5. CASE DeleteCommit \/ DeleteUnlink \/ DeleteDies
    BY <1>5, KeptCommit, KeptUnlink, KeptDies
  <1>6. CASE Api
    BY <1>1, <1>2, <1>3, <1>4, <1>5, <1>6 DEF Api
  <1>7. CASE RelayoutMedia
    BY <1>7, KeptRelayoutRead, KeptRelayoutRow, KeptRelayoutCommit, KeptRelayoutDies
       DEF RelayoutMedia
  <1>8. ASSUME NEW a \in Artists, NEW s \in Slugs, NEW stem \in Stems, NEW pic \in Pics,
               Import(a, s, stem, pic)
        PROVE  Kept'
    BY <1>8, KeptImport
  <1>9. CASE Commands
    BY <1>8, <1>9, KeptRestore, KeptPrune, KeptReset, KeptBoot DEF Commands
  <1>10. CASE UNCHANGED vars
    <2>1. Live' = Live /\ SameWork /\ rows' = rows /\ disk' = disk /\ del' = del
          /\ halted' = halted /\ astray' = astray
      BY <1>10, WorkUnchanged DEF vars, Live
    <2>2. Sound => HeldInPlace' /\ Apart'
      BY <2>1, NoneThinned, KeptThins DEF Kept
    <2> QED
      BY <2>1, <2>2 DEF Kept, Sound, NamesItsOwn, NamesItsPics
  <1> QED
    BY <1>6, <1>7, <1>9, <1>10 DEF Next

LEMMA KeptAlways == Spec => []Kept
PROOF
  <1>1. Init => Kept
    BY DEF Init, Live, Kept, HeldInPlace, Apart, NamesItsOwn, NamesItsPics
  <1> QED
    BY <1>1, KeptStep, TypeCorrect, FiledAlways, UnrestAlways, PTL DEF Spec

\* Every row shows the picture it was made for, through profiles saved, resets,
\* restores, boots, sweeps and relayouts - but for rows a relayout has updated
\* and not committed, and unless one was stopped half-way or went astray.
THEOREM PicturesKept == Spec => []RowsKeepPictures
PROOF
  <1>1. TypeOK /\ Filed /\ Kept => RowsKeepPictures
    <2> SUFFICES ASSUME TypeOK, Filed, Kept, Sound, NEW i \in Live \ Locked
                 PROVE  disk[rows[i].path] = rows[i].pic
      BY DEF RowsKeepPictures, Sound
    <2>1. Place(i) = rows[i].path
      BY PlaceFits
    <2> QED
      BY <2>1 DEF Kept, HeldInPlace
  <1> QED
    BY <1>1, TypeCorrect, FiledAlways, KeptAlways, PTL

-----------------------------------------------------------------------------
(* Restores and boots.                                                     *)

\* A restored tree has a row for each file of a known artist.
AllKnown ==
    last \in {"restore", "boot"} =>
        \A x \in Found(users, disk) : x \in Known(rows, SlugOf(x))

\* A boot leaves the seeded artist, the album and its placeholder's row.
Booted ==
    last = "boot" => /\ Seeded \in users /\ Seeded \in profiled
                     /\ albums[SeedAlbum] = Seeded /\ ~SeedMissing

LEMMA RestoredKnown ==
    ASSUME Grown(Restored)
    PROVE  \A x \in Found(users', disk') : x \in Known(rows', SlugOf(x))
PROOF
  <1> SUFFICES ASSUME NEW x \in Found(users', disk') PROVE x \in Known(rows', SlugOf(x))
    OBVIOUS
  <1>1. CASE x \in Known(rows, SlugOf(x))
    <2>1. PICK i \in Live : rows[i].path = x /\ rows[i].album = SlugOf(x)
      BY <1>1 DEF Known, Live
    <2>2. i \in Live' /\ rows'[i] = rows[i]
      BY DEF Grown
    <2> QED
      BY <2>1, <2>2 DEF Known, Live
  <1>2. CASE x \notin Known(rows, SlugOf(x))
    <2>1. PICK r \in Restored : r = [album |-> SlugOf(x), path |-> x, pic |-> disk'[x]]
      BY <1>2 DEF Restored, ToRestore
    <2>2. PICK i \in Live' : rows'[i] = r
      BY DEF Grown
    <2>3. rows'[i].path = x /\ rows'[i].album = SlugOf(x)
      BY <2>1, <2>2
    <2> QED
      BY <2>3 DEF Known, Live
  <1> QED
    BY <1>1, <1>2

\* A command that is not restore_media or the boot records nothing.
LEMMA CommandsRecord == Commands => Restore \/ Boot \/ last' = "none"
PROOF
  <1>1. PruneMedia => last' = "none"
    BY DEF PruneMedia
  <1>2. ResetDb => last' = "none"
    BY DEF ResetDb
  <1>3. ASSUME NEW a \in Artists, NEW s \in Slugs, NEW stem \in Stems, NEW pic \in Pics,
               Import(a, s, stem, pic)
        PROVE  last' = "none"
    BY <1>3 DEF Import, AddPhoto
  <1> QED
    BY <1>1, <1>2, <1>3 DEF Commands

\* Whatever else takes a step starts from "none", or ends with it.
LEMMA OnlyThese ==
    ASSUME TypeOK, Filed, Unrest, [Next]_vars
    PROVE  \/ last' \notin {"restore", "boot"}
           \/ Restore \/ Boot
           \/ UNCHANGED vars
PROOF
  <1>1. CASE UNCHANGED vars
    BY <1>1
  <1>2. CASE Api
    <2>1. CASE DeleteCommit \/ DeleteUnlink \/ DeleteDies
      <3>1. del # Idle /\ last' = last
        BY <2>1, StepsDiffer DEF DeleteCommit, DeleteUnlink, DeleteDies
      <3> QED
        BY <3>1 DEF Unrest, Quiet
    <2>2. CASE ~(DeleteCommit \/ DeleteUnlink \/ DeleteDies)
      <3>1. last' = "none"
        BY <1>2, <2>2 DEF Api, SignUp, SaveProfile, DeleteArtist, CreateAlbum, Upload,
             AddPhoto, DeleteRead
      <3> QED
        BY <3>1
    <2> QED
      BY <2>1, <2>2
  <1>3. CASE RelayoutMedia
    <2>1. CASE RelayoutRead \/ RelayoutCommit
      BY <2>1 DEF RelayoutRead, RelayoutCommit
    <2>2. CASE RelayoutRow \/ RelayoutDies
      <3>1. Working /\ last' = last
        BY <2>2, StepsDiffer DEF RelayoutRow, RelayoutDies, Working
      <3> QED
        BY <3>1 DEF Unrest, Quiet, Working
    <2> QED
      BY <1>3, <2>1, <2>2 DEF RelayoutMedia
  <1>4. CASE Commands
    BY <1>4, CommandsRecord
  <1> QED
    BY <1>1, <1>2, <1>3, <1>4 DEF Next

LEMMA AllKnownStep == TypeOK /\ Filed /\ Unrest /\ AllKnown /\ [Next]_vars => AllKnown'
PROOF
  <1> SUFFICES ASSUME TypeOK, Filed, Unrest, AllKnown, [Next]_vars PROVE AllKnown'
    OBVIOUS
  <1>1. CASE Restore \/ Boot
    <2>1. Grown(Restored)
      BY <1>1, RestoreTypes, BootTypes
    <2> QED
      BY <2>1, RestoredKnown DEF AllKnown
  <1>2. CASE UNCHANGED vars
    BY <1>2 DEF vars, AllKnown
  <1> QED
    BY <1>1, <1>2, OnlyThese DEF AllKnown

\* A boot that finds no row for the placeholder stores it, and restores its row.
LEMMA BootSeeds ==
    ASSUME TypeOK, Filed, Boot
    PROVE  /\ Seeded \in users' /\ Seeded \in profiled' /\ albums'[SeedAlbum] = Seeded
           /\ ~SeedMissing'
PROOF
  <1>1. Grown(Restored) /\ albums'[SeedAlbum] = Seeded
    BY BootTypes, BootGrows
  <1>2. /\ users' = users \cup {Seeded} /\ profiled' = profiled \cup {Seeded}
        /\ disk' = IF SeedMissing THEN [disk EXCEPT ![SeedPath] = Placeholder] ELSE disk
    BY DEF Boot
  <1>3. \E i \in Live' : rows'[i].path = SeedPath /\ rows'[i].album = SeedAlbum
    <2>1. CASE SeedMissing
      <3>1. SeedPath \in Found(users', disk')
        BY <1>2, <2>1, SeedPathFits, ContentsDiffer DEF Found, TypeOK
      <3>2. SeedPath \in Known(rows', SeedAlbum)
        BY <1>1, <3>1, RestoredKnown, SeedPathFits
      <3> QED
        BY <3>2 DEF Known, Live
    <2>2. CASE ~SeedMissing
      <3>1. PICK i \in Live : rows[i].path = SeedPath /\ rows[i].album = SeedAlbum
        BY <2>2 DEF SeedMissing, InAlbum
      <3>2. i \in Live' /\ rows'[i] = rows[i]
        BY <1>1 DEF Grown
      <3> QED
        BY <3>1, <3>2
    <2> QED
      BY <2>1, <2>2
  <1>4. ~SeedMissing'
    BY <1>3 DEF SeedMissing, InAlbum
  <1> QED
    BY <1>1, <1>2, <1>4

LEMMA BootedStep == TypeOK /\ Filed /\ Unrest /\ Booted /\ [Next]_vars => Booted'
PROOF
  <1> SUFFICES ASSUME TypeOK, Filed, Unrest, Booted, [Next]_vars PROVE Booted'
    OBVIOUS
  <1>1. CASE Boot
    BY <1>1, BootSeeds DEF Booted
  <1>2. CASE Restore
    BY <1>2 DEF Restore, Booted
  <1>3. CASE UNCHANGED vars
    BY <1>3 DEF vars, Booted, SeedMissing, InAlbum, Live
  <1> QED
    BY <1>1, <1>2, <1>3, OnlyThese DEF Booted

LEMMA RestoredAlways == Spec => [](AllKnown /\ Booted)
PROOF
  <1>1. Init => AllKnown /\ Booted
    BY DEF Init, AllKnown, Booted
  <1> QED
    BY <1>1, AllKnownStep, BootedStep, TypeCorrect, FiledAlways, UnrestAlways, PTL DEF Spec

\* test_restore.py:125: a restored tree has one row for each file of a known
\* artist, never two, whatever its name, unless a relayout was stopped or astray.
THEOREM OneRowEach == Spec => []RestoredOnce
PROOF
  <1>1. TypeOK /\ Filed /\ Unrest /\ Kept /\ AllKnown => RestoredOnce
    <2> SUFFICES ASSUME TypeOK, Filed, Unrest, Kept, AllKnown, Sound,
                        last \in {"restore", "boot"}, NEW x \in Paths,
                        disk[x] # Nothing, KeyOf(x)[1] \in users
                 PROVE  Cardinality({i \in Live : /\ rows[i].path = x
                                                  /\ rows[i].album = SlugOf(x)}) = 1
      BY DEF RestoredOnce, Sound
    <2>1. x \in Known(rows, SlugOf(x))
      BY DEF AllKnown, Found
    <2>2. PICK i \in Live : rows[i].path = x /\ rows[i].album = SlugOf(x)
      BY <2>1 DEF Known, Live
    <2>3. ~Working
      BY DEF Unrest, Quiet, Working
    <2>4. \A j \in Live : Place(j) = rows[j].path
      BY <2>3, PlaceAtRest
    <2>5. \A j \in Live : rows[j].path = x => j = i
      BY <2>2, <2>4 DEF Kept, Apart
    <2>6. {j \in Live : rows[j].path = x /\ rows[j].album = SlugOf(x)} = {i}
      BY <2>2, <2>5
    <2> QED
      BY <2>6, FS_Singleton
  <1> QED
    BY <1>1, TypeCorrect, FiledAlways, UnrestAlways, KeptAlways, RestoredAlways, PTL

\* seeds.py:557: a boot after a boot finds its placeholder, its album and a row for
\* every file, and changes nothing.
THEOREM SecondBootIdles == Spec => BootSettles
PROOF
  <1>1. ASSUME TypeOK, Filed, AllKnown, Booted, last = "boot", Boot
        PROVE  UNCHANGED <<users, profiled, albums, rows, disk>>
    <2>1. /\ users' = users /\ profiled' = profiled /\ disk' = disk
          /\ RestoreOver([albums EXCEPT ![SeedAlbum] = Seeded], rows, users, disk)
      BY <1>1 DEF Boot, Booted
    <2>2. [albums EXCEPT ![SeedAlbum] = Seeded] = albums
      BY <1>1 DEF Booted, TypeOK
    <2>3. RestoreOver(albums, rows, users, disk)
      BY <2>1, <2>2
    <2>4. ToRestore(rows, users, disk) = {}
      BY <1>1 DEF AllKnown, ToRestore
    <2>5. SetToSeq({}) = << >>
      <3>1. SetToSeq({}) \in Seq({}) /\ Len(SetToSeq({})) = 0
        BY FS_EmptySet, AsSequence
      <3> QED
        BY <3>1, EmptySeq
    <2>6. rows' = rows
      <3>1. rows' = rows \o << >>
        BY <2>3, <2>4, <2>5 DEF RestoreOver
      <3>2. rows \in Seq(Row \cup {Nothing})
        BY <1>1 DEF TypeOK
      <3> QED
        BY <3>1, <3>2, ConcatEmptySeq
    <2>7. albums' = albums
      <3>1. ASSUME NEW x \in Found(users, disk) PROVE albums[SlugOf(x)] # Nothing
        <4>1. PICK i \in Live : rows[i].album = SlugOf(x)
          BY <1>1, <3>1 DEF AllKnown, Known, Live
        <4> QED
          BY <1>1, <4>1 DEF Filed, AtHome
      <3>2. \A s \in Slugs : albums[s] = Nothing =>
              {KeyOf(x)[1] : x \in {y \in Found(users, disk) : SlugOf(y) = s}} = {}
        BY <3>1
      <3>3. albums' = [s \in Slugs |-> albums[s]]
        BY <2>3, <3>2 DEF RestoreOver, AlbumsRestored
      <3> QED
        BY <1>1, <3>3 DEF TypeOK
    <2> QED
      BY <2>1, <2>6, <2>7
  <1>2. TypeOK /\ Filed /\ AllKnown /\ Booted /\ [Next]_vars =>
          [(last = "boot" /\ Boot) =>
             UNCHANGED <<users, profiled, albums, rows, disk>>]_vars
    BY <1>1
  <1>3. []TypeOK /\ []Filed /\ [](AllKnown /\ Booted) /\ [][Next]_vars => BootSettles
    BY <1>2, PTL DEF BootSettles
  <1> QED
    BY <1>3, TypeCorrect, FiledAlways, RestoredAlways, PTL DEF Spec

-----------------------------------------------------------------------------
(* Deletes.                                                                *)

\* A delete that ends takes its uploaded pictures off the disk, unless a
\* relayout was at work since it read the names.
THEOREM DeletedFilesGo == Spec => DeleteTakesFiles
PROOF
  <1>1. ASSUME TypeOK, Drawn, Kept, DeleteUnlink, ~del.crossed, Sound, NEW x \in Paths
        PROVE  disk'[x] \notin del.pics \cap Pics
    <2> SUFFICES ASSUME disk'[x] \in del.pics, disk'[x] \in Pics PROVE FALSE
      OBVIOUS
    <2>1. del # Idle /\ disk' = [y \in Paths |-> IF y \in del.paths THEN Nothing ELSE disk[y]]
      BY <1>1, StepsDiffer DEF DeleteUnlink
    <2>2. disk'[x] = disk[x] /\ x \notin del.paths
      BY <2>1, ContentsDiffer
    <2>3. PICK y \in del.paths : disk[y] = disk[x]
      BY <1>1, <2>1, <2>2 DEF Kept, NamesItsPics
    <2>4. y \in Paths
      BY <1>1, <2>1, DelTypes DEF TypeOK
    <2>5. y = x
      BY <1>1, <2>2, <2>3, <2>4 DEF Drawn
    <2> QED
      BY <2>2, <2>5
  <1>2. TypeOK /\ Drawn /\ Kept /\ [Next]_vars =>
          [(DeleteUnlink /\ ~del.crossed /\ ~halted /\ ~astray) =>
             \A x \in Paths : disk'[x] \notin del.pics \cap Pics]_vars
    BY <1>1 DEF Sound
  <1>3. []TypeOK /\ []Drawn /\ []Kept /\ [][Next]_vars => DeleteTakesFiles
    BY <1>2, PTL DEF DeleteTakesFiles
  <1> QED
    BY <1>3, TypeCorrect, DrawnAlways, KeptAlways, PTL DEF Spec

-----------------------------------------------------------------------------
(* A relayout that ends has every row it found where it belongs, and the    *)
(* rows made meanwhile were put there.                                      *)

\* The key of the artist whose album row `i' is in.
OwnKey(i) == Key(albums[rows[i].album])

InPlace(i) == KeyOf(Place(i)) = OwnKey(i) \/ disk[Place(i)] = Nothing

Placed ==
    Working /\ cmd.calm =>
        \A i \in Live : /\ i \notin DOMAIN cmd.seen => KeyOf(rows[i].path) = OwnKey(i)
                        /\ i \in DOMAIN cmd.seen \ cmd.todo => InPlace(i)

\* A row that stays in place, with its album and its artist, still belongs there.
LEMMA PlacedStays ==
    ASSUME SameWork, Placed, Working, cmd'.calm = cmd.calm,
           \A i \in Live' \cap Live :
             /\ rows'[i] = rows[i] /\ OwnKey(i)' = OwnKey(i)
             /\ disk'[Place(i)] \in {disk[Place(i)], Nothing},
           \A i \in Live' \ Live : /\ i \notin DOMAIN cmd.seen
                                   /\ KeyOf(rows'[i].path) = OwnKey(i)'
    PROVE  Placed'
PROOF
  <1> SUFFICES ASSUME cmd'.calm, NEW i \in Live'
               PROVE  /\ i \notin DOMAIN cmd'.seen => KeyOf(rows'[i].path) = OwnKey(i)'
                      /\ i \in DOMAIN cmd'.seen \ cmd'.todo => InPlace(i)'
    BY DEF Placed
  <1>1. cmd'.seen = cmd.seen /\ cmd'.todo = cmd.todo
    BY DEF SameWork
  <1>2. CASE i \in Live
    <2>1. Place(i)' = Place(i)
      BY <1>2, PlaceStays
    <2>2. /\ i \notin DOMAIN cmd.seen => KeyOf(rows[i].path) = OwnKey(i)
          /\ i \in DOMAIN cmd.seen \ cmd.todo => InPlace(i)
      BY <1>2 DEF Placed
    <2>3. /\ rows'[i] = rows[i] /\ OwnKey(i)' = OwnKey(i)
          /\ disk'[Place(i)] \in {disk[Place(i)], Nothing}
      BY <1>2
    <2>4. InPlace(i)' <=> KeyOf(Place(i)) = OwnKey(i) \/ disk'[Place(i)] = Nothing
      BY <2>1, <2>3 DEF InPlace
    <2> QED
      BY <1>1, <2>2, <2>3, <2>4 DEF InPlace
  <1>3. CASE i \notin Live
    BY <1>1, <1>3
  <1> QED
    BY <1>2, <1>3

LEMMA PlacedApi ==
    ASSUME TypeOK, Filed, Placed, Working, NEW a \in Artists,
           \/ SignUp(a) \/ SaveProfile(a) \/ DeleteArtist(a)
           \/ \E s \in Slugs : CreateAlbum(a, s)
    PROVE  Placed'
PROOF
  <1>1. CASE SaveProfile(a)
    BY <1>1 DEF SaveProfile, Placed, Working
  <1>2. CASE SignUp(a) \/ \E s \in Slugs : CreateAlbum(a, s)
    <2>1. /\ rows' = rows /\ disk' = disk /\ profiled' = profiled /\ cmd' = cmd
          /\ Live' = Live
      BY <1>2 DEF SignUp, CreateAlbum, Live
    <2>2. \A i \in Live : albums'[rows[i].album] = albums[rows[i].album]
      BY <1>2, RowTypes DEF SignUp, CreateAlbum, TypeOK, Filed, AtHome
    <2>3. \A i \in Live : OwnKey(i)' = OwnKey(i)
      BY <2>1, <2>2 DEF OwnKey, Key
    <2> QED
      BY <2>1, <2>3, WorkUnchanged, PlacedStays
  <1>3. CASE DeleteArtist(a)
    <2>1. /\ Thinned(OwnRows(a)) /\ SameWork
          /\ \A i \in Live \ OwnRows(a) : albums'[rows[i].album] = albums[rows[i].album]
      BY <1>3, DeleteArtistThins
    <2>2. disk' = disk /\ cmd' = cmd /\ profiled' = profiled \ {a}
      BY <1>3 DEF DeleteArtist
    <2>3. \A i \in Live' : i \in Live \ OwnRows(a) /\ rows'[i] = rows[i]
      BY <2>1 DEF Thinned
    <2>4. ASSUME NEW i \in Live' PROVE OwnKey(i)' = OwnKey(i)
      <3>1. PICK b : b = albums[rows[i].album] /\ b = albums'[rows'[i].album]
        BY <2>1, <2>3
      <3>2. b # a
        BY <2>3, <3>1 DEF OwnRows
      <3>3. b \in profiled' <=> b \in profiled
        BY <2>2, <3>2
      <3>4. OwnKey(i) = <<b, b \in profiled>> /\ OwnKey(i)' = <<b, b \in profiled'>>
        BY <3>1, Zenon DEF OwnKey, Key
      <3>5. (b \in profiled') = (b \in profiled)
        BY <3>3
      <3> QED
        BY <3>4, <3>5
    <2> QED
      BY <2>1, <2>2, <2>3, <2>4, PlacedStays
  <1> QED
    BY <1>1, <1>2, <1>3

LEMMA PlacedUpload ==
    ASSUME TypeOK, Filed, Placed, Working, NEW s \in Slugs, NEW stem \in Stems,
           NEW pic \in Pics, Upload(s, stem, pic)
    PROVE  Placed'
PROOF
  <1>1. SameWork
    BY WorkUnchanged DEF Upload
  <1>2. PICK committed \in BOOLEAN : AddPhoto(s, <<Key(albums[s]), s, stem>>, pic, committed)
    BY DEF Upload
  <1>3. /\ albums[s] \in Artists /\ albums[s] # Nothing /\ albums' = albums
        /\ stem \notin UsedStems(s) /\ Len(rows) < MaxRows
        /\ profiled' = profiled /\ cmd' = cmd
    BY DEF Upload, TypeOK
  <1>4. PICK x, N : x = <<Key(albums[s]), s, stem>> /\ N = Made(s, x, pic, committed)
    OBVIOUS
  <1>5. Grown(N)
    BY <1>1, <1>2, <1>3, <1>4, AddPhotoTypes
  <1>6. x \in Paths /\ KeyOf(x) = Key(albums[s]) /\ \A i \in Live : Place(i) # x
    BY <1>3, <1>4, KeyTypes, PathMade, FreeStem
  <1>7. \A i \in Live : disk'[Place(i)] = disk[Place(i)]
    BY <1>2, <1>4, <1>6, PlaceFits DEF AddPhoto, TypeOK
  <1>8. \A i \in Live : rows'[i] = rows[i] /\ OwnKey(i)' = OwnKey(i)
    BY <1>3, <1>5 DEF Grown, OwnKey, Key
  <1>9. ASSUME NEW i \in Live' \ Live
        PROVE  i \notin DOMAIN cmd.seen /\ KeyOf(rows'[i].path) = OwnKey(i)'
    <2>1. rows'[i] \in N /\ i \notin DOMAIN rows
      BY <1>5 DEF Grown
    <2>2. rows'[i].path = x /\ rows'[i].album = s
      BY <1>4, <2>1 DEF Made
    <2>3. i \notin DOMAIN cmd.seen
      BY <2>1 DEF Filed, Underway, FoundIsCurrent
    <2> QED
      BY <1>3, <1>6, <2>2, <2>3 DEF OwnKey, Key
  <1> QED
    BY <1>1, <1>3, <1>7, <1>8, <1>9, PlacedStays

LEMMA PlacedDelete ==
    ASSUME TypeOK, Filed, Placed, Working,
           \/ \E album, ids : DeleteRead(album, ids)
           \/ DeleteCommit \/ DeleteUnlink \/ DeleteDies
    PROVE  Placed'
PROOF
  <1>1. cmd' = cmd /\ profiled' = profiled
    BY DEF DeleteRead, DeleteCommit, DeleteUnlink, DeleteDies
  <1>2. CASE DeleteCommit
    <2>1. /\ Thinned(Gone)
          /\ \A i \in Live \ Gone : albums'[rows[i].album] = albums[rows[i].album]
      BY <1>2, DeleteCommitThins
    <2>2. disk' = disk
      BY <1>2 DEF DeleteCommit
    <2>3. \A i \in Live' : i \in Live \ Gone /\ rows'[i] = rows[i]
      BY <2>1 DEF Thinned
    <2>4. \A i \in Live' : OwnKey(i)' = OwnKey(i)
      BY <1>1, <2>1, <2>3 DEF OwnKey, Key
    <2> QED
      BY <1>1, <2>2, <2>3, <2>4, WorkUnchanged, PlacedStays
  <1>3. CASE ~DeleteCommit
    <2>1. rows' = rows /\ albums' = albums /\ Live' = Live
      BY <1>3 DEF DeleteRead, DeleteUnlink, DeleteDies, Live
    <2>2. \A x \in Paths : disk'[x] \in {disk[x], Nothing}
      BY <1>3 DEF DeleteRead, DeleteUnlink, DeleteDies
    <2>3. \A i \in Live : OwnKey(i)' = OwnKey(i) /\ Place(i) \in Paths
      BY <1>1, <2>1, PlaceFits DEF OwnKey, Key
    <2> QED
      BY <1>1, <2>1, <2>2, <2>3, WorkUnchanged, PlacedStays
  <1> QED
    BY <1>2, <1>3

\* A file moved to where a row's has gone missing is under that row's key, too.
LEMMA PlacedRow ==
    ASSUME TypeOK, Filed, Placed, RelayoutRow
    PROVE  Placed'
PROOF
  <1>1. PICK i \in cmd.todo :
          /\ Visits(i) /\ Working /\ i \notin Locked /\ i \in DOMAIN cmd.seen
          /\ cmd.seen[i].path \in Paths /\ Wanted(i) \in Paths
          /\ KeyOf(Wanted(i)) = Key(cmd.owner[cmd.seen[i].album])
          /\ rows[i] # Nothing => i \in Live /\ cmd.seen[i] = rows[i]
          /\ cmd'.calm = cmd.calm /\ cmd'.seen = cmd.seen /\ cmd'.todo = cmd.todo \ {i}
          /\ \A j \in Live \ {i} : Place(j)' = Place(j)
          /\ Place(i)' = IF Due(i) /\ rows[i] # Nothing THEN Wanted(i) ELSE Place(i)
    BY VisitMoves, Zenon
  <1>2. rows' = rows /\ albums' = albums /\ profiled' = profiled /\ Live' = Live
    BY DEF RelayoutRow, Live
  <1>3. \A j \in Live : OwnKey(j)' = OwnKey(j)
    BY <1>2 DEF OwnKey, Key
  <1>4. FoundIsCurrent
    BY <1>1 DEF Filed, Underway
  <1>5. PICK old \in Paths, new \in Paths : old = cmd.seen[i].path /\ new = Wanted(i)
    BY <1>1
  <1>6. SlugOf(new) = cmd.seen[i].album
    <2>1. SlugOf(Wanted(i)) = cmd.seen[i].album
      BY DEF Wanted, SlugOf
    <2> QED
      BY <1>5, <2>1
  <1>7. \A x \in Paths : x # new => disk'[x] \in {disk[x], Nothing}
    <2>1. disk' = disk \/ disk' = [disk EXCEPT ![new] = disk[old], ![old] = Nothing]
      BY <1>1, <1>5 DEF Visits, MoveFile
    <2> QED
      BY <2>1 DEF TypeOK
  <1>8. ASSUME NEW j \in Live \ {i}, j \in DOMAIN cmd.seen, InPlace(j)
        PROVE  InPlace(j)'
    <2>1. CASE Place(j) = new
      <3>1. rows[j].album = cmd.seen[i].album
        BY <1>6, <2>1, PlaceFits
      <3>2. albums[rows[j].album] = cmd.owner[rows[j].album]
        BY <1>4, <1>8 DEF FoundIsCurrent
      <3>3. KeyOf(Place(j)) = OwnKey(j)
        BY <1>1, <1>5, <2>1, <3>1, <3>2 DEF OwnKey
      <3> QED
        BY <1>1, <1>3, <3>3 DEF InPlace
    <2>2. CASE Place(j) # new
      <3>1. disk'[Place(j)] \in {disk[Place(j)], Nothing} /\ Place(j)' = Place(j)
        BY <1>1, <1>7, <2>2, PlaceFits
      <3> QED
        BY <1>3, <1>8, <3>1 DEF InPlace
    <2> QED
      BY <2>1, <2>2
  <1>9. ASSUME i \in Live PROVE InPlace(i)'
    <2>1. rows[i] # Nothing /\ cmd.seen[i] = rows[i]
      BY <1>1, <1>9 DEF Live
    <2>2. KeyOf(new) = OwnKey(i)
      BY <1>1, <1>4, <1>5, <1>9, <2>1 DEF FoundIsCurrent, OwnKey
    <2>3. CASE Due(i)
      BY <1>1, <1>3, <1>5, <1>9, <2>1, <2>2, <2>3 DEF InPlace
    <2>4. CASE ~Due(i)
      <3>1. Place(i)' = old /\ disk' = disk
        BY <1>1, <1>5, <2>1, <2>4 DEF Visits, Place
      <3> QED
        BY <1>3, <1>5, <1>9, <2>2, <2>4, <3>1 DEF Due, InPlace
    <2> QED
      BY <2>3, <2>4
  <1> QED
    BY <1>1, <1>2, <1>3, <1>8, <1>9 DEF Placed

LEMMA PlacedStep == TypeOK /\ Filed /\ Placed /\ [Next]_vars => Placed'
PROOF
  <1> SUFFICES ASSUME TypeOK, Filed, Placed, [Next]_vars PROVE Placed'
    OBVIOUS
  <1>1. CASE UNCHANGED vars
    <2>1. /\ Live' = Live /\ Locked' = Locked /\ rows' = rows /\ albums' = albums
          /\ profiled' = profiled /\ cmd' = cmd /\ disk' = disk
      BY <1>1 DEF vars, Live, Locked
    <2> QED
      BY <2>1 DEF Placed, InPlace, OwnKey, Key, Place, Working
  <1>2. CASE Api
    <2>1. CASE Working
      <3>1. ASSUME NEW a \in Artists,
                   \/ SignUp(a) \/ SaveProfile(a) \/ DeleteArtist(a)
                   \/ \E s \in Slugs : CreateAlbum(a, s)
            PROVE  Placed'
        BY <2>1, <3>1, PlacedApi
      <3>2. ASSUME NEW s \in Slugs, NEW stem \in Stems, NEW pic \in Pics,
                   Upload(s, stem, pic)
            PROVE  Placed'
        BY <2>1, <3>2, PlacedUpload
      <3>3. CASE \/ \E album, ids : DeleteRead(album, ids)
                 \/ DeleteCommit \/ DeleteUnlink \/ DeleteDies
        BY <2>1, <3>3, PlacedDelete
      <3> QED
        BY <1>2, <3>1, <3>2, <3>3 DEF Api
    <2>2. CASE ~Working
      <3>1. cmd' = Idle
        BY <1>2, <2>2 DEF Api, SignUp, SaveProfile, DeleteArtist, CreateAlbum, Upload,
             DeleteRead, DeleteCommit, DeleteUnlink, DeleteDies, Working
      <3> QED
        BY <3>1 DEF Placed, Working
    <2> QED
      BY <2>1, <2>2
  <1>3. CASE RelayoutRead
    <2>1. /\ cmd'.seen = rows /\ cmd'.todo = Live /\ rows' = rows /\ Live' = Live
      BY <1>3 DEF RelayoutRead, Live
    <2>2. Live \subseteq DOMAIN rows
      BY DEF Live
    <2> QED
      BY <2>1, <2>2 DEF Placed
  <1>4. CASE RelayoutRow
    BY <1>4, PlacedRow
  <1>5. CASE RelayoutCommit \/ RelayoutDies \/ Commands
    <2>1. cmd' = Idle
      BY <1>5 DEF RelayoutCommit, RelayoutDies, Commands, Restore, PruneMedia, ResetDb,
           Boot, Import, Quiet
    <2> QED
      BY <2>1 DEF Placed, Working
  <1> QED
    BY <1>1, <1>2, <1>3, <1>4, <1>5 DEF Next, RelayoutMedia

\* A commit leaves every row in place.
LEMMA CommitSettles ==
    ASSUME TypeOK, Filed, Placed, RelayoutCommit, cmd.calm
    PROVE  \A i \in Live' : LET x == rows'[i].path
                                a == albums'[rows'[i].album]
                            IN  KeyOf(x) = <<a, a \in profiled'>> \/ disk'[x] = Nothing
PROOF
  <1>1. /\ Working /\ Live' = Live
        /\ \A i \in Live : rows'[i].path = Place(i) /\ rows'[i].album = rows[i].album
    BY CommitMoves
  <1>2. albums' = albums /\ disk' = disk /\ profiled' = profiled /\ cmd.todo = {}
    BY DEF RelayoutCommit
  <1>3. ASSUME NEW i \in Live PROVE InPlace(i)
    <2>1. CASE i \in DOMAIN cmd.seen
      BY <1>1, <1>2, <2>1 DEF Placed
    <2>2. CASE i \notin DOMAIN cmd.seen
      <3>1. i \notin Locked
        BY <1>1, <2>2 DEF Locked, Filed, Underway, StagedFits
      <3>2. Place(i) = rows[i].path
        BY <3>1, PlaceFits
      <3> QED
        BY <1>1, <2>2, <3>2 DEF Placed, InPlace
    <2> QED
      BY <2>1, <2>2
  <1> QED
    BY <1>1, <1>2, <1>3 DEF InPlace, OwnKey, Key

LEMMA SettledStep ==
    TypeOK /\ Filed /\ Unrest /\ Placed /\ RelayoutSettles /\ [Next]_vars => RelayoutSettles'
PROOF
  <1> SUFFICES ASSUME TypeOK, Filed, Unrest, Placed, RelayoutSettles, [Next]_vars
               PROVE  RelayoutSettles'
    OBVIOUS
  <1>1. CASE RelayoutCommit
    <2>1. last' = "relayout" => cmd.calm
      BY <1>1 DEF RelayoutCommit
    <2> QED
      BY <1>1, <2>1, CommitSettles DEF RelayoutSettles
  <1>2. CASE UNCHANGED vars
    BY <1>2 DEF vars, RelayoutSettles, Live
  <1>3. CASE ~RelayoutCommit /\ ~UNCHANGED vars
    <2>1. last' # "relayout"
      <3>1. CASE DeleteCommit \/ DeleteUnlink \/ DeleteDies
        <4>1. del # Idle /\ last' = last
          BY <3>1, StepsDiffer DEF DeleteCommit, DeleteUnlink, DeleteDies
        <4> QED
          BY <4>1 DEF Unrest, Quiet
      <3>2. CASE RelayoutRow \/ RelayoutDies
        <4>1. Working /\ last' = last
          BY <3>2, StepsDiffer DEF RelayoutRow, RelayoutDies, Working
        <4> QED
          BY <4>1 DEF Unrest, Quiet, Working
      <3>3. CASE Api /\ ~(DeleteCommit \/ DeleteUnlink \/ DeleteDies)
        BY <3>3 DEF Api, SignUp, SaveProfile, DeleteArtist, CreateAlbum, Upload, AddPhoto,
             DeleteRead
      <3>4. CASE RelayoutRead
        BY <3>4 DEF RelayoutRead
      <3>5. CASE Commands
        BY <3>5, CommandsRecord DEF Restore, Boot
      <3> QED
        BY <1>3, <3>1, <3>2, <3>3, <3>4, <3>5 DEF Next, RelayoutMedia
    <2> QED
      BY <2>1 DEF RelayoutSettles
  <1> QED
    BY <1>1, <1>2, <1>3

\* README.md:152: a relayout that ran to its end leaves nothing for another,
\* unless an artist saved a first profile meanwhile.
THEOREM NothingLeftToMove == Spec => []RelayoutSettles
PROOF
  <1>1. Init => Placed /\ RelayoutSettles
    BY DEF Init, Placed, Working, RelayoutSettles
  <1> QED
    BY <1>1, PlacedStep, SettledStep, TypeCorrect, FiledAlways, UnrestAlways, PTL DEF Spec
=============================================================================
