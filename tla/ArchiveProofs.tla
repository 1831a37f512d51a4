---------------------------- MODULE ArchiveProofs ----------------------------
(***************************************************************************)
(* Theorems of Archive, for any archives, any names and any limits.        *)
(*                                                                         *)
(* Two invariants carry them.  Frame says of the staging directory that    *)
(* its files lie below it, that none is where another needs a directory,   *)
(* and that they hold no more bytes and are no more than was counted.      *)
(* Loop says that the entries before the next have been read as the        *)
(* reference reads them, and that the files are what they left.            *)
(***************************************************************************)
EXTENDS ArchiveLemmas

-----------------------------------------------------------------------------
(* The invariants. *)

\* The files lie below the staging directory, and are finitely many.
StagedInv == DOMAIN staging \subseteq Staged /\ IsFiniteSet(DOMAIN staging)

\* No file is where another needs a directory.
FlatInv == \A p, q \in DOMAIN staging : ~IsStrictPrefix(p, q)

\* The files hold no more than has been counted, until the byte too many.
BytesInv ==
  SumOf(staging, DOMAIN staging) <= IF stage = "refused" THEN MaxUnpackedBytes + 1 ELSE total

\* Nor are they more than the entries.
CountInv == stage # "refused" => Cardinality(DOMAIN staging) <= pos - 1

\* The invariant of the staging directory.
Frame == TypeOK /\ StagedInv /\ FlatInv /\ BytesInv /\ CountInv

\* The entry at which the loop is.
LEMMA EntryIsTyped ==
  ASSUME TypeOK, Reading
  PROVE  /\ entry \in Entry /\ entry.size \in Nat /\ pos \in 1 .. Len(archive)
         /\ archive \in Seq(Entry) /\ pos + 1 \in 1 .. Len(archive) + 1
<1>1. archive \in Seq(Entry) /\ pos \in 1 .. Len(archive)
  BY ArchivesHoldEntries DEF TypeOK, Reading
<1>2. entry \in Entry
  BY <1>1 DEF entry
<1>3. Len(archive) \in Nat
  BY <1>1
<1> QED
  BY <1>1, <1>2, <1>3 DEF Entry

\* A file that is written lands where the reference says.
LEMMA WritingLands ==
  ASSUME TypeOK, Writing
  PROVE  /\ pos \in Files(archive) /\ ~entry.rooted /\ ~Climbs(entry)
         /\ Path = At(Lands(entry)) /\ Lands(entry) \in Paths /\ Path \in Staged
<1>1. entry \in Entry /\ pos \in 1 .. Len(archive) /\ archive \in Seq(Entry)
  BY EntryIsTyped DEF Writing
<1>2. entry.kind = "file" /\ Path # NoPath /\ Path # Outside
  BY DEF Writing
<1>3. /\ Path = NoPath <=> Nowhere(entry)
      /\ ~Nowhere(entry) /\ (entry.rooted \/ Climbs(entry)) => Path = Outside
      /\ ~Nowhere(entry) /\ ~entry.rooted /\ ~Climbs(entry) =>
           Path = <<Staging>> \o Lands(entry) /\ Lands(entry) \in Seq(Part) /\ Lands(entry) # <<>>
  BY <1>1, EntryPathRead DEF Path
<1>4. pos \in Files(archive)
  BY <1>1, <1>2, <1>3 DEF Files, entry
<1> QED
  BY <1>2, <1>3, <1>4 DEF At, Paths, Staged

\* Whatever is opened, for a broken entry too, is in the staging directory.
LEMMA OpenedLands ==
  ASSUME TypeOK, Reading, Path \notin {NoPath, Outside}
  PROVE  Path \in Staged
<1>1. entry \in Entry
  BY EntryIsTyped
<1>2. /\ Path = NoPath <=> Nowhere(entry)
      /\ ~Nowhere(entry) /\ (entry.rooted \/ Climbs(entry)) => Path = Outside
      /\ ~Nowhere(entry) /\ ~entry.rooted /\ ~Climbs(entry) =>
           Path = <<Staging>> \o Lands(entry) /\ Lands(entry) \in Seq(Part) /\ Lands(entry) # <<>>
  BY <1>1, EntryPathRead DEF Path
<1> QED
  BY <1>2 DEF At, Paths, Staged

\* A rename moves what is counted.
LEMMA SumOfMove ==
  ASSUME NEW f, NEW D, Summable(f, D), NEW x \in D, NEW y, y \notin D \ {x}, NEW g,
         g[y] = f[x], \A z \in D \ {x} : g[z] = f[z]
  PROVE  /\ SumOf(g, (D \ {x}) \cup {y}) = SumOf(f, D) /\ IsFiniteSet((D \ {x}) \cup {y})
         /\ Cardinality((D \ {x}) \cup {y}) = Cardinality(D)
<1> DEFINE R == D \ {x}
           S == R \cup {y}
<1>1. IsFiniteSet(R) /\ Cardinality(R) = Cardinality(D) - 1 /\ Cardinality(D) \in Nat
  BY FS_RemoveElement, FS_CardinalityType DEF Summable
<1>2. IsFiniteSet(S) /\ Cardinality(S) = Cardinality(D)
  <2>1. y \notin R
    OBVIOUS
  <2> HIDE DEF R
  <2>2. IsFiniteSet(S) /\ Cardinality(S) = Cardinality(R) + 1
    BY <1>1, <2>1, FS_AddElement
  <2> QED
    BY <1>1, <2>2
<1>3. Summable(f, R) /\ \A z \in R : f[z] = g[z]
  BY <1>1 DEF Summable
<1>4. S \ {y} = R /\ y \in S /\ \A z \in S : g[z] \in Nat
  BY DEF Summable
<1>5. Summable(g, S)
  BY <1>2, <1>4 DEF Summable
<1> HIDE DEF S
<1>6. SumOf(g, S) = g[y] + SumOf(g, S \ {y})
  BY <1>4, <1>5, SumTakes
<1>7. SumOf(f, D) = f[x] + SumOf(f, R)
  BY SumTakes
<1> HIDE DEF R
<1>8. SumOf(f, R) = SumOf(g, R)
  BY <1>3, SumOfSame
<1>9. SumOf(g, S) = SumOf(f, D)
  BY <1>4, <1>6, <1>7, <1>8
<1> QED
  BY <1>2, <1>9 DEF S, R

\* The files in the staging directory can be summed up.
LEMMA StagingSums ==
  ASSUME TypeOK, StagedInv
  PROVE  /\ Summable(staging, DOMAIN staging) /\ SumOf(staging, DOMAIN staging) \in Nat
         /\ Cardinality(DOMAIN staging) \in Nat
<1>1. Summable(staging, DOMAIN staging)
  BY DEF TypeOK, StagedInv, Summable
<1>2. SumOf(staging, DOMAIN staging) \in Nat
  <2> DEFINE D == DOMAIN staging
  <2> HIDE DEF D
  <2> QED
    BY <1>1, SumType DEF D
<1> QED
  BY <1>1, <1>2, FS_CardinalityType DEF Summable

\* A copy writes one file, at a path where nothing is in the way, and adds to the
\* sum no more than what it writes.
LEMMA CopyKeeps ==
  ASSUME TypeOK, StagedInv, FlatInv, NEW size \in Nat,
         Reading, Path \notin {NoPath, Outside}, Puts(size)
  PROVE  /\ \A p \in DOMAIN staging' : staging'[p] \in Nat
         /\ StagedInv' /\ FlatInv'
         /\ SumOf(staging, DOMAIN staging)' \in Nat
         /\ SumOf(staging, DOMAIN staging)' <= SumOf(staging, DOMAIN staging) + size
         /\ Cardinality(DOMAIN staging)' <= Cardinality(DOMAIN staging) + 1
<1>1. Path \in Staged
  BY OpenedLands
<1>2. staging' = [p \in DOMAIN staging \cup {Path} |-> IF p = Path THEN size ELSE staging[p]]
  BY DEF Puts
<1>3. DOMAIN staging' = DOMAIN staging \cup {Path}
  BY <1>2
<1>4. \A p \in DOMAIN staging' : staging'[p] \in Nat
  BY <1>2, <1>3 DEF TypeOK
<1>5. Summable(staging, DOMAIN staging) /\ Cardinality(DOMAIN staging) \in Nat
  BY StagingSums
<1>6. /\ Summable(staging', DOMAIN staging')
      /\ SumOf(staging', DOMAIN staging') \in Nat
      /\ SumOf(staging', DOMAIN staging') <= SumOf(staging, DOMAIN staging) + size
  <2> DEFINE D == DOMAIN staging
             x == Path
             g == staging'
             f == staging
             E == DOMAIN staging'
  <2>1. Summable(f, D) /\ g = [y \in D \cup {x} |-> IF y = x THEN size ELSE f[y]] /\ E = D \cup {x}
    BY <1>2, <1>3, <1>5
  <2> HIDE DEF D, x, g, f, E
  <2>2. /\ Summable(g, D \cup {x})
        /\ SumOf(g, D \cup {x}) \in Nat /\ SumOf(f, D) \in Nat
        /\ SumOf(g, D \cup {x}) <= SumOf(f, D) + size
    BY <2>1, SumOfCopy
  <2>3. Summable(g, E) /\ SumOf(g, E) \in Nat /\ SumOf(g, E) <= SumOf(f, D) + size
    BY <2>1, <2>2
  <2> QED
    BY <2>3 DEF D, g, f, E
<1>7. StagedInv'
  BY <1>1, <1>3, <1>6 DEF StagedInv, Summable, Staged, At
<1>8. FlatInv'
  <2>1. ~Blocked(Path)
    BY DEF Puts
  <2>2. \A p \in DOMAIN staging : ~IsStrictPrefix(Path, p) /\ ~IsStrictPrefix(p, Path)
    BY <2>1 DEF Blocked, IsDirectory
  <2>3. ~IsStrictPrefix(Path, Path)
    BY DEF IsStrictPrefix
  <2> QED
    BY <1>3, <2>2, <2>3 DEF FlatInv
<1>9. Cardinality(DOMAIN staging') <= Cardinality(DOMAIN staging) + 1
  <2> DEFINE D == DOMAIN staging
  <2>1. IsFiniteSet(D) /\ Cardinality(D) \in Nat
    BY <1>5 DEF Summable
  <2> HIDE DEF D
  <2>2. Cardinality(D \cup {Path}) <= Cardinality(D) + 1
    <3>1. CASE Path \in D
      <4>1. D \cup {Path} = D
        BY <3>1
      <4> QED
        BY <2>1, <4>1
    <3>2. CASE Path \notin D
      <4>1. Cardinality(D \cup {Path}) = Cardinality(D) + 1
        BY <2>1, <3>2, FS_AddElement
      <4> QED
        BY <2>1, <4>1
    <3> QED
      BY <3>1, <3>2
  <2> QED
    BY <1>3, <2>2 DEF D
<1> QED
  BY <1>4, <1>6, <1>7, <1>8, <1>9

-----------------------------------------------------------------------------
(* The choice of the name. *)

\* The name that a database is installed under.
LEMMA NameIsProper ==
  ASSUME TypeOK, NEW found \in Project, NameFor(found) # NoProject
  PROVE  /\ NameFor(found) \in Proper
         /\ NameFor(found) \in Project
         /\ requested \in {NoProject, NameFor(found)}
         /\ found = GenericDBName => NameFor(found) = requested
         /\ found # GenericDBName => NameFor(found) = found
BY NamesAreDistinct DEF NameFor

\* What Accept does: the one database found gets the name of the project, where
\* nothing is in its way.
Installed(found) ==
  /\ Databases = {found}
  /\ project' \in Project /\ project' \in Proper
  /\ requested \in {NoProject, project'}
  /\ found = GenericDBName => project' = requested
  /\ found # GenericDBName => project' = found
  /\ Database(found) \in DOMAIN staging
  /\ DOMAIN staging' = (DOMAIN staging \ {Database(found)}) \cup {Database(project')}
  /\ Database(project') \notin DOMAIN staging \ {Database(found)}
  /\ staging'[Database(project')] = staging[Database(found)]
  /\ \A p \in DOMAIN staging \ {Database(found)} : staging'[p] = staging[p]
  /\ \A p \in DOMAIN staging : ~IsStrictPrefix(Database(project'), p)

\* Accept does that.
LEMMA AcceptInstalls ==
  ASSUME TypeOK, StagedInv, FlatInv, Accept
  PROVE  \E found \in Project : Installed(found)
<1>1. PICK found \in Project :
        /\ Databases = {found} /\ NameFor(found) # NoProject
        /\ Names(found, NameFor(found)) /\ project' = NameFor(found)
  BY DEF Accept
<1> DEFINE name == NameFor(found)
<1>2. /\ name \in Proper /\ name \in Project /\ requested \in {NoProject, name}
      /\ found = GenericDBName => name = requested
      /\ found # GenericDBName => name = found
  BY <1>1, NameIsProper
<1>3. Database(found) \in DOMAIN staging
  BY <1>1 DEF Databases
<1>4. project' = name /\ Names(found, name)
  BY <1>1
<1> HIDE DEF name
<1>5. CASE name = found /\ UNCHANGED staging
  <2>1. \A p \in DOMAIN staging : ~IsStrictPrefix(Database(found), p)
    BY <1>3 DEF FlatInv
  <2>2. DOMAIN staging' = (DOMAIN staging \ {Database(found)}) \cup {Database(name)}
    BY <1>3, <1>5
  <2> QED
    BY <1>1, <1>2, <1>3, <1>4, <1>5, <2>1, <2>2 DEF Installed
<1>6. CASE /\ name # found
           /\ ~IsDirectory(Database(name))
           /\ staging' = [path \in (DOMAIN staging \ {Database(found)}) \cup {Database(name)} |->
                           staging[IF path = Database(name) THEN Database(found) ELSE path]]
  <2>1. \A p \in DOMAIN staging : ~IsStrictPrefix(Database(name), p)
    BY <1>6 DEF IsDirectory
  <2>2. DOMAIN staging' = (DOMAIN staging \ {Database(found)}) \cup {Database(name)}
    BY <1>6
  <2>3. Database(name) \notin DOMAIN staging
    <3>1. name \notin Databases
      BY <1>1, <1>6
    <3> QED
      BY <1>2, <3>1 DEF Databases
  <2>4. staging'[Database(name)] = staging[Database(found)]
    BY <1>6
  <2>5. \A p \in DOMAIN staging \ {Database(found)} : staging'[p] = staging[p]
    BY <1>6, <2>3
  <2> QED
    BY <1>1, <1>2, <1>3, <1>4, <2>1, <2>2, <2>3, <2>4, <2>5 DEF Installed
<1> QED
  BY <1>4, <1>5, <1>6 DEF Names

\* The rename stays in the staging directory, and neither the bytes nor the number
\* of files change.
LEMMA InstalledKeeps ==
  ASSUME TypeOK, StagedInv, FlatInv, NEW found \in Project, Installed(found)
  PROVE  /\ \A p \in DOMAIN staging' : staging'[p] \in Nat
         /\ StagedInv' /\ FlatInv'
         /\ SumOf(staging, DOMAIN staging)' = SumOf(staging, DOMAIN staging)
         /\ Cardinality(DOMAIN staging)' = Cardinality(DOMAIN staging)
         /\ Databases' = {project'}
<1> DEFINE D == DOMAIN staging
           x == Database(found)
           y == Database(project')
           E == (D \ {x}) \cup {y}
<1>1. /\ x \in D /\ DOMAIN staging' = E /\ y \notin D \ {x} /\ staging'[y] = staging[x]
      /\ \A z \in D \ {x} : staging'[z] = staging[z]
      /\ project' \in Project
  BY DEF Installed
<1>2. \A p \in E : staging'[p] \in Nat
  BY <1>1 DEF TypeOK
<1>3. SumOf(staging', E) = SumOf(staging, D) /\ IsFiniteSet(E) /\ Cardinality(E) = Cardinality(D)
  <2>1. Summable(staging, D)
    BY StagingSums
  <2> DEFINE f == staging
             g == staging'
  <2> HIDE DEF D, x, y, f, g
  <2> QED
    BY <1>1, <2>1, SumOfMove DEF f, g
<1>4. y \in Staged /\ y = At(<<Db[project']>>) /\ \A q \in Paths : ~IsStrictPrefix(q, <<Db[project']>>)
      /\ <<Db[project']>> \in Paths
  <2> DEFINE p == project'
  <2>1. p \in Project
    BY <1>1
  <2> HIDE DEF p
  <2>2. /\ Database(p) = At(<<Db[p]>>) /\ <<Db[p]>> \in Paths /\ Database(p) \in Staged
        /\ \A q \in Paths : ~IsStrictPrefix(q, <<Db[p]>>)
    BY <2>1, DatabaseIsAt
  <2> QED
    BY <2>2 DEF p
<1>5. StagedInv'
  BY <1>1, <1>3, <1>4 DEF StagedInv, Staged, At
<1>6. FlatInv'
  <2>1. \A p \in D : ~IsStrictPrefix(y, p)
    BY DEF Installed
  <2>2. ASSUME NEW p \in D
        PROVE  ~IsStrictPrefix(p, y)
    <3>1. PICK q \in Paths : p = At(q)
      BY DEF StagedInv, Staged
    <3> HIDE DEF y
    <3> QED
      BY <1>4, <3>1, AtPrefix
  <2>3. ~IsStrictPrefix(y, y)
    BY DEF IsStrictPrefix
  <2>4. \A p, q \in E : ~IsStrictPrefix(p, q)
    BY <2>1, <2>2, <2>3 DEF FlatInv
  <2> HIDE DEF E
  <2> QED
    BY <1>1, <2>4 DEF FlatInv
<1>7. Databases' = {project'}
  <2>1. \A p, q \in Project : Database(p) = Database(q) => p = q
    BY NamesAreDistinct DEF Database
  <2>2. \A p \in Project : Database(p) \in D <=> p = found
    BY DEF Databases, Installed
  <2>3. \A p \in Project : Database(p) \in E <=> p = project'
    BY <1>1, <2>1, <2>2
  <2>4. Databases' = {p \in Project : Database(p) \in E}
    BY <1>1 DEF Databases, Database
  <2> QED
    BY <1>1, <2>3, <2>4
<1> HIDE DEF E
<1> QED
  BY <1>1, <1>2, <1>3, <1>5, <1>6, <1>7

\* The first state.
LEMMA InitFrame == Init => Frame
<1> SUFFICES ASSUME Init
             PROVE  Frame
  OBVIOUS
<1>1. archive \in Seq(Entry)
  BY ArchivesHoldEntries DEF Init
<1>2. Len(archive) \in Nat /\ DOMAIN staging = {} /\ pos = 1 /\ total = 0 /\ stage = "unpack"
  BY <1>1 DEF Init
<1>3. TypeOK
  BY <1>2, LimitsAreNaturals DEF Init, TypeOK
<1>4. StagedInv /\ FlatInv /\ CountInv
  BY <1>2, FS_EmptySet DEF StagedInv, FlatInv, CountInv
<1>5. BytesInv
  <2>1. SumOf(staging, {}) = 0
    BY SumOfNothing
  <2> QED
    BY <1>2, <2>1 DEF BytesInv
<1> QED
  BY <1>3, <1>4, <1>5 DEF Frame

\* Arithmetic, for the number of files.
LEMMA StillBehind ==
  ASSUME NEW a \in Nat, NEW b \in Nat, NEW c \in Nat, a <= b - 1, b <= c
  PROVE  a <= c - 1
OBVIOUS

\* What does not touch the files keeps all that is said about them.
LEMMA StillFrame ==
  ASSUME Frame, UNCHANGED <<upload, total, staging>>, project' = project,
         stage' = stage \/ stage' = "refused" \/ (stage = "unpack" /\ stage' = "name"),
         pos' \in {pos, pos + 1} /\ pos' <= Len(archive) + 1
  PROVE  Frame'
<1>1. TypeOK' /\ StagedInv' /\ FlatInv'
  BY DEF Frame, TypeOK, StagedInv, FlatInv, upload, Staged, At
<1>2. SumOf(staging, DOMAIN staging)' = SumOf(staging, DOMAIN staging)
        /\ SumOf(staging, DOMAIN staging) \in Nat
  BY StagingSums DEF Frame
<1>3. total \in 0 .. MaxUnpackedBytes /\ MaxUnpackedBytes \in Nat
  BY LimitsAreNaturals DEF Frame, TypeOK
<1>4. BytesInv'
  <2> DEFINE sum == SumOf(staging, DOMAIN staging)
  <2>1. sum \in Nat /\ sum' = sum /\ total' = total
    BY <1>2
  <2>2. sum <= IF stage = "refused" THEN MaxUnpackedBytes + 1 ELSE total
    BY DEF Frame, BytesInv
  <2>3. BytesInv' <=> sum' <= IF stage' = "refused" THEN MaxUnpackedBytes + 1 ELSE total'
    BY DEF BytesInv
  <2> HIDE DEF sum
  <2> QED
    BY <1>3, <2>1, <2>2, <2>3
<1>5. CountInv'
  <2> DEFINE n == Cardinality(DOMAIN staging)
  <2>1. n \in Nat /\ n' = n
    BY StagingSums DEF Frame
  <2>2. stage # "refused" => n <= pos - 1
    BY DEF Frame, CountInv
  <2>3. CountInv' <=> (stage' # "refused" => n' <= pos' - 1)
    BY DEF CountInv
  <2>4. pos \in Nat /\ pos' \in Nat /\ pos <= pos'
    BY DEF Frame, TypeOK
  <2>5. stage' # "refused" => stage # "refused"
    OBVIOUS
  <2> HIDE DEF n
  <2>6. ASSUME stage' # "refused"
        PROVE  n' <= pos' - 1
    <3>1. n <= pos - 1
      BY <2>2, <2>5, <2>6
    <3>2. n <= pos' - 1
      BY <2>1, <2>4, <3>1, StillBehind
    <3> QED
      BY <2>1, <3>2
  <2> QED
    BY <2>3, <2>6
<1> QED
  BY <1>1, <1>4, <1>5 DEF Frame

\* Each step keeps the invariants of the staging directory.
LEMMA StepFrame ==
  ASSUME Frame, [Next]_vars
  PROVE  Frame'
<1>0. pos \in Nat /\ pos <= Len(archive) + 1 /\ Len(archive) \in Nat
  BY ArchivesHoldEntries DEF Frame, TypeOK
<1>1. CASE UNCHANGED vars
  BY <1>0, <1>1, StillFrame DEF vars, upload
<1>2. CASE RefuseTooMany \/ RefuseDamaged \/ RefuseOutside \/ RefuseUnwritable \/ RefuseName
  BY <1>0, <1>2, StillFrame
     DEF RefuseTooMany, RefuseDamaged, RefuseOutside, RefuseUnwritable, RefuseName, Refuse
<1>3. CASE Skip
  BY <1>0, <1>3, StillFrame DEF Skip, Reading
<1>4. CASE Unpacked
  BY <1>0, <1>4, StillFrame DEF Unpacked
<1> DEFINE sum == SumOf(staging, DOMAIN staging)
           n   == Cardinality(DOMAIN staging)
<1>5. sum \in Nat /\ n \in Nat
  BY StagingSums DEF Frame
<1>6. /\ BytesInv <=> sum <= IF stage = "refused" THEN MaxUnpackedBytes + 1 ELSE total
      /\ BytesInv' <=> sum' <= IF stage' = "refused" THEN MaxUnpackedBytes + 1 ELSE total'
      /\ CountInv <=> (stage # "refused" => n <= pos - 1)
      /\ CountInv' <=> (stage' # "refused" => n' <= pos' - 1)
  BY DEF BytesInv, CountInv
<1>7. total \in 0 .. MaxUnpackedBytes /\ MaxUnpackedBytes \in Nat
  BY LimitsAreNaturals DEF Frame, TypeOK
<1>8. CASE RefuseTooBig \/ RefuseBroken
  <2>1. Budget + 1 \in Nat /\ Budget + 1 = MaxUnpackedBytes - total + 1
    BY <1>7 DEF Budget
  <2>2. /\ Reading /\ Path \notin {NoPath, Outside} /\ Refuse /\ stage = "unpack"
        /\ \E size \in 0 .. Budget + 1 : Puts(size)
    BY <1>8, <2>1 DEF RefuseTooBig, RefuseBroken, Copy, Writing, Reading
  <2>3. /\ \A p \in DOMAIN staging' : staging'[p] \in Nat
        /\ StagedInv' /\ FlatInv' /\ sum' \in Nat /\ sum' <= sum + (Budget + 1)
    <3>1. PICK size \in 0 .. Budget + 1 : Puts(size)
      BY <2>2
    <3>2. size \in Nat /\ size <= Budget + 1
      BY <2>1
    <3>3. /\ \A p \in DOMAIN staging' : staging'[p] \in Nat
          /\ StagedInv' /\ FlatInv' /\ sum' \in Nat /\ sum' <= sum + size
      BY <2>2, <3>1, <3>2, CopyKeeps DEF Frame
    <3> HIDE DEF sum
    <3> QED
      BY <1>5, <2>1, <3>2, <3>3
  <2>4. TypeOK'
    BY <2>2, <2>3 DEF Frame, TypeOK, Refuse, upload
  <2>5. stage' = "refused"
    BY <2>2 DEF Refuse
  <2>6. BytesInv /\ stage # "refused"
    BY <2>2 DEF Frame
  <2> HIDE DEF sum, n
  <2>7. sum' <= MaxUnpackedBytes + 1
    BY <1>5, <1>6, <1>7, <2>1, <2>3, <2>6
  <2> QED
    BY <1>6, <2>3, <2>4, <2>5, <2>7 DEF Frame
<1>9. CASE WriteEntry
  <2>1. /\ entry.size \in Nat /\ Puts(entry.size) /\ stage = "unpack" /\ stage' = stage
        /\ Reading /\ Path \notin {NoPath, Outside}
        /\ pos' = pos + 1 /\ pos + 1 <= Len(archive) + 1 /\ total' = total + entry.size
        /\ entry.size <= MaxUnpackedBytes - total
    BY <1>9, EntryIsTyped DEF WriteEntry, Copy, Writing, Reading, Frame, Budget
  <2>2. /\ \A p \in DOMAIN staging' : staging'[p] \in Nat
        /\ StagedInv' /\ FlatInv' /\ sum' \in Nat /\ sum' <= sum + entry.size
        /\ n' <= n + 1
    BY <2>1, CopyKeeps DEF Frame
  <2>3. total' \in 0 .. MaxUnpackedBytes
    BY <1>7, <2>1
  <2>4. TypeOK'
    BY <1>0, <1>9, <2>1, <2>2, <2>3 DEF Frame, TypeOK, WriteEntry, upload
  <2>5. BytesInv /\ CountInv
    BY DEF Frame
  <2>6. n' \in Nat
    BY <2>2, FS_CardinalityType DEF StagedInv
  <2> HIDE DEF sum, n
  <2>7. BytesInv'
    BY <1>5, <1>6, <1>7, <2>1, <2>2, <2>5
  <2>8. CountInv'
    BY <1>0, <1>5, <1>6, <2>1, <2>2, <2>5, <2>6
  <2> QED
    BY <2>2, <2>4, <2>7, <2>8 DEF Frame
<1>10. CASE Accept
  <2>1. PICK found \in Project : Installed(found)
    BY <1>10, AcceptInstalls DEF Frame
  <2>2. /\ \A p \in DOMAIN staging' : staging'[p] \in Nat
        /\ StagedInv' /\ FlatInv' /\ sum' = sum /\ n' = n
    BY <2>1, InstalledKeeps DEF Frame
  <2>3. project' \in Project
    BY <2>1 DEF Installed
  <2>4. TypeOK'
    BY <1>10, <2>2, <2>3 DEF Frame, TypeOK, Accept, upload
  <2>5. stage = "name" /\ stage' = "accepted" /\ pos' = pos /\ total' = total /\ BytesInv /\ CountInv
    BY <1>10 DEF Accept, Frame
  <2> HIDE DEF sum, n
  <2> QED
    BY <1>6, <2>2, <2>4, <2>5 DEF Frame
<1> QED
  BY <1>1, <1>2, <1>3, <1>4, <1>8, <1>9, <1>10 DEF Next

-----------------------------------------------------------------------------
(* The loop, against the reference. *)

\* The entries before n can be unpacked.
Fine(f, a, n) ==
  /\ \A i \in DOMAIN a : i < n /\ a[i].kind = "damaged" => f = "zip" /\ Nowhere(a[i])
  /\ \A i \in Before(a, n) : ~a[i].rooted /\ ~Climbs(a[i]) /\ BytesBefore(a, i) < MaxUnpackedBytes

\* The files are those of the entries before n, the last of each path.
Holds(n) ==
  /\ DOMAIN staging = {At(Lands(archive[i])) : i \in Before(archive, n)}
  /\ \A i \in Before(archive, n) :
       (\A j \in Before(archive, n) : Lands(archive[j]) = Lands(archive[i]) => j <= i)
         => staging[At(Lands(archive[i]))] = archive[i].size

\* What is unpacked so far, and counted so far, is what the reference says.
LoopInv ==
  stage \in {"unpack", "name"} =>
    Fine(format, archive, pos) /\ Holds(pos) /\ total = BytesBefore(archive, pos)

\* unpackTar counts the entries as it goes.
TarInv == stage = "unpack" /\ format = "tar" => pos <= MaxArchiveEntries + 1

\* The choice of the name comes after the last entry.
DoneInv ==
  stage \in {"name", "accepted"} =>
    pos = Len(archive) + 1 /\ Len(archive) <= MaxArchiveEntries /\ total > 0

\* The invariant of the loop.
Loop == LoopInv /\ TarInv /\ DoneInv

\* A file that neither is rooted nor climbs out has a path below the directory.
LEMMA FileLands ==
  ASSUME NEW a \in Seq(Entry), NEW i \in Files(a), ~a[i].rooted, ~Climbs(a[i])
  PROVE  Lands(a[i]) \in Paths /\ EntryPath(a[i]) = At(Lands(a[i]))
<1>1. a[i] \in Entry /\ ~Nowhere(a[i])
  BY FilesAre DEF Files
<1> QED
  BY <1>1, EntryPathRead DEF At, Paths

\* One entry more can be unpacked.
LEMMA FineStep ==
  ASSUME NEW a \in Seq(Entry), NEW f, NEW n \in 1 .. Len(a), Fine(f, a, n),
         a[n].kind = "damaged" => f = "zip" /\ Nowhere(a[n]),
         n \in Files(a) => ~a[n].rooted /\ ~Climbs(a[n]) /\ BytesBefore(a, n) < MaxUnpackedBytes
  PROVE  Fine(f, a, n + 1)
<1>1. \A i \in DOMAIN a : i < n + 1 => i < n \/ i = n
  OBVIOUS
<1>2. \A i \in Before(a, n + 1) : i \in Before(a, n) \/ (i = n /\ n \in Files(a))
  <2>1. \A i \in Files(a) : i \in DOMAIN a
    BY DEF Files
  <2> QED
    BY <1>1, <2>1 DEF Before
<1> QED
  BY <1>1, <1>2 DEF Fine

\* One entry more is a file more, or none.
LEMMA BeforeStep ==
  ASSUME NEW a \in Seq(Entry), NEW n \in Nat
  PROVE  Before(a, n + 1) = IF n \in Files(a) THEN Before(a, n) \cup {n} ELSE Before(a, n)
<1>1. \A i \in Files(a) : i \in Nat
  BY FilesAre
<1>2. \A i \in Files(a) : i < n + 1 <=> i < n \/ i = n
  BY <1>1
<1> QED
  BY <1>2 DEF Before

\* A write replaces what an earlier entry left at the path, and nothing else.
LEMMA StepHolds ==
  ASSUME TypeOK, LoopInv, WriteEntry
  PROVE  Holds(pos)'
<1>1. /\ entry \in Entry /\ archive \in Seq(Entry) /\ pos \in 1 .. Len(archive) /\ stage = "unpack"
      /\ Fine(format, archive, pos) /\ Holds(pos)
  BY EntryIsTyped DEF WriteEntry, Copy, Writing, Reading, LoopInv
<1>2. /\ pos \in Files(archive) /\ Path = At(Lands(entry)) /\ Lands(entry) \in Paths /\ entry = archive[pos]
  BY WritingLands DEF WriteEntry, Copy, Puts, entry
<1>3. archive' = archive /\ staging' = [p \in DOMAIN staging \cup {Path} |-> IF p = Path THEN entry.size ELSE staging[p]]
  BY DEF WriteEntry, Copy, Puts, upload
<1> DEFINE B == Before(archive, pos)
           C == Before(archive, pos + 1)
<1>4. C = B \cup {pos} /\ pos' = pos + 1
  <2>1. pos \in Nat
    BY <1>1
  <2>2. Before(archive, pos + 1) = IF pos \in Files(archive) THEN Before(archive, pos) \cup {pos} ELSE Before(archive, pos)
    BY <1>1, <2>1, BeforeStep
  <2> QED
    BY <1>2, <2>2 DEF WriteEntry
<1>5. DOMAIN staging = {At(Lands(archive[i])) : i \in B}
  BY <1>1 DEF Holds
<1>6. DOMAIN staging' = {At(Lands(archive[i])) : i \in C}
  <2>1. DOMAIN staging' = DOMAIN staging \cup {At(Lands(archive[pos]))}
    BY <1>2, <1>3
  <2> HIDE DEF B, C
  <2> QED
    BY <1>4, <1>5, <2>1
<1>7. ASSUME NEW i \in C, \A j \in C : Lands(archive[j]) = Lands(archive[i]) => j <= i
      PROVE  staging'[At(Lands(archive[i]))] = archive[i].size
  <2>1. CASE i = pos
    BY <1>2, <1>3, <2>1
  <2>2. CASE i # pos
    <3>1. i \in B /\ \A j \in B : Lands(archive[j]) = Lands(archive[i]) => j <= i
      BY <1>4, <1>7, <2>2
    <3>2. i \in Files(archive) /\ i < pos /\ i \in Nat
      BY <1>1, <3>1, FilesAre DEF Before
    <3>3. Lands(archive[i]) # Lands(archive[pos])
      <4>1. ~(pos <= i)
        BY <1>1, <3>2
      <4> QED
        BY <1>4, <1>7, <4>1
    <3>4. Lands(archive[i]) \in Paths
      BY <1>1, <3>1, <3>2, FileLands DEF Fine
    <3>5. At(Lands(archive[i])) # Path
      BY <1>2, <3>3, <3>4, AtPrefix
    <3>6. At(Lands(archive[i])) \in DOMAIN staging
      BY <1>5, <3>1
    <3>7. staging[At(Lands(archive[i]))] = archive[i].size
      BY <1>1, <3>1 DEF Holds
    <3> QED
      BY <1>3, <3>5, <3>6, <3>7
  <2> QED
    BY <2>1, <2>2
<1> QED
  <2>1. Holds(pos)' <=>
          /\ DOMAIN staging' = {At(Lands(archive'[i])) : i \in Before(archive', pos')}
          /\ \A i \in Before(archive', pos') :
               (\A j \in Before(archive', pos') : Lands(archive'[j]) = Lands(archive'[i]) => j <= i)
                 => staging'[At(Lands(archive'[i]))] = archive'[i].size
    BY DEF Holds, Before, Files, Nowhere, Kept, Climbs, Lands, At
  <2>2. archive' = archive /\ pos' = pos + 1
    BY <1>3, <1>4
  <2> QED
    BY <1>6, <1>7, <2>1, <2>2

\* Before the first entry.
LEMMA InitLoop == Init => Loop
<1> SUFFICES ASSUME Init
             PROVE  Loop
  OBVIOUS
<1>1. archive \in Seq(Entry)
  BY ArchivesHoldEntries DEF Init
<1>2. DOMAIN staging = {} /\ pos = 1 /\ total = 0 /\ stage = "unpack"
  BY DEF Init
<1>3. BytesBefore(archive, 1) = 0 /\ Before(archive, 1) = {}
  BY <1>1, BytesStart
<1>4. Fine(format, archive, 1)
  <2>1. \A i \in DOMAIN archive : ~(i < 1)
    BY <1>1
  <2> QED
    BY <1>3, <2>1 DEF Fine
<1>5. Holds(pos)
  BY <1>2, <1>3 DEF Holds
<1>6. TarInv /\ DoneInv
  BY <1>2, LimitsAreNaturals DEF TarInv, DoneInv
<1> QED
  BY <1>2, <1>3, <1>4, <1>5, <1>6 DEF Loop, LoopInv

\* What reads no file keeps the files.
LEMMA StillHolds ==
  ASSUME archive' = archive, staging' = staging, Before(archive, pos') = Before(archive, pos), Holds(pos)
  PROVE  Holds(pos)'
<1>1. Holds(pos)' <=>
        /\ DOMAIN staging' = {At(Lands(archive'[i])) : i \in Before(archive', pos')}
        /\ \A i \in Before(archive', pos') :
             (\A j \in Before(archive', pos') : Lands(archive'[j]) = Lands(archive'[i]) => j <= i)
               => staging'[At(Lands(archive'[i]))] = archive'[i].size
  BY DEF Holds, Before, Files, Nowhere, Kept, Climbs, Lands, At
<1>2. Holds(pos) <=>
        /\ DOMAIN staging = {At(Lands(archive[i])) : i \in Before(archive, pos)}
        /\ \A i \in Before(archive, pos) :
             (\A j \in Before(archive, pos) : Lands(archive[j]) = Lands(archive[i]) => j <= i)
               => staging[At(Lands(archive[i]))] = archive[i].size
  BY DEF Holds
<1> QED
  BY <1>1, <1>2

\* What is skipped is no file for the reference either.
LEMMA SkipIsNoFile ==
  ASSUME TypeOK, Skip
  PROVE  /\ pos \notin Files(archive)
         /\ entry.kind = "damaged" => format = "zip" /\ Nowhere(entry)
<1>1. entry \in Entry
  BY EntryIsTyped DEF Skip
<1>2. /\ Path = NoPath <=> Nowhere(entry)
  BY <1>1, EntryPathRead DEF Path
<1>3. entry.kind = "other" \/ Nowhere(entry)
  BY <1>2 DEF Skip
<1>4. pos \notin Files(archive)
  BY <1>3 DEF Files, entry
<1>5. entry.kind = "damaged" => format = "zip"
  BY DEF Skip, Damaged
<1> QED
  BY <1>3, <1>4, <1>5

\* Each step of the loop reads one entry as the reference does.
LEMMA StepLoop ==
  ASSUME Frame, Loop, [Next]_vars
  PROVE  Loop'
<1>0. /\ archive \in Seq(Entry) /\ Len(archive) \in Nat /\ pos \in 1 .. Len(archive) + 1 /\ TypeOK
      /\ total \in Nat
  BY ArchivesHoldEntries DEF Frame, TypeOK
<1>1. CASE UNCHANGED vars
  <2>1. Holds(pos) => Holds(pos)'
    BY <1>1, StillHolds DEF vars
  <2>2. LoopInv'
    BY <1>1, <2>1 DEF vars, Loop, LoopInv
  <2> QED
    BY <1>1, <2>2 DEF vars, Loop, TarInv, DoneInv
<1>2. CASE stage' = "refused"
  BY <1>2 DEF Loop, LoopInv, TarInv, DoneInv
<1>3. CASE Skip
  <2>1. /\ stage = "unpack" /\ stage' = "unpack" /\ ~TooMany /\ pos \in 1 .. Len(archive)
        /\ pos' = pos + 1 /\ UNCHANGED <<archive, format, total, staging>>
    BY <1>0, <1>3 DEF Skip, Reading, upload
  <2>2. pos \notin Files(archive) /\ (entry.kind = "damaged" => format = "zip" /\ Nowhere(entry))
    BY <1>0, <1>3, SkipIsNoFile
  <2>3. Fine(format, archive, pos) /\ Holds(pos) /\ total = BytesBefore(archive, pos)
    BY <2>1 DEF Loop, LoopInv
  <2>4. Fine(format, archive, pos + 1)
    BY <1>0, <2>1, <2>2, <2>3, FineStep DEF entry
  <2>5. pos \in Nat
    BY <2>1
  <2>6. Before(archive, pos + 1) = Before(archive, pos)
    BY <1>0, <2>2, <2>5, BeforeStep
  <2>7. Holds(pos)'
    BY <2>1, <2>3, <2>6, StillHolds
  <2>8. BytesBefore(archive, pos + 1) = BytesBefore(archive, pos)
    BY <1>0, <2>2, <2>5, BytesStep
  <2>9. LoopInv'
    BY <2>1, <2>3, <2>4, <2>7, <2>8 DEF LoopInv
  <2>10. TarInv' /\ DoneInv'
    BY <2>1, LimitsAreNaturals DEF TarInv, DoneInv, TooMany
  <2> QED
    BY <2>9, <2>10 DEF Loop
<1>4. CASE WriteEntry
  <2>1. /\ stage = "unpack" /\ stage' = "unpack" /\ ~TooMany /\ pos \in 1 .. Len(archive)
        /\ pos' = pos + 1 /\ UNCHANGED <<archive, format>> /\ total' = total + entry.size
        /\ entry.kind = "file" /\ Budget > 0
    BY <1>0, <1>4 DEF WriteEntry, Copy, Puts, Writing, Reading, upload
  <2>2. pos \in Files(archive) /\ ~entry.rooted /\ ~Climbs(entry)
    BY <1>0, <1>4, WritingLands DEF WriteEntry, Copy, Puts
  <2>3. Fine(format, archive, pos) /\ total = BytesBefore(archive, pos)
    BY <2>1 DEF Loop, LoopInv
  <2>4. BytesBefore(archive, pos) < MaxUnpackedBytes
    BY <1>0, <2>1, <2>3, LimitsAreNaturals DEF Budget
  <2>5. Fine(format, archive, pos + 1)
    BY <1>0, <2>1, <2>2, <2>3, <2>4, FineStep DEF entry
  <2>6. pos \in Nat
    BY <2>1
  <2>7. Holds(pos)'
    BY <1>0, <1>4, StepHolds DEF Loop
  <2>8. BytesBefore(archive, pos + 1) = BytesBefore(archive, pos) + entry.size
    BY <1>0, <2>2, <2>6, BytesStep DEF entry
  <2>9. LoopInv'
    BY <2>1, <2>3, <2>5, <2>7, <2>8 DEF LoopInv
  <2>10. TarInv' /\ DoneInv'
    BY <2>1, LimitsAreNaturals DEF TarInv, DoneInv, TooMany
  <2> QED
    BY <2>9, <2>10 DEF Loop
<1>5. CASE Unpacked /\ stage' = "name"
  <2>1. /\ stage = "unpack" /\ stage' = "name" /\ ~TooMany /\ pos = Len(archive) + 1 /\ total # 0
        /\ UNCHANGED <<archive, format, pos, total, staging>>
    BY <1>0, <1>5 DEF Unpacked, upload
  <2>2. Fine(format, archive, pos) /\ Holds(pos) /\ total = BytesBefore(archive, pos)
    BY <2>1 DEF Loop, LoopInv
  <2>3. Holds(pos)'
    BY <2>1, <2>2, StillHolds
  <2>4. LoopInv'
    BY <2>1, <2>2, <2>3 DEF LoopInv
  <2>5. Len(archive) <= MaxArchiveEntries
    <3>1. format = "zip" => Len(archive) <= MaxArchiveEntries
      BY <1>0, <2>1, LimitsAreNaturals DEF TooMany
    <3>2. format = "tar" => Len(archive) <= MaxArchiveEntries
      BY <1>0, <2>1, LimitsAreNaturals DEF Loop, TarInv
    <3> QED
      BY <1>0, <3>1, <3>2 DEF TypeOK
  <2>6. TarInv' /\ DoneInv'
    BY <1>0, <2>1, <2>5 DEF TarInv, DoneInv
  <2> QED
    BY <2>4, <2>6 DEF Loop
<1>6. CASE Accept
  <2>1. stage = "name" /\ stage' = "accepted" /\ UNCHANGED <<archive, pos, total>>
    BY <1>6 DEF Accept, upload
  <2> QED
    BY <2>1 DEF Loop, LoopInv, TarInv, DoneInv
<1>7. RefuseTooMany \/ RefuseDamaged \/ RefuseBroken \/ RefuseOutside \/ RefuseUnwritable
       \/ RefuseTooBig \/ RefuseName
        => stage' = "refused"
  BY DEF RefuseTooMany, RefuseDamaged, RefuseBroken, RefuseOutside, RefuseUnwritable, RefuseTooBig,
         RefuseName, Refuse
<1>8. Unpacked => stage' \in {"refused", "name"}
  BY DEF Unpacked
<1> QED
  BY <1>1, <1>2, <1>3, <1>4, <1>5, <1>6, <1>7, <1>8 DEF Next

-----------------------------------------------------------------------------
(* The verdict. *)

\* The paths of an archive.
Landings(a) == {Lands(a[i]) : i \in Files(a)}

\* The reference, for the paths of an archive.
LEMMA InstallsIs ==
  ASSUME NEW a, NEW form, NEW p
  PROVE  Installs(a, form, p) <=>
           /\ \E found \in {p, GenericDBName} :
                /\ {q \in Project : <<Db[q]>> \in Landings(a)} = {found}
                /\ found = GenericDBName => form = p
           /\ form \in {NoProject, p}
           /\ p \in Proper
           /\ ~\E path \in Landings(a) : IsStrictPrefix(<<Db[p]>>, path)
BY DEF Installs, Landings

\* When all is unpacked, the staging directory holds what the archive holds.
LEMMA AllUnpacked ==
  ASSUME Frame, Loop, stage = "name"
  PROVE  /\ archive \in Seq(Entry) /\ Before(archive, pos) = Files(archive)
         /\ Fine(format, archive, pos) /\ Holds(pos)
         /\ Landings(archive) \subseteq Paths
         /\ DOMAIN staging = {At(path) : path \in Landings(archive)}
         /\ \A path \in Paths : At(path) \in DOMAIN staging <=> path \in Landings(archive)
         /\ Databases = {q \in Project : <<Db[q]>> \in Landings(archive)}
         /\ \A p \in Project : IsDirectory(Database(p)) <=>
              \E path \in Landings(archive) : IsStrictPrefix(<<Db[p]>>, path)
<1>1. /\ archive \in Seq(Entry) /\ Len(archive) \in Nat /\ pos = Len(archive) + 1
      /\ Fine(format, archive, pos) /\ Holds(pos)
  BY ArchivesHoldEntries DEF Frame, TypeOK, Loop, LoopInv, DoneInv
<1>2. Before(archive, pos) = Files(archive)
  <2>1. \A i \in Files(archive) : i \in 1 .. Len(archive)
    BY <1>1, FilesAre
  <2>2. \A i \in Files(archive) : i < pos
    BY <1>1, <2>1
  <2> QED
    BY <2>2 DEF Before
<1>3. Landings(archive) \subseteq Paths
  <2>1. ASSUME NEW i \in Files(archive)
        PROVE  Lands(archive[i]) \in Paths
    BY <1>1, <1>2, FileLands DEF Fine
  <2> QED
    BY <2>1 DEF Landings
<1>4. DOMAIN staging = {At(path) : path \in Landings(archive)}
  BY <1>1, <1>2 DEF Holds, Landings
<1>5. \A path \in Paths : At(path) \in DOMAIN staging <=> path \in Landings(archive)
  BY <1>3, <1>4, AtPrefix
<1>6. \A p \in Project : Database(p) \in DOMAIN staging <=> <<Db[p]>> \in Landings(archive)
  BY <1>5, DatabaseIsAt
<1>7. Databases = {q \in Project : <<Db[q]>> \in Landings(archive)}
  BY <1>6 DEF Databases
<1>8. ASSUME NEW p \in Project
      PROVE  IsDirectory(Database(p)) <=> \E path \in Landings(archive) : IsStrictPrefix(<<Db[p]>>, path)
  <2>1. Database(p) = At(<<Db[p]>>) /\ <<Db[p]>> \in Paths
    BY DatabaseIsAt
  <2>2. \A path \in Landings(archive) : IsStrictPrefix(At(<<Db[p]>>), At(path)) <=> IsStrictPrefix(<<Db[p]>>, path)
    BY <1>3, <2>1, AtPrefix
  <2> QED
    BY <1>4, <2>1, <2>2 DEF IsDirectory
<1> QED
  BY <1>1, <1>2, <1>3, <1>4, <1>5, <1>7, <1>8

\* What gets to the choice of the name can be unpacked, by the reference.
LEMMA NameIsUnpackable ==
  ASSUME Frame, Loop, stage = "name"
  PROVE  Unpackable(format, archive)
<1>1. /\ archive \in Seq(Entry) /\ Before(archive, pos) = Files(archive) /\ Fine(format, archive, pos)
      /\ Landings(archive) \subseteq Paths /\ DOMAIN staging = {At(path) : path \in Landings(archive)}
  BY AllUnpacked
<1>2. /\ Len(archive) \in Nat /\ pos = Len(archive) + 1 /\ Len(archive) <= MaxArchiveEntries
      /\ total = BytesBefore(archive, Len(archive) + 1) /\ total > 0 /\ total \in 0 .. MaxUnpackedBytes
  BY ArchivesHoldEntries DEF Frame, TypeOK, Loop, LoopInv, DoneInv
<1>3. \A i \in DOMAIN archive : archive[i].kind = "damaged" => format = "zip" /\ Nowhere(archive[i])
  <2>1. \A i \in DOMAIN archive : i < pos
    BY <1>1, <1>2
  <2> QED
    BY <1>1, <2>1 DEF Fine
<1>4. \A i \in Files(archive) :
        ~archive[i].rooted /\ ~Climbs(archive[i]) /\ BytesBefore(archive, i) < MaxUnpackedBytes
  BY <1>1 DEF Fine
<1>5. ASSUME NEW i \in Files(archive), NEW j \in Files(archive)
      PROVE  ~IsStrictPrefix(Lands(archive[i]), Lands(archive[j]))
  <2> DEFINE q == Lands(archive[i])
             r == Lands(archive[j])
  <2>1. q \in Landings(archive) /\ r \in Landings(archive)
    BY DEF Landings
  <2> HIDE DEF q, r
  <2>2. ~IsStrictPrefix(At(q), At(r))
    BY <1>1, <2>1 DEF Frame, FlatInv
  <2>3. ~IsStrictPrefix(q, r)
    BY <1>1, <2>1, <2>2, AtPrefix
  <2> QED
    BY <2>3 DEF q, r
<1>6. BytesBefore(archive, Len(archive) + 1) \in 1 .. MaxUnpackedBytes
  BY <1>2
<1> QED
  BY <1>2, <1>3, <1>4, <1>5, <1>6 DEF Unpackable

\* What is accepted fits the reference.
LEMMA AcceptFits ==
  ASSUME Frame, Loop, Accept
  PROVE  (Unpackable(format, archive) /\ Installs(archive, requested, project))'
<1>1. stage = "name" /\ UNCHANGED <<archive, format, requested>>
  BY DEF Accept, upload
<1>2. Unpackable(format, archive)
  BY <1>1, NameIsUnpackable
<1>3. PICK found \in Project : Installed(found)
  BY AcceptInstalls DEF Frame
<1> DEFINE p == project'
<1>4. /\ Databases = {found} /\ p \in Project /\ p \in Proper /\ requested \in {NoProject, p}
      /\ found = GenericDBName => p = requested
      /\ found # GenericDBName => p = found
      /\ \A q \in DOMAIN staging : ~IsStrictPrefix(Database(p), q)
  BY <1>3 DEF Installed
<1>5. /\ Databases = {q \in Project : <<Db[q]>> \in Landings(archive)}
      /\ \A q \in Project : IsDirectory(Database(q)) <=>
           \E path \in Landings(archive) : IsStrictPrefix(<<Db[q]>>, path)
  BY <1>1, AllUnpacked
<1> HIDE DEF p
<1>6. ~\E path \in Landings(archive) : IsStrictPrefix(<<Db[p]>>, path)
  BY <1>4, <1>5 DEF IsDirectory
<1>7. found \in {p, GenericDBName} /\ (found = GenericDBName => requested = p)
  BY <1>4
<1>8. Installs(archive, requested, p)
  BY <1>4, <1>5, <1>6, <1>7, InstallsIs
<1>9. Unpackable(format', archive') /\ Installs(archive', requested', p)
  BY <1>1, <1>2, <1>8
<1> QED
  BY <1>9 DEF p

\* What is refused does not.
LEMMA RefuseFits ==
  ASSUME Frame, Loop, [Next]_vars, stage # "refused", stage' = "refused"
  PROVE  ~(Unpackable(format, archive) /\ \E p \in Project : Installs(archive, requested, p))
<1> SUFFICES ASSUME Unpackable(format, archive), NEW p \in Project, Installs(archive, requested, p)
             PROVE  FALSE
  OBVIOUS
<1>0. /\ archive \in Seq(Entry) /\ Len(archive) \in Nat /\ pos \in 1 .. Len(archive) + 1 /\ TypeOK
      /\ total \in 0 .. MaxUnpackedBytes /\ MaxUnpackedBytes \in Nat /\ MaxArchiveEntries \in Nat
  BY ArchivesHoldEntries, LimitsAreNaturals DEF Frame, TypeOK
<1>1. /\ Len(archive) <= MaxArchiveEntries
      /\ \A i \in DOMAIN archive : archive[i].kind = "damaged" => format = "zip" /\ Nowhere(archive[i])
      /\ \A i \in Files(archive) :
           /\ ~archive[i].rooted /\ ~Climbs(archive[i])
           /\ BytesBefore(archive, i) < MaxUnpackedBytes
           /\ \A j \in Files(archive) : ~IsStrictPrefix(Lands(archive[i]), Lands(archive[j]))
      /\ BytesBefore(archive, Len(archive) + 1) \in 1 .. MaxUnpackedBytes
  BY DEF Unpackable
<1>2. CASE RefuseTooMany
  BY <1>0, <1>1, <1>2 DEF RefuseTooMany, TooMany
<1>3. CASE Reading
  <2>1. /\ entry \in Entry /\ pos \in 1 .. Len(archive) /\ pos \in DOMAIN archive /\ entry = archive[pos]
        /\ stage = "unpack"
    BY <1>0, <1>3, EntryIsTyped DEF entry, Reading
  <2>2. /\ Path = NoPath <=> Nowhere(entry)
        /\ ~Nowhere(entry) /\ ~entry.rooted /\ ~Climbs(entry) => Path # Outside
    BY <2>1, EntryPathRead DEF Path
  <2>3. /\ Fine(format, archive, pos) /\ Holds(pos) /\ total = BytesBefore(archive, pos)
    BY <2>1 DEF Loop, LoopInv
  <2>4. ASSUME RefuseDamaged \/ RefuseBroken
        PROVE  FALSE
    <3>1. entry.kind = "damaged" /\ (format = "zip" => Path # NoPath)
      BY <2>4 DEF RefuseDamaged, Damaged, RefuseBroken
    <3> QED
      BY <1>1, <2>1, <2>2, <3>1
  <2>5. ASSUME RefuseOutside
        PROVE  FALSE
    <3>1. Path = Outside /\ entry.kind # "other"
      BY <2>5 DEF RefuseOutside
    <3>2. ~Nowhere(entry)
      BY <2>2, <3>1 DEF NoPath, Outside
    <3>3. entry.kind # "damaged"
      BY <1>1, <2>1, <3>2
    <3>4. entry.kind = "file"
      BY <2>1, <3>1, <3>3 DEF Entry
    <3>5. pos \in Files(archive)
      BY <2>1, <3>2, <3>4 DEF Files
    <3> QED
      BY <1>1, <2>1, <2>2, <3>1, <3>2, <3>5
  <2>6. ASSUME Writing
        PROVE  /\ pos \in Files(archive) /\ Path = At(Lands(archive[pos])) /\ Lands(archive[pos]) \in Paths
               /\ Budget > 0
               /\ ~Blocked(Path)
               /\ entry.size <= Budget
    <3>1. pos \in Files(archive) /\ Path = At(Lands(archive[pos])) /\ Lands(archive[pos]) \in Paths
      BY <1>0, <2>1, <2>6, WritingLands
    <3>2. BytesBefore(archive, pos) < MaxUnpackedBytes
      BY <1>1, <3>1
    <3>3. Budget > 0
      BY <1>0, <2>3, <3>2 DEF Budget
    <3>4. ASSUME NEW q \in DOMAIN staging
          PROVE  ~IsStrictPrefix(Path, q) /\ ~IsStrictPrefix(q, Path)
      <4>1. PICK i \in Before(archive, pos) : q = At(Lands(archive[i]))
        BY <2>3 DEF Holds
      <4>2. i \in Files(archive)
        BY DEF Before
      <4>3. Lands(archive[i]) \in Paths
        BY <1>0, <1>1, <4>2, FileLands
      <4>4. /\ ~IsStrictPrefix(Lands(archive[i]), Lands(archive[pos]))
            /\ ~IsStrictPrefix(Lands(archive[pos]), Lands(archive[i]))
        BY <1>1, <3>1, <4>2
      <4> QED
        BY <3>1, <4>1, <4>3, <4>4, AtPrefix
    <3>5. ~Blocked(Path)
      BY <3>4 DEF Blocked, IsDirectory
    <3>6. entry.size <= Budget
      <4>1. pos \in Nat /\ pos + 1 \in Nat /\ Len(archive) + 1 \in Nat /\ pos + 1 <= Len(archive) + 1
        BY <1>0, <2>1
      <4>2. BytesBefore(archive, pos + 1) = BytesBefore(archive, pos) + archive[pos].size
        BY <1>0, <3>1, <4>1, BytesStep
      <4>3. BytesBefore(archive, pos + 1) <= BytesBefore(archive, Len(archive) + 1)
        BY <1>0, <4>1, BytesGrow
      <4>4. entry.size \in Nat /\ entry.size = archive[pos].size
        BY <2>1 DEF Entry
      <4> QED
        BY <1>0, <1>1, <2>3, <4>2, <4>3, <4>4 DEF Budget
    <3> QED
      BY <3>1, <3>3, <3>5, <3>6
  <2>7. ASSUME RefuseUnwritable
        PROVE  FALSE
    BY <1>0, <2>6, <2>7 DEF RefuseUnwritable, Budget
  <2>8. ASSUME RefuseTooBig
        PROVE  FALSE
    <3>1. Writing /\ entry.size > Budget
      BY <2>8 DEF RefuseTooBig, Copy
    <3>2. entry.size \in Nat /\ Budget \in Int
      BY <1>0, <2>1 DEF Entry, Budget
    <3> QED
      BY <2>6, <3>1, <3>2
  <2>9. ~Skip /\ ~WriteEntry /\ ~Unpacked /\ ~RefuseName /\ ~Accept /\ ~UNCHANGED vars
    BY <1>0, <1>3, <2>1 DEF Skip, WriteEntry, Unpacked, RefuseName, Accept, vars
  <2> QED
    BY <1>2, <2>4, <2>5, <2>7, <2>8, <2>9 DEF Next
<1>4. CASE Unpacked
  <2>1. total = 0 /\ stage = "unpack" /\ pos = Len(archive) + 1
    BY <1>0, <1>4 DEF Unpacked
  <2>2. total = BytesBefore(archive, Len(archive) + 1)
    BY <2>1 DEF Loop, LoopInv
  <2> QED
    BY <1>1, <2>1, <2>2
<1>5. CASE RefuseName
  <2>1. stage = "name"
    BY <1>5 DEF RefuseName
  <2>2. PICK found \in {p, GenericDBName} :
          /\ {q \in Project : <<Db[q]>> \in Landings(archive)} = {found}
          /\ found = GenericDBName => requested = p
          /\ requested \in {NoProject, p} /\ p \in Proper
          /\ ~\E path \in Landings(archive) : IsStrictPrefix(<<Db[p]>>, path)
    BY InstallsIs
  <2>3. Databases = {found} /\ ~IsDirectory(Database(p))
    BY <2>1, <2>2, AllUnpacked
  <2>4. found \in Project
    BY NamesAreDistinct
  <2>5. NameFor(found) = p /\ p # NoProject
    BY <2>2, NamesAreDistinct DEF NameFor
  <2> QED
    BY <1>5, <2>3, <2>4, <2>5 DEF RefuseName
<1>6. CASE UNCHANGED vars
  BY <1>6 DEF vars
<1>7. ASSUME \/ Skip \/ WriteEntry \/ RefuseDamaged \/ RefuseBroken \/ RefuseOutside
             \/ RefuseUnwritable \/ RefuseTooBig
      PROVE  Reading
  BY <1>7 DEF Skip, WriteEntry, RefuseDamaged, RefuseBroken, RefuseOutside, RefuseUnwritable,
               RefuseTooBig, Copy, Writing
<1>8. Accept => stage' = "accepted"
  BY DEF Accept
<1> QED
  BY <1>2, <1>3, <1>4, <1>5, <1>6, <1>7, <1>8 DEF Next

\* Once there is a verdict nothing happens any more.
LEMMA VerdictStays ==
  ASSUME [Next]_vars, stage \in {"accepted", "refused"}
  PROVE  UNCHANGED vars
BY DEF Next, RefuseTooMany, RefuseDamaged, RefuseBroken, Skip, RefuseOutside, RefuseUnwritable, RefuseTooBig,
       WriteEntry, Unpacked, RefuseName, Accept, Copy, Writing, Reading

\* Nothing else accepts.
LEMMA AcceptedByAccept ==
  ASSUME [Next]_vars, stage # "accepted", stage' = "accepted"
  PROVE  Accept
BY DEF Next, vars, RefuseTooMany, RefuseDamaged, RefuseBroken, Skip, RefuseOutside, RefuseUnwritable, RefuseTooBig,
       WriteEntry, Unpacked, RefuseName, Copy, Writing, Reading, Refuse

\* A step into a verdict fits the reference.
LEMMA StepExactly ==
  ASSUME Frame, Loop, AcceptedExactly, [Next]_vars
  PROVE  AcceptedExactly'
<1>1. CASE stage \in {"accepted", "refused"}
  <2>1. UNCHANGED vars
    BY <1>1, VerdictStays
  <2>2. UNCHANGED <<stage, archive, format, requested, project>>
    BY <2>1 DEF vars
  <2> QED
    BY <2>2 DEF AcceptedExactly
<1>2. CASE stage' = "accepted" /\ stage # "accepted"
  <2>1. (Unpackable(format, archive) /\ Installs(archive, requested, project))'
    BY <1>2, AcceptedByAccept, AcceptFits
  <2> QED
    BY <1>2, <2>1 DEF AcceptedExactly
<1>3. CASE stage' = "refused" /\ stage # "refused"
  <2>1. ~(Unpackable(format, archive) /\ \E p \in Project : Installs(archive, requested, p))
    BY <1>3, RefuseFits
  <2>2. UNCHANGED <<archive, format, requested>>
    BY DEF Next, vars, upload, RefuseTooMany, RefuseDamaged, RefuseBroken, Skip, RefuseOutside, RefuseUnwritable,
           RefuseTooBig, WriteEntry, Unpacked, RefuseName, Accept, Refuse
  <2> QED
    BY <1>3, <2>1, <2>2 DEF AcceptedExactly
<1>4. CASE stage' \notin {"accepted", "refused"}
  BY <1>4 DEF AcceptedExactly
<1> QED
  BY <1>1, <1>2, <1>3, <1>4

\* The last entry of a path, all of those, and where they are once installed.
LastOf(a, i)  == \A j \in Files(a) : Lands(a[j]) = Lands(a[i]) => j <= i
Lasts(a)      == {i \in Files(a) : LastOf(a, i)}
Home(p, path) == IF path = <<Db[GenericDBName]>> THEN Database(p) ELSE At(path)

\* UnpacksWhatItHolds, with the variables as parameters.
Unpacks(st, p, a, files) ==
  st = "accepted" =>
    /\ DOMAIN files = {Home(p, Lands(a[i])) : i \in Lasts(a)}
    /\ \A i \in Lasts(a) : files[Home(p, Lands(a[i]))] = a[i].size

\* The property, before and after a step.
LEMMA UnpacksIs ==
  /\ UnpacksWhatItHolds <=> Unpacks(stage, project, archive, staging)
  /\ UnpacksWhatItHolds' <=> Unpacks(stage', project', archive', staging')
<1>1. UnpacksWhatItHolds <=> Unpacks(stage, project, archive, staging)
  BY DEF UnpacksWhatItHolds, Unpacks, Home, Lasts, LastOf, At, Database, Files, Lands, Kept, Nowhere, Climbs
<1>2. UnpacksWhatItHolds' <=> Unpacks(stage', project', archive', staging')
  BY DEF UnpacksWhatItHolds, Unpacks, Home, Lasts, LastOf, At, Database, Files, Lands, Kept, Nowhere, Climbs
<1> QED
  BY <1>1, <1>2

\* Each path has a last entry.
LEMMA LastExists ==
  ASSUME NEW a \in Seq(Entry), NEW i \in Files(a)
  PROVE  \E k \in Lasts(a) : Lands(a[k]) = Lands(a[i])
<1> DEFINE s == {j \in Files(a) : Lands(a[j]) = Lands(a[i])}
           n == Len(a)
<1>1. n \in Nat /\ s \in SUBSET (1 .. n) /\ s # {}
  BY FilesAre
<1>2. Max(s) \in s /\ \A j \in s : Max(s) >= j
  <2> HIDE DEF s, n
  <2> QED
    BY <1>1, LargestOf
<1>3. Max(s) \in Files(a) /\ Lands(a[Max(s)]) = Lands(a[i])
  BY <1>2
<1>4. \A j \in Files(a) : Lands(a[j]) = Lands(a[Max(s)]) => j <= Max(s)
  <2>1. \A j \in Files(a) : Lands(a[j]) = Lands(a[i]) => j \in s
    OBVIOUS
  <2>2. \A j \in s : j \in Nat /\ Max(s) \in Nat
    BY <1>1, <1>2
  <2> HIDE DEF s
  <2> QED
    BY <1>2, <1>3, <2>1, <2>2
<1> HIDE DEF s
<1> QED
  BY <1>3, <1>4 DEF Lasts, LastOf

\* The database has the name of the project, and everything else the path it had.
LEMMA AcceptUnpacks ==
  ASSUME Frame, Loop, Accept
  PROVE  UnpacksWhatItHolds'
<1>1. stage = "name" /\ archive' = archive
  BY DEF Accept, upload
<1>2. /\ archive \in Seq(Entry) /\ Before(archive, pos) = Files(archive)
      /\ Holds(pos) /\ Landings(archive) \subseteq Paths
      /\ DOMAIN staging = {At(path) : path \in Landings(archive)}
      /\ Databases = {q \in Project : <<Db[q]>> \in Landings(archive)}
  BY <1>1, AllUnpacked
<1>3. PICK found \in Project : Installed(found)
  BY AcceptInstalls DEF Frame
<1> DEFINE p == project'
           x == Database(found)
           y == Database(p)
           D == DOMAIN staging
<1>4. /\ x \in D /\ DOMAIN staging' = (D \ {x}) \cup {y} /\ y \notin D \ {x}
      /\ staging'[y] = staging[x] /\ \A z \in D \ {x} : staging'[z] = staging[z]
      /\ Databases = {found} /\ (found # GenericDBName => p = found) /\ p \in Project
  BY <1>3 DEF Installed
<1>5. x = At(<<Db[found]>>) /\ <<Db[found]>> \in Paths /\ <<Db[GenericDBName]>> \in Paths
      /\ \A q \in Project : <<Db[found]>> = <<Db[q]>> => found = q
  BY DatabaseIsAt, NamesAreDistinct
<1>6. ASSUME NEW path \in Landings(archive)
      PROVE  Home(p, path) = IF At(path) = x THEN y ELSE At(path)
  <2>1. path \in Paths
    BY <1>2
  <2>2. At(path) = x <=> path = <<Db[found]>>
    BY <1>5, <2>1, AtPrefix
  <2>3. CASE path = <<Db[GenericDBName]>>
    <3>1. GenericDBName \in Databases
      BY <1>2, <2>3, NamesAreDistinct
    <3>2. found = GenericDBName
      BY <1>4, <3>1
    <3> QED
      BY <2>2, <2>3, <3>2 DEF Home
  <2>4. CASE path # <<Db[GenericDBName]>>
    <3>1. At(path) = x => y = x
      BY <1>4, <2>2, <2>4
    <3> QED
      BY <2>4, <3>1 DEF Home
  <2> QED
    BY <2>3, <2>4
<1>7. \A i \in Files(archive) : Lands(archive[i]) \in Landings(archive)
  BY DEF Landings
<1>8. Landings(archive) = {Lands(archive[i]) : i \in Lasts(archive)}
  <2>1. \A path \in Landings(archive) : \E k \in Lasts(archive) : path = Lands(archive[k])
    BY <1>2, LastExists DEF Landings
  <2>2. \A k \in Lasts(archive) : k \in Files(archive)
    BY DEF Lasts
  <2> QED
    BY <1>7, <2>1, <2>2
<1>9. DOMAIN staging' = {Home(p, path) : path \in Landings(archive)}
  <2> DEFINE new(path) == IF At(path) = x THEN y ELSE At(path)
             P == Landings(archive)
  <2>1. {new(path) : path \in P} = (D \ {x}) \cup {y}
    <3>1. D = {At(path) : path \in P} /\ x \in D
      BY <1>2, <1>4
    <3> HIDE DEF D, P, x, y
    <3>2. \A path \in P : new(path) \in (D \ {x}) \cup {y}
      BY <3>1
    <3>3. \A z \in (D \ {x}) \cup {y} : \E path \in P : z = new(path)
      BY <3>1
    <3> HIDE DEF new
    <3> QED
      BY <3>2, <3>3
  <2>2. \A path \in P : Home(p, path) = new(path)
    BY <1>6
  <2> HIDE DEF new, p, P
  <2>3. {Home(p, path) : path \in P} = {new(path) : path \in P}
    BY <2>2
  <2> QED
    BY <1>4, <2>1, <2>3 DEF P
<1>10. DOMAIN staging' = {Home(p, Lands(archive[i])) : i \in Lasts(archive)}
  <2> HIDE DEF p
  <2> QED
    BY <1>8, <1>9
<1>11. ASSUME NEW i \in Lasts(archive)
       PROVE  staging'[Home(p, Lands(archive[i]))] = archive[i].size
  <2>1. i \in Files(archive) /\ \A j \in Files(archive) : Lands(archive[j]) = Lands(archive[i]) => j <= i
    BY DEF Lasts, LastOf
  <2>2. staging[At(Lands(archive[i]))] = archive[i].size
    BY <1>2, <2>1 DEF Holds
  <2> DEFINE path == Lands(archive[i])
  <2>3. path \in Landings(archive) /\ At(path) \in D
    BY <1>2, <1>7, <2>1
  <2>4. Home(p, path) = IF At(path) = x THEN y ELSE At(path)
    BY <1>6, <2>3
  <2> HIDE DEF path, p, x, y, D
  <2>5. staging'[Home(p, path)] = staging[At(path)]
    BY <1>4, <2>3, <2>4
  <2> QED
    BY <2>2, <2>5 DEF path
<1>12. Unpacks(stage', p, archive', staging')
  <2> HIDE DEF p
  <2> QED
    BY <1>1, <1>10, <1>11 DEF Unpacks
<1> QED
  BY <1>12, UnpacksIs DEF p

\* A step keeps what the staging directory holds of an accepted archive.
LEMMA StepUnpacks ==
  ASSUME Frame, Loop, UnpacksWhatItHolds, [Next]_vars
  PROVE  UnpacksWhatItHolds'
<1>1. CASE stage = "accepted"
  <2>1. UNCHANGED vars
    BY <1>1, VerdictStays
  <2>2. UNCHANGED <<stage, archive, project, staging>>
    BY <2>1 DEF vars
  <2> QED
    BY <2>2, UnpacksIs
<1>2. CASE stage' = "accepted" /\ stage # "accepted"
  BY <1>2, AcceptedByAccept, AcceptUnpacks
<1>3. CASE stage' # "accepted"
  BY <1>3 DEF UnpacksWhatItHolds
<1> QED
  BY <1>1, <1>2, <1>3

\* A step keeps that what is accepted is a project.
LEMMA StepAccepted ==
  ASSUME Frame, AcceptedIsProject, [Next]_vars
  PROVE  AcceptedIsProject'
<1>1. CASE stage = "accepted"
  <2>1. UNCHANGED vars
    BY <1>1, VerdictStays
  <2> QED
    BY <2>1 DEF vars, AcceptedIsProject, Databases, Database
<1>2. CASE stage' = "accepted" /\ stage # "accepted"
  <2>1. Accept
    BY <1>2, AcceptedByAccept
  <2>2. PICK found \in Project : Installed(found)
    BY <2>1, AcceptInstalls DEF Frame
  <2>3. Databases' = {project'}
    BY <2>2, InstalledKeeps DEF Frame
  <2>4. project' \in Proper /\ requested \in {NoProject, project'} /\ requested' = requested
    BY <2>1, <2>2 DEF Installed, Accept, upload
  <2> QED
    BY <2>3, <2>4 DEF AcceptedIsProject
<1>3. CASE stage' # "accepted"
  BY <1>3 DEF AcceptedIsProject
<1> QED
  BY <1>1, <1>2, <1>3

-----------------------------------------------------------------------------
(* The way back. *)

\* The files of a project that are downloaded.
Kepts == {Tail(p) : p \in {q \in DOMAIN staging : Last(q) \notin Backup}}

\* They are the paths of files, the database is one of them, and no other database.
LEMMA KeptsAre ==
  ASSUME Frame, AcceptedIsProject, stage = "accepted"
  PROVE  /\ Kepts \subseteq Paths /\ IsFiniteSet(Kepts)
         /\ Cardinality(Kepts) \in Nat /\ Cardinality(Kepts) <= Cardinality(DOMAIN staging)
         /\ \A q \in Kepts : At(q) \in DOMAIN staging
         /\ project \in Project
         /\ \A p \in Project : <<Db[p]>> \in Kepts <=> p = project
<1> DEFINE Y == {q \in DOMAIN staging : Last(q) \notin Backup}
           f == [p \in Y |-> Tail(p)]
<1>1. DOMAIN staging \subseteq Staged /\ IsFiniteSet(DOMAIN staging)
  BY DEF Frame, StagedInv
<1>2. \A p \in DOMAIN staging : Tail(p) \in Paths /\ At(Tail(p)) = p
  <2> SUFFICES ASSUME NEW p \in DOMAIN staging
               PROVE  Tail(p) \in Paths /\ At(Tail(p)) = p
    OBVIOUS
  <2>1. PICK q \in Paths : p = At(q)
    BY <1>1 DEF Staged
  <2>2. Tail(p) = q
    BY <2>1, AtIs
  <2> QED
    BY <2>1, <2>2
<1>3. /\ Kepts \subseteq Paths
      /\ \A q \in Kepts : At(q) \in DOMAIN staging
  BY <1>2 DEF Kepts
<1>4. IsFiniteSet(Y) /\ Cardinality(Y) <= Cardinality(DOMAIN staging) /\ Cardinality(Y) \in Nat
      /\ Cardinality(DOMAIN staging) \in Nat
  <2>1. Y \in SUBSET DOMAIN staging
    OBVIOUS
  <2> HIDE DEF Y
  <2> QED
    BY <1>1, <2>1, FS_Subset, FS_CardinalityType
<1>5. f \in Surjection(Y, Kepts)
  <2>1. Kepts = {Tail(p) : p \in Y}
    BY DEF Kepts
  <2>2. \A p \in Y : Tail(p) \in Kepts
    BY <2>1
  <2>3. f \in [Y -> Kepts]
    BY <2>2
  <2>4. \A q \in Kepts : \E p \in Y : f[p] = q
    BY <2>1
  <2> HIDE DEF f, Y
  <2> QED
    BY <2>3, <2>4 DEF Surjection
<1>6. IsFiniteSet(Kepts) /\ Cardinality(Kepts) <= Cardinality(Y)
  <2> HIDE DEF f, Y
  <2> QED
    BY <1>4, <1>5, FS_Surjection
<1>7. Cardinality(Kepts) \in Nat
  BY <1>6, FS_CardinalityType
<1>8. Databases = {project} /\ project \in Project
  BY NamesAreDistinct DEF AcceptedIsProject
<1>9. ASSUME NEW p \in Project
      PROVE  <<Db[p]>> \in Kepts <=> p = project
  <2>1. Database(p) = At(<<Db[p]>>) /\ <<Db[p]>> \in Paths /\ Last(Database(p)) = Db[p]
    BY DatabaseIsAt
  <2>2. p = project <=> Database(p) \in DOMAIN staging
    BY <1>8 DEF Databases
  <2>3. Database(p) \in DOMAIN staging => Database(p) \in Y
    BY <2>1, DatabasesAreNoBackups
  <2>4. Tail(Database(p)) = <<Db[p]>>
    BY <2>1, AtIs
  <2>5. Database(p) \in DOMAIN staging => <<Db[p]>> \in Kepts
    BY <2>3, <2>4 DEF Kepts
  <2>6. <<Db[p]>> \in Kepts => Database(p) \in DOMAIN staging
    BY <1>3, <2>1
  <2> QED
    BY <2>2, <2>5, <2>6
<1> HIDE DEF Y
<1> QED
  BY <1>3, <1>4, <1>6, <1>7, <1>8, <1>9

\* A download of so many files.
DownloadOf(paths) ==
  [i \in DOMAIN paths |->
     [kind |-> "file", rooted |-> FALSE, parts |-> paths[i],
      size |-> staging[<<Staging>> \o paths[i]]]]

\* A download has an entry for each of them.
LEMMA DownloadIs ==
  ASSUME Frame, AcceptedIsProject, stage = "accepted", NEW d \in Downloads
  PROVE  LET N == Cardinality(Kepts) IN
         \E paths \in [1 .. N -> Kepts] :
           /\ d = DownloadOf(paths)
           /\ \A i, j \in 1 .. N : paths[i] = paths[j] => i = j
           /\ \A q \in Kepts : \E i \in 1 .. N : q = paths[i]
<1> DEFINE N == Cardinality(Kepts)
           I == 1 .. N
<1>1. IsFiniteSet(Kepts) /\ N \in Nat
  BY KeptsAre
<1>2. Downloads = {DownloadOf(paths) : paths \in SetToSeqs(Kepts)}
  BY DEF Downloads, DownloadOf, Kepts
<1>3. PICK paths \in SetToSeqs(Kepts) : d = DownloadOf(paths)
  BY <1>2
<1>4. paths \in [I -> Kepts] /\ \A i, j \in I : i # j => paths[i] # paths[j]
  BY DEF SetToSeqs
<1>5. Cardinality(I) = N /\ IsFiniteSet(I)
  BY <1>1, FS_Interval
<1>6. \A i, j \in I : paths[i] = paths[j] => i = j
  BY <1>4
<1>7. paths \in Injection(I, Kepts)
  <2> HIDE DEF I
  <2> QED
    BY <1>4, <1>6 DEF Injection, IsInjective
<1>8. paths \in Surjection(I, Kepts)
  <2> HIDE DEF I
  <2> QED
    BY <1>1, <1>5, <1>7, FS_Injection
<1>9. \A q \in Kepts : \E i \in I : q = paths[i]
  <2> HIDE DEF I
  <2> QED
    BY <1>8 DEF Surjection
<1> QED
  BY <1>3, <1>4, <1>6, <1>9

\* An accepted project fits in the limits again, whatever the order.
LEMMA GoesBack ==
  ASSUME Frame, Loop, AcceptedIsProject
  PROVE  GoesStraightBackIn
<1> SUFFICES ASSUME stage = "accepted", NEW d \in Downloads, \A i \in DOMAIN d : d[i].size > 0
             PROVE  Unpackable("zip", d) /\ Installs(d, project, project)
  BY DEF GoesStraightBackIn
<1> DEFINE N == Cardinality(Kepts)
           I == 1 .. N
<1>1. PICK paths \in [I -> Kepts] :
        /\ d = DownloadOf(paths)
        /\ \A i, j \in I : paths[i] = paths[j] => i = j
        /\ \A q \in Kepts : \E i \in I : q = paths[i]
  BY DownloadIs
<1>2. /\ Kepts \subseteq Paths /\ IsFiniteSet(Kepts) /\ N \in Nat
      /\ N <= Cardinality(DOMAIN staging)
      /\ \A q \in Kepts : At(q) \in DOMAIN staging
      /\ project \in Project
      /\ \A p \in Project : <<Db[p]>> \in Kepts <=> p = project
  BY KeptsAre
<1>3. \A p \in DOMAIN staging : staging[p] \in Nat
  BY DEF Frame, TypeOK
<1>4. ASSUME NEW i \in I
      PROVE  /\ paths[i] \in Kepts /\ paths[i] \in Paths
             /\ d[i] = [kind |-> "file", rooted |-> FALSE, parts |-> paths[i], size |-> staging[At(paths[i])]]
             /\ d[i] \in Entry
             /\ d[i].kind = "file" /\ ~d[i].rooted /\ d[i].parts = paths[i]
             /\ d[i].size = staging[At(paths[i])] /\ d[i].size \in Nat /\ d[i].size > 0
  <2>1. paths[i] \in Kepts /\ paths[i] \in Paths /\ staging[At(paths[i])] \in Nat
    BY <1>2, <1>3
  <2>2. d[i] = [kind |-> "file", rooted |-> FALSE, parts |-> paths[i], size |-> staging[At(paths[i])]]
    BY <1>1 DEF DownloadOf, At
  <2>3. paths[i] \in Seq(Part \cup {Up})
    BY <2>1 DEF Paths
  <2>4. d[i].size > 0
    BY <1>1 DEF DownloadOf
  <2> QED
    BY <2>1, <2>2, <2>3, <2>4 DEF Entry
<1>5. d \in Seq(Entry) /\ Len(d) = N /\ DOMAIN d = I
  <2>1. DOMAIN d = I
    BY <1>1 DEF DownloadOf
  <2>2. d = [i \in I |-> d[i]]
    BY <1>1 DEF DownloadOf
  <2>3. \A i \in I : d[i] \in Entry
    BY <1>4
  <2>4. d \in [I -> Entry]
    BY <2>2, <2>3
  <2> QED
    BY <1>2, <2>1, <2>4
<1>6. ASSUME NEW i \in I
      PROVE  Lands(d[i]) = paths[i] /\ ~Climbs(d[i]) /\ ~Nowhere(d[i])
  BY <1>4, PlainLands
<1>7. Files(d) = I
  BY <1>4, <1>5, <1>6 DEF Files
<1>8. N <= MaxArchiveEntries
  <2>1. Cardinality(DOMAIN staging) \in Nat
    BY StagingSums DEF Frame
  <2>2. Cardinality(DOMAIN staging) <= pos - 1 /\ pos = Len(archive) + 1 /\ Len(archive) <= MaxArchiveEntries
    BY DEF Frame, CountInv, Loop, DoneInv
  <2>3. Len(archive) \in Nat
    BY ArchivesHoldEntries DEF Frame, TypeOK
  <2> HIDE DEF N
  <2> QED
    BY <1>2, <2>1, <2>2, <2>3, LimitsAreNaturals
<1>9. BytesBefore(d, N + 1) <= MaxUnpackedBytes
  <2> DEFINE f == Sizes(d)
             h == staging
             name == [i \in I |-> At(paths[i])]
             R == {name[i] : i \in I}
             D == DOMAIN staging
             S == I
  <2>1. Before(d, N + 1) = S
    <3>1. \A i \in I : i < N + 1
      BY <1>2
    <3> QED
      BY <1>7, <3>1 DEF Before
  <2>2. BytesBefore(d, N + 1) = SumOf(f, S) /\ Summable(f, S)
    BY <1>5, <2>1, BytesAreSums, FilesAre
  <2>3. \A i, j \in S : name[i] = name[j] => i = j
    BY <1>1, <1>4, AtPrefix
  <2>4. \A i \in S : h[name[i]] = f[i]
    BY <1>4, <1>5 DEF Sizes
  <2>5. R \in SUBSET D
    BY <1>2, <1>4
  <2>6. Summable(h, D) /\ SumOf(h, D) <= total /\ SumOf(h, D) \in Nat
    BY StagingSums DEF Frame, BytesInv
  <2>7. total \in Nat /\ total <= MaxUnpackedBytes /\ MaxUnpackedBytes \in Nat
    BY LimitsAreNaturals DEF Frame, TypeOK
  <2>8. R = {name[i] : i \in S}
    OBVIOUS
  <2> HIDE DEF f, h, name, R, D, S
  <2>9. SumOf(f, S) = SumOf(h, R) /\ Summable(h, R)
    <3>1. /\ SumOf(f, S) = SumOf(h, {name[i] : i \in S})
          /\ Summable(h, {name[i] : i \in S})
      BY <2>2, <2>3, <2>4, SumRenamed
    <3> QED
      BY <2>8, <3>1
  <2>10. SumOf(h, R) <= SumOf(h, D)
    BY <2>5, <2>6, SumOfPart
  <2>11. SumOf(h, R) \in Nat
    BY <2>9, SumType
  <2> QED
    BY <2>2, <2>6, <2>7, <2>9, <2>10, <2>11
<1>10. ASSUME NEW i \in I
       PROVE  BytesBefore(d, i) < BytesBefore(d, N + 1)
  <2>1. i \in Nat /\ i + 1 \in Nat /\ N + 1 \in Nat /\ i + 1 <= N + 1 /\ i \in Files(d)
    BY <1>2, <1>7
  <2>2. BytesBefore(d, i + 1) = BytesBefore(d, i) + d[i].size
    BY <1>5, <2>1, BytesStep
  <2>3. BytesBefore(d, i + 1) <= BytesBefore(d, N + 1)
    BY <1>5, <2>1, BytesGrow
  <2>4. BytesBefore(d, i) \in Nat /\ BytesBefore(d, N + 1) \in Nat
    BY <1>5, BytesAreSums
  <2>5. d[i].size \in Nat /\ d[i].size > 0
    BY <1>4
  <2> QED
    BY <2>2, <2>3, <2>4, <2>5
<1>11. BytesBefore(d, N + 1) \in 1 .. MaxUnpackedBytes
  <2>1. PICK i \in I : <<Db[project]>> = paths[i]
    BY <1>1, <1>2
  <2>2. BytesBefore(d, i) < BytesBefore(d, N + 1) /\ BytesBefore(d, i) \in Nat /\ BytesBefore(d, N + 1) \in Nat
    BY <1>5, <1>10, BytesAreSums
  <2> QED
    BY <1>9, <2>2, LimitsAreNaturals
<1>12. ASSUME NEW q \in Kepts, NEW r \in Kepts
       PROVE  ~IsStrictPrefix(q, r)
  <2>1. ~IsStrictPrefix(At(q), At(r)) /\ q \in Paths /\ r \in Paths
    BY <1>2 DEF Frame, FlatInv
  <2> QED
    BY <2>1, AtPrefix
<1>13. Unpackable("zip", d)
  <2>1. \A i \in DOMAIN d : d[i].kind # "damaged"
    BY <1>4, <1>5
  <2>2. ASSUME NEW i \in Files(d)
        PROVE  /\ ~d[i].rooted /\ ~Climbs(d[i])
               /\ BytesBefore(d, i) < MaxUnpackedBytes
               /\ \A j \in Files(d) : ~IsStrictPrefix(Lands(d[i]), Lands(d[j]))
    <3>1. i \in I
      BY <1>7
    <3>2. ~d[i].rooted /\ ~Climbs(d[i])
      BY <1>4, <1>6, <3>1
    <3>3. BytesBefore(d, i) < MaxUnpackedBytes
      <4>1. BytesBefore(d, i) \in Nat /\ BytesBefore(d, N + 1) \in Nat
        BY <1>5, BytesAreSums
      <4> QED
        BY <1>9, <1>10, <3>1, <4>1, LimitsAreNaturals
    <3>4. \A j \in Files(d) : ~IsStrictPrefix(Lands(d[i]), Lands(d[j]))
      BY <1>4, <1>6, <1>7, <1>12, <3>1
    <3> QED
      BY <3>2, <3>3, <3>4
  <2>3. BytesBefore(d, Len(d) + 1) \in 1 .. MaxUnpackedBytes /\ Len(d) <= MaxArchiveEntries
    BY <1>5, <1>8, <1>11
  <2> QED
    BY <2>1, <2>2, <2>3 DEF Unpackable
<1>14. Landings(d) = Kepts
  <2>1. \A i \in I : Lands(d[i]) = paths[i] /\ paths[i] \in Kepts
    BY <1>4, <1>6
  <2> QED
    BY <1>1, <1>7, <2>1 DEF Landings
<1>15. Installs(d, project, project)
  <2>1. {q \in Project : <<Db[q]>> \in Landings(d)} = {project}
    BY <1>2, <1>14
  <2>2. project \in Proper
    BY DEF AcceptedIsProject
  <2>3. <<Db[project]>> \in Kepts
    BY <1>2
  <2>4. ~\E path \in Landings(d) : IsStrictPrefix(<<Db[project]>>, path)
    BY <1>12, <1>14, <2>3
  <2> DEFINE p == project
  <2>5. Installs(d, p, p) <=>
           /\ \E found \in {p, GenericDBName} :
                /\ {q \in Project : <<Db[q]>> \in Landings(d)} = {found}
                /\ found = GenericDBName => p = p
           /\ p \in {NoProject, p}
           /\ p \in Proper
           /\ ~\E path \in Landings(d) : IsStrictPrefix(<<Db[p]>>, path)
    BY InstallsIs
  <2> QED
    BY <2>1, <2>2, <2>4, <2>5
<1> QED
  BY <1>13, <1>15

\* The invariants give that nothing is written outside.
LEMMA FrameStaysInside == Frame => InsideStaging
<1> SUFFICES ASSUME Frame, NEW p \in DOMAIN staging
             PROVE  Inside(p) /\ \A i \in DOMAIN p : p[i] # Up
  BY DEF InsideStaging
<1>1. PICK q \in Paths : p = At(q)
  BY DEF Frame, StagedInv, Staged
<1> QED
  BY <1>1, AtIs

\* And that the disk is bounded.
LEMMA FrameIsBounded == Frame => DiskIsBounded
<1> SUFFICES ASSUME Frame
             PROVE  SumOf(staging, DOMAIN staging) <= MaxUnpackedBytes + 1
  BY DEF DiskIsBounded, SumOf
<1>1. total \in 0 .. MaxUnpackedBytes /\ MaxUnpackedBytes \in Nat
  BY LimitsAreNaturals DEF Frame, TypeOK
<1> DEFINE sum == SumOf(staging, DOMAIN staging)
<1>2. sum \in Nat /\ sum <= IF stage = "refused" THEN MaxUnpackedBytes + 1 ELSE total
  BY StagingSums DEF Frame, BytesInv
<1> HIDE DEF sum
<1>3. sum <= MaxUnpackedBytes + 1
  BY <1>1, <1>2
<1> QED
  BY <1>3 DEF sum

\* The invariants hold together.
THEOREM Holding == Spec => [](Frame /\ Loop)
<1>1. Init => Frame /\ Loop
  BY InitFrame, InitLoop
<1>2. Frame /\ Loop /\ [Next]_vars => Frame' /\ Loop'
  BY StepFrame, StepLoop
<1> QED
  BY <1>1, <1>2, PTL DEF Spec

\* Every variable keeps to the values the code can give it, whatever archive is
\* uploaded; what counts as unpacked is never more than the limit.
THEOREM TypeCorrect == Spec => []TypeOK
<1>1. Frame => TypeOK
  BY DEF Frame
<1> QED
  BY <1>1, Holding, PTL

\* Nothing is written outside the staging directory, and no path in it has a
\* "..", whatever the entries are called.
THEOREM WritesBelowStaging == Spec => []InsideStaging
BY FrameStaysInside, Holding, PTL

\* An upload never takes more of the disk than the limit and one byte.
THEOREM BoundsTheDisk == Spec => []DiskIsBounded
BY FrameIsBounded, Holding, PTL

\* An archive is accepted exactly when the reference, which reads it all at once,
\* says that it can be unpacked and installed, and as the project it says.
THEOREM AcceptsExactly == Spec => []AcceptedExactly
<1>1. Init => AcceptedExactly
  BY DEF Init, AcceptedExactly
<1>2. Frame /\ Loop /\ AcceptedExactly /\ [Next]_vars => AcceptedExactly'
  BY StepExactly
<1> QED
  BY <1>1, <1>2, Holding, PTL DEF Spec

\* What is installed is each path of the archive with the last of its entries.
THEOREM UnpacksAll == Spec => []UnpacksWhatItHolds
<1>1. Init => UnpacksWhatItHolds
  BY DEF Init, UnpacksWhatItHolds
<1>2. Frame /\ Loop /\ UnpacksWhatItHolds /\ [Next]_vars => UnpacksWhatItHolds'
  BY StepUnpacks
<1> QED
  BY <1>1, <1>2, Holding, PTL DEF Spec

\* What is installed is a project: its one database is called like its
\* directory, by a name that is allowed and that the form agrees with.
THEOREM InstallsProjects == Spec => []AcceptedIsProject
<1>1. Init => AcceptedIsProject
  BY DEF Init, AcceptedIsProject
<1>2. Frame /\ AcceptedIsProject /\ [Next]_vars => AcceptedIsProject'
  BY StepAccepted
<1> QED
  BY <1>1, <1>2, Holding, PTL DEF Spec

\* The download of a project whose files all hold something is accepted as the
\* same project, in whatever order the files come.
THEOREM DownloadsGoBack == Spec => []GoesStraightBackIn
BY GoesBack, Holding, InstallsProjects, PTL
==============================================================================
