------------------------------- MODULE Archive -------------------------------
(***************************************************************************)
(* Unpacking an uploaded archive and finding the project in it: unpackZip, *)
(* unpackTar, entryPath, writeEntry and projectInArchive of                *)
(* src/web/main.go, the choice of the name in uploadArchive, and what      *)
(* handleTagArchive makes of the project again.                            *)
(*                                                                         *)
(* A path is the sequence of its parts, whichever slash separates them,    *)
(* and a file is its size.                                                 *)
(***************************************************************************)
EXTENDS Naturals, FiniteSets, SequencesExt

CONSTANTS
  Part,               \* parts of paths other than ".."
  Up,                 \* ".."
  Staging,            \* the staging directory
  Project,            \* names a database can have, the empty one of ".db" as well
  NoProject,          \* the name left empty in the upload's form
  GenericDBName,      \* what C-Gate calls any project's database
  Proper,             \* the names that match projectNamePattern
  Db,                 \* the file name of each project's database
  Backup,             \* the parts that end in ".bak"
  Archives,           \* the archives that are uploaded: sequences of entries
  MaxUnpackedBytes,
  MaxArchiveEntries

Entry == [kind : {"file", "other", "damaged"}, rooted : BOOLEAN,
          parts : Seq(Part \cup {Up}), size : Nat]

ASSUME PartsAreDistinct == Up \notin Part /\ Staging \notin Part \cup {Up}
ASSUME NamesAreDistinct ==
  /\ NoProject \notin Project
  /\ GenericDBName \in Project
  /\ Proper \subseteq Project
  /\ Db \in [Project -> Part]
  /\ \A p, q \in Project : Db[p] = Db[q] => p = q
ASSUME DatabasesAreNoBackups == \A p \in Project : Db[p] \notin Backup
ASSUME ArchivesHoldEntries == Archives \subseteq Seq(Entry)
ASSUME LimitsAreNaturals == MaxUnpackedBytes \in Nat /\ MaxArchiveEntries \in Nat

VARIABLES
  archive,    \* the entries of the upload
  format,     \* "zip" or "tar", compressed or not
  requested,  \* the name in the form, or NoProject
  stage,      \* "unpack", "name", "accepted" or "refused"
  pos,        \* the entry that is next
  total,      \* the bytes unpacked so far
  staging,    \* the files in the staging directory
  project     \* the name it is installed as, or NoProject

upload == <<archive, format, requested>>
vars   == <<archive, format, requested, stage, pos, total, staging, project>>

Init ==
  /\ archive \in Archives
  /\ format \in {"zip", "tar"}
  /\ requested \in Project \cup {NoProject}
  /\ stage = "unpack"
  /\ pos = 1
  /\ total = 0
  /\ staging = <<>>
  /\ project = NoProject

-----------------------------------------------------------------------------
(* Paths. *)

\* path.Clean, a part further: ".." takes away the part before it; at the root it
\* is nothing, and at the start of a relative path it stays.
Take(rooted, done, part) ==
  IF part # Up THEN Append(done, part)
  ELSE IF done # <<>> /\ Last(done) # Up THEN Front(done)
  ELSE IF rooted THEN done
  ELSE Append(done, Up)

Clean(rooted, parts) ==
  FoldLeft(LAMBDA done, part : Take(rooted, done, part), <<>>, parts)

NoPath  == <<>>
Outside == <<Up>>

Inside(path) == IsStrictPrefix(<<Staging>>, path)

\* Mutant of EntryPath: a path that climbs out is cut at the root instead.
EntryPathRewrites(e) ==
  LET clean == Clean(TRUE, e.parts)
  IN IF clean = <<>> THEN NoPath ELSE <<Staging>> \o clean

\* Mutant of EntryPath: the tests are made on a path that is not cleaned.
EntryPathUncleaned(e) ==
  IF e.parts = <<>> THEN NoPath
  ELSE IF e.rooted \/ Head(e.parts) = Up THEN Outside
  ELSE <<Staging>> \o e.parts

\* entryPath: the path in the staging directory, NoPath for errSkipEntry, or
\* Outside for the other errors.
EntryPath(e) ==
  LET clean == Clean(e.rooted, e.parts)
      full  == Clean(TRUE, <<Staging>> \o clean)
  IN IF clean = <<>> THEN NoPath
     ELSE IF e.rooted \/ Head(clean) = Up \/ ~Inside(full) THEN Outside
     ELSE full

IsDirectory(path) == \E p \in DOMAIN staging : IsStrictPrefix(path, p)

\* MkdirAll and OpenFile fail where a file is in the way, or a directory.
Blocked(path) ==
  \/ IsDirectory(path)
  \/ \E p \in DOMAIN staging : IsStrictPrefix(p, path)

-----------------------------------------------------------------------------
(* unpackZip and unpackTar *)

Refuse ==
  /\ stage' = "refused"
  /\ UNCHANGED <<upload, pos, total, project>>

\* Every entry counts.  A zip says at its start how many it has; a tar is
\* unpacked up to the first too many.
TooMany ==
  \/ format = "zip" /\ Len(archive) > MaxArchiveEntries
  \/ format = "tar" /\ MaxArchiveEntries < pos /\ pos <= Len(archive)

RefuseTooMany ==
  /\ stage = "unpack"
  /\ TooMany
  /\ Refuse
  /\ UNCHANGED staging

\* The loop is at an entry.
Reading == stage = "unpack" /\ ~TooMany /\ pos <= Len(archive)
entry   == archive[pos]
Path    == EntryPath(entry)

\* A tar finds damage in a header before it looks at the entry, a zip after.
Damaged == entry.kind = "damaged" /\ (format = "zip" => Path \notin {NoPath, Outside})

RefuseDamaged ==
  /\ Reading
  /\ Damaged
  /\ Refuse
  /\ UNCHANGED staging

Budget == MaxUnpackedBytes - total

\* writeEntry opens and truncates the file and copies so many bytes to it.
Puts(size) ==
  /\ Budget > 0 /\ ~Blocked(Path)
  /\ staging' = [p \in DOMAIN staging \cup {Path} |-> IF p = Path THEN size ELSE staging[p]]

\* The damage is found in the contents: what was copied before it stays.
RefuseBroken ==
  /\ Reading
  /\ entry.kind = "damaged" /\ Path \notin {NoPath, Outside}
  /\ \E size \in 0 .. Budget + 1 : Puts(size)
  /\ Refuse

Skip ==
  /\ Reading
  /\ ~Damaged
  /\ entry.kind = "other" \/ Path = NoPath
  /\ pos' = pos + 1
  /\ UNCHANGED <<upload, stage, total, staging, project>>

RefuseOutside ==
  /\ Reading
  /\ ~Damaged
  /\ entry.kind # "other"
  /\ Path = Outside
  /\ Refuse
  /\ UNCHANGED staging

\* writeEntry is called.
Writing == Reading /\ entry.kind = "file" /\ Path \notin {NoPath, Outside}

RefuseUnwritable ==
  /\ Writing
  /\ Budget = 0 \/ Blocked(Path)
  /\ Refuse
  /\ UNCHANGED staging

Copy(size) == Writing /\ Puts(size)

\* Mutant of RefuseTooBig: the copy is not limited.
RefuseTooBigLate ==
  /\ Copy(entry.size)
  /\ entry.size > Budget
  /\ Refuse

\* One byte above the budget is copied, which shows that there are more.
RefuseTooBig ==
  /\ Copy(Budget + 1)
  /\ entry.size > Budget
  /\ Refuse

\* Mutant of WriteEntry: what a limited copy leaves out is not noticed.
WriteEntryUnchecked ==
  /\ Copy(entry.size)
  /\ total' = total + entry.size
  /\ pos' = pos + 1
  /\ UNCHANGED <<upload, stage, project>>

\* Mutant of WriteEntry: a file that is there already is appended to.
WriteEntryAppends ==
  /\ Copy(entry.size + IF Path \in DOMAIN staging THEN staging[Path] ELSE 0)
  /\ entry.size <= Budget
  /\ total' = total + entry.size
  /\ pos' = pos + 1
  /\ UNCHANGED <<upload, stage, project>>

WriteEntry ==
  /\ Copy(entry.size)
  /\ entry.size <= Budget
  /\ total' = total + entry.size
  /\ pos' = pos + 1
  /\ UNCHANGED <<upload, stage, project>>

Unpacked ==
  /\ stage = "unpack"
  /\ ~TooMany
  /\ pos > Len(archive)
  /\ stage' = IF total = 0 THEN "refused" ELSE "name"
  /\ UNCHANGED <<upload, pos, total, staging, project>>

-----------------------------------------------------------------------------
(* projectInArchive and the choice of the name *)

Database(p) == <<Staging, Db[p]>>

\* The databases at the top of the staging directory.
Databases == {p \in Project : Database(p) \in DOMAIN staging}

\* The name for the database found, or NoProject if it gets none.
NameFor(found) ==
  LET name == IF found = GenericDBName THEN requested ELSE found
  IN IF requested \notin {NoProject, name} \/ name \notin Proper THEN NoProject ELSE name

\* Mutant of Names: the database keeps the name it came with.
NamesNothing(found, name) == UNCHANGED staging

\* os.Rename of the database in the staging directory, which a directory of
\* the new name prevents.
Names(found, name) ==
  \/ name = found /\ UNCHANGED staging
  \/ /\ name # found
     /\ ~IsDirectory(Database(name))
     /\ staging' = [path \in (DOMAIN staging \ {Database(found)}) \cup {Database(name)} |->
                     staging[IF path = Database(name) THEN Database(found) ELSE path]]

Accept ==
  /\ stage = "name"
  /\ \E found \in Project :
       /\ Databases = {found}
       /\ NameFor(found) # NoProject
       /\ Names(found, NameFor(found))
       /\ project' = NameFor(found)
  /\ stage' = "accepted"
  /\ UNCHANGED <<upload, pos, total>>

RefuseName ==
  /\ stage = "name"
  /\ \/ \A found \in Project : Databases # {found}
     \/ \E found \in Databases :
          \/ NameFor(found) = NoProject
          \/ /\ NameFor(found) \in Project \ {found}
             /\ IsDirectory(Database(NameFor(found)))
  /\ Refuse
  /\ UNCHANGED staging

Next ==
  \/ RefuseTooMany \/ RefuseDamaged \/ RefuseBroken \/ Skip \/ RefuseOutside
  \/ RefuseUnwritable \/ RefuseTooBig \/ WriteEntry \/ Unpacked
  \/ RefuseName \/ Accept

Spec == Init /\ [][Next]_vars

-----------------------------------------------------------------------------
(* A reference: what an archive holds, read off its entries all at once. *)

Count(parts, range, up) == Cardinality({i \in range : (parts[i] = Up) = up})

\* More parts go up than down, somewhere on the way.
Climbs(e) ==
  \E n \in DOMAIN e.parts : Count(e.parts, 1 .. n, TRUE) > Count(e.parts, 1 .. n, FALSE)

\* The parts that nothing after them takes away.
Kept(e) ==
  {i \in DOMAIN e.parts :
     \A n \in i .. Len(e.parts) :
        Count(e.parts, i .. n, FALSE) > Count(e.parts, i .. n, TRUE)}
Lands(e) ==
  [n \in 1 .. Cardinality(Kept(e)) |->
     e.parts[CHOOSE i \in Kept(e) : Cardinality({k \in Kept(e) : k < i}) = n - 1]]

Nowhere(e) == Kept(e) = {} /\ (e.rooted \/ ~Climbs(e))

\* The indices of the entries that are files of the project.
Files(a) == {i \in DOMAIN a : a[i].kind = "file" /\ ~Nowhere(a[i])}

\* The bytes of the files before entry n.
BytesBefore(a, n) == MapThenSumSet(LAMBDA i : a[i].size, {i \in Files(a) : i < n})

Unpackable(f, a) ==
  /\ Len(a) <= MaxArchiveEntries
  /\ \A i \in DOMAIN a : a[i].kind = "damaged" => f = "zip" /\ Nowhere(a[i])
  /\ \A i \in Files(a) :
       /\ ~a[i].rooted /\ ~Climbs(a[i])
       /\ BytesBefore(a, i) < MaxUnpackedBytes
       /\ \A j \in Files(a) : ~IsStrictPrefix(Lands(a[i]), Lands(a[j]))
  /\ BytesBefore(a, Len(a) + 1) \in 1 .. MaxUnpackedBytes

\* The one database at the top, with its name for the form's.
Installs(a, form, p) ==
  LET paths == {Lands(a[i]) : i \in Files(a)}
  IN /\ \E found \in {p, GenericDBName} :
          /\ {q \in Project : <<Db[q]>> \in paths} = {found}
          /\ found = GenericDBName => form = p
     /\ form \in {NoProject, p}
     /\ p \in Proper
     /\ ~\E path \in paths : IsStrictPrefix(<<Db[p]>>, path)

\* What handleTagArchive makes of the files: an entry for each but backups.  The
\* walk has an order, on which nothing depends.
Downloads ==
  {[i \in DOMAIN paths |->
      [kind |-> "file", rooted |-> FALSE, parts |-> paths[i],
       size |-> staging[<<Staging>> \o paths[i]]]] :
     paths \in SetToSeqs({Tail(p) : p \in {q \in DOMAIN staging : Last(q) \notin Backup}})}

-----------------------------------------------------------------------------
(* Properties. *)

\* Every variable keeps to the values the code can give it; what counts as
\* unpacked is never more than the limit (main.go 846 and 885).
TypeOK ==
  /\ archive \in Archives
  /\ format \in {"zip", "tar"}
  /\ requested \in Project \cup {NoProject}
  /\ stage \in {"unpack", "name", "accepted", "refused"}
  /\ pos \in 1 .. Len(archive) + 1
  /\ total \in 0 .. MaxUnpackedBytes
  /\ \A p \in DOMAIN staging : staging[p] \in Nat
  /\ project \in Project \cup {NoProject}

\* Nothing is ever written outside the staging directory, whatever the entries
\* are called (main.go 777-779).
InsideStaging ==
  \A p \in DOMAIN staging : Inside(p) /\ \A i \in DOMAIN p : p[i] # Up

\* However an archive expands, at no moment does it take more of the disk than
\* the limit and the byte that shows it is exceeded (main.go 795-796).
DiskIsBounded ==
  MapThenSumSet(LAMBDA p : staging[p], DOMAIN staging) <= MaxUnpackedBytes + 1

\* Zip or tar, entry after entry, an archive is accepted exactly when by the
\* reference it can be unpacked and names a project that may have the name in
\* the form, and it is installed as that project (main.go 821-926, 1079-1110).
AcceptedExactly ==
  /\ stage = "accepted" => Unpackable(format, archive) /\ Installs(archive, requested, project)
  /\ stage = "refused" =>
       ~(Unpackable(format, archive) /\ \E p \in Project : Installs(archive, requested, p))

\* What is installed is what the archive holds: each path with the last of its
\* entries, and nothing else (main.go 1040-1043).
UnpacksWhatItHolds ==
  LET last(i) == \A j \in Files(archive) : Lands(archive[j]) = Lands(archive[i]) => j <= i
      home(path) == IF path = <<Db[GenericDBName]>> THEN Database(project) ELSE <<Staging>> \o path
      kept == {i \in Files(archive) : last(i)}
  IN stage = "accepted" =>
       /\ DOMAIN staging = {home(Lands(archive[i])) : i \in kept}
       /\ \A i \in kept : staging[home(Lands(archive[i]))] = archive[i].size

\* What is installed is a project that C-Gate and listProjects can see: its one
\* database is called like its directory (main.go 497-498, 525-526, 1079-1110).
AcceptedIsProject ==
  stage = "accepted" =>
    /\ project \in Proper
    /\ requested \in {NoProject, project}
    /\ Databases = {project}

\* The archive that is downloaded of an installed project "can go straight back
\* in" (main.go 673-674), if its files hold anything at all and the zip is no
\* longer than an upload may be.  With an empty file it need not: one that comes
\* last, after exactly MaxUnpackedBytes, is refused.
GoesStraightBackIn ==
  stage = "accepted" =>
    \A download \in Downloads :
      (\A i \in DOMAIN download : download[i].size > 0) =>
        Unpackable("zip", download) /\ Installs(download, project, project)
===============================================================================
