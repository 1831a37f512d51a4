------------------------- MODULE ProjectReadsProofs -------------------------
(***************************************************************************)
(* Theorems of ProjectReads, for any set of uploads and any number of      *)
(* faults, crashes and saves.  The uploads are those of ProjectUpload, so  *)
(* its inductive invariant IInv holds beside the one for the reader.       *)
(***************************************************************************)
EXTENDS ProjectReads, ProjectUploadProofs

Entries(names) == {[name |-> n, of |-> VersionOf(n)] : n \in names}

\* What is at dest is part of the reader's history, and a request starts anew.
MetInv ==
  /\ ask # "none" => dest \in met
  /\ ask = "none" => got = {} /\ ~cut
  /\ ask = "archive" /\ at = "copy" => file # "bak"

\* What a download or a listing took from dest was there during the request.
SourceInv ==
  /\ ask = "database" /\ at # "refused" => fd \in met \ {Absent}
  /\ ask = "database" /\ at \in {"copy", "sent"} => stamp = fd
  /\ ask = "database" /\ at = "sent" => got = {[name |-> "db", of |-> fd]}
  /\ ask = "list" /\ at \in {"copy", "walk", "sent"} => stamp \in met \ {Absent}
  /\ ask = "list" /\ at = "refused" => Absent \in met

\* On a disk that is left alone, the walk takes one file after the other.
QuietInv ==
  ~stirred =>
    /\ ask = "archive" /\ at = "stat" => DirectoryExists
    /\ ask = "archive" => ~cut
    /\ ask = "archive" /\ at = "stat" => got = {}
    /\ ask = "list" /\ at \in {"stat", "copy"} => got = {} /\ DirectoryExists
    /\ ask \in {"archive", "list"} /\ at \in {"walk", "sent"} =>
         /\ todo \subseteq Files
         /\ at = "sent" => todo = {}
         /\ got = Entries(Files \ ({"bak"} \cup todo))
    /\ ask = "archive" /\ at = "copy" =>
         /\ todo \subseteq Files
         /\ file \in Files \ ({"bak"} \cup todo)
         /\ got = Entries(Files \ ({"bak", file} \cup todo))

\* While one version is in place, the walk misses none of its files.
SameInv ==
  ask = "archive" /\ met = {dest} =>
    \A n \in {"db", "labels"} \cap Files :
      /\ at = "walk" => n \in todo \/ [name |-> n, of |-> VersionOf(n)] \in got
      /\ at = "copy" => n \in todo \cup {file} \/ [name |-> n, of |-> VersionOf(n)] \in got
      /\ at = "sent" /\ ~cut => [name |-> n, of |-> VersionOf(n)] \in got

ReadsInv == ReaderTypes /\ MetInv /\ SourceInv /\ QuietInv /\ SameInv

-----------------------------------------------------------------------------
(* The uploads. *)

LEMMA KindStays ==
  ASSUME [Next]_vars
  PROVE  kind' = kind
<1>1. CASE UNCHANGED vars
  BY <1>1 DEF vars
<1>2. ASSUME NEW u \in Upload, Handle(u)
     PROVE  kind' = kind
  BY <1>2 DEF Handle, Stage, ListOpen, StopProject, CloseProject, StatDest, ClearBackup,
     MoveToBackup, Install, Rollback, LoadProject, StartProject
<1>3. ASSUME NEW command \in {"stop", "close", "load", "start"}, RunsLate(command)
     PROVE  kind' = kind
  BY <1>3 DEF RunsLate
<1>4. CASE Save \/ Crash
  BY <1>4 DEF Save, Crash
<1> QED
  BY <1>1, <1>2, <1>3, <1>4 DEF Next

\* A reader's step is a stutter of the uploads.
LEMMA ReadStutters ==
  ASSUME Read
  PROVE  UNCHANGED vars
BY DEF Read, OpenDatabase, StatDatabase, ServeDatabase, StatDirectory, ReadDirectory,
   CopyFile, WalkEnds, ReadProjects, StatProject, WalkProject, ListProject, VisitFile,
   CountFile, Dismiss, Begin, Goes, EndZip

LEMMA UploadStep ==
  ASSUME [ReadsNext]_allVars
  PROVE  [Next]_vars
<1>1. CASE UNCHANGED allVars
  BY <1>1 DEF allVars
<1>2. CASE Read
  BY <1>2, ReadStutters
<1>3. CASE Others
  BY <1>3 DEF Others
<1> QED
  BY <1>1, <1>2, <1>3 DEF ReadsNext

\* Readers do not disturb the uploads: every property of ProjectUpload holds
\* beside them.
THEOREM UploadsAreUndisturbed == ReadsSpec => Spec
<1>1. InitReads => Init
  BY DEF InitReads
<1> QED
  BY <1>1, UploadStep, PTL DEF ReadsSpec, Spec

-----------------------------------------------------------------------------
LEMMA ReadsInit == InitReads => ReadsInv
BY ValuesAreDistinct DEF InitReads, ReadsInv, ReaderTypes, MetInv, SourceInv, QuietInv,
   SameInv, Places, Names, Entry

\* What is read at dest is a version.
LEMMA ReadsVersion ==
  ASSUME IInv
  PROVE  /\ dest \in Version \cup {Absent}
         /\ \A n \in Names : n # "bak" => VersionOf(n) \in Version \cup {Absent}
         /\ Files \subseteq Names
<1>1. dest \in Version \cup {Absent}
  BY DEF IInv, WholeInv
<1>2. \A n \in Names : n # "bak" => VersionOf(n) \in Version \cup {Absent}
  BY <1>1 DEF VersionOf, Names, Version
<1>3. Files \subseteq Names
  BY DEF Files, Names
<1> QED
  BY <1>1, <1>2, <1>3

LEMMA ReadsType ==
  ASSUME IInv, IInv', ReadsInv, [ReadsNext]_allVars
  PROVE  ReaderTypes'
<1> USE DEF ReadsInv, ReaderTypes, Places
<1>1. CASE UNCHANGED allVars
  BY <1>1 DEF allVars, readVars, handler
<1>2. CASE Others
  <2>1. dest' \in Version \cup {Absent}
    BY DEF IInv, WholeInv
  <2> QED
    BY <1>2, <2>1 DEF Others, handler
<1>3. CASE OpenDatabase
  BY <1>3, ReadsVersion DEF OpenDatabase, Begin
<1>4. CASE StatDatabase
  BY <1>4 DEF StatDatabase, Goes
<1>5. CASE ServeDatabase
  BY <1>5 DEF ServeDatabase, Goes, Entry, Names
<1>6. CASE StatDirectory
  BY <1>6, ReadsVersion DEF StatDirectory, Begin
<1>7. CASE ReadDirectory
  BY <1>7, ReadsVersion DEF ReadDirectory, Goes, EndZip
<1>8. ASSUME NEW name \in Names, VisitFile(name)
     PROVE  ReaderTypes'
  BY <1>8 DEF VisitFile, Goes, EndZip
<1>9. CASE CopyFile
  <2>1. VersionOf(file) \in Version \cup {Absent}
    BY <1>9, ReadsVersion DEF CopyFile, MetInv
  <2>2. /\ [name |-> file, of |-> VersionOf(file)] \in Entry
        /\ [name |-> file, of |-> Absent] \in Entry
    BY <2>1 DEF Entry
  <2>3. got' \subseteq Entry
    BY <1>9, <2>2 DEF CopyFile
  <2> QED
    BY <1>9, <2>3 DEF CopyFile, Goes, EndZip
<1>10. CASE WalkEnds
  BY <1>10 DEF WalkEnds, Goes, EndZip
<1>11. CASE ReadProjects
  BY <1>11, ReadsVersion DEF ReadProjects, Begin
<1>12. CASE StatProject
  BY <1>12, ReadsVersion DEF StatProject, Goes
<1>13. CASE WalkProject
  BY <1>13, ReadsVersion DEF WalkProject, Goes
<1>14. ASSUME NEW name \in Names, CountFile(name)
      PROVE  ReaderTypes'
  <2>1. name # "bak" => [name |-> name, of |-> VersionOf(name)] \in Entry
    BY ReadsVersion DEF Entry
  <2>2. got' \subseteq Entry
    BY <1>14, <2>1 DEF CountFile
  <2> QED
    BY <1>14, <2>2 DEF CountFile, Goes
<1>15. CASE ListProject
  BY <1>15 DEF ListProject, Goes
<1>16. CASE Dismiss
  BY <1>16 DEF Dismiss, Names
<1> QED
  BY <1>1, <1>2, <1>3, <1>4, <1>5, <1>6, <1>7, <1>8, <1>9, <1>10, <1>11, <1>12, <1>13,
     <1>14, <1>15, <1>16 DEF ReadsNext, Read

LEMMA ReadsMet ==
  ASSUME ReadsInv, [ReadsNext]_allVars
  PROVE  MetInv' /\ SourceInv'
<1> USE DEF ReadsInv, ReaderTypes, MetInv, SourceInv, Places
<1>1. CASE UNCHANGED allVars
  BY <1>1 DEF allVars, vars, readVars, handler
<1>2. CASE Others
  BY <1>2 DEF Others, handler
<1>3. CASE OpenDatabase
  BY <1>3 DEF OpenDatabase, Begin, vars
<1>4. CASE StatDatabase
  BY <1>4 DEF StatDatabase, Goes, vars
<1>5. CASE ServeDatabase
  BY <1>5 DEF ServeDatabase, Goes, vars
<1>6. CASE StatDirectory
  BY <1>6 DEF StatDirectory, Begin, vars
<1>7. CASE ReadDirectory
  BY <1>7 DEF ReadDirectory, Goes, EndZip, vars
<1>8. ASSUME NEW name \in Names, VisitFile(name)
     PROVE  MetInv' /\ SourceInv'
  BY <1>8 DEF VisitFile, Goes, EndZip, vars
<1>9. CASE CopyFile
  BY <1>9 DEF CopyFile, Goes, EndZip, vars
<1>10. CASE WalkEnds
  BY <1>10 DEF WalkEnds, Goes, EndZip, vars
<1>11. CASE ReadProjects
  BY <1>11 DEF ReadProjects, Begin, DirectoryExists, vars
<1>12. CASE StatProject
  BY <1>12 DEF StatProject, Goes, vars
<1>13. CASE WalkProject
  BY <1>13 DEF WalkProject, Goes, vars
<1>14. ASSUME NEW name \in Names, CountFile(name)
      PROVE  MetInv' /\ SourceInv'
  BY <1>14 DEF CountFile, Goes, vars
<1>15. CASE ListProject
  BY <1>15 DEF ListProject, Goes, vars
<1>16. CASE Dismiss
  BY <1>16 DEF Dismiss
<1> QED
  BY <1>1, <1>2, <1>3, <1>4, <1>5, <1>6, <1>7, <1>8, <1>9, <1>10, <1>11, <1>12, <1>13,
     <1>14, <1>15, <1>16 DEF ReadsNext, Read

LEMMA FilesStay ==
  ASSUME UNCHANGED <<kind, dest, backup, staged>>
  PROVE  /\ Files' = Files
         /\ DirectoryExists' = DirectoryExists
         /\ \A n : VersionOf(n)' = VersionOf(n)
         /\ \A names : Entries(names)' = Entries(names)
<1>1. /\ Files' = Files
      /\ DirectoryExists' = DirectoryExists
  BY DEF Files, DirectoryExists
<1>2. \A n : VersionOf(n)' = VersionOf(n)
  BY DEF VersionOf
<1> QED
  BY <1>1, <1>2 DEF Entries

LEMMA ReadsQuiet ==
  ASSUME ReadsInv, [ReadsNext]_allVars
  PROVE  QuietInv'
<1> USE DEF ReadsInv, ReaderTypes, MetInv, QuietInv, Places
<1>1. CASE UNCHANGED allVars
  BY <1>1, FilesStay DEF allVars, vars, readVars, handler
<1>2. CASE Others
  <2> SUFFICES ASSUME ~stirred', ask # "none"
               PROVE  QuietInv'
    BY <1>2 DEF Others, handler
  <2>1. ~stirred /\ UNCHANGED <<kind, dest, backup, staged>>
    BY <1>2, KindStays DEF Others, disk
  <2> QED
    BY <1>2, <2>1, FilesStay DEF Others, handler
<1>3. ASSUME Read
      PROVE  QuietInv'
  <2>0. /\ Files' = Files
        /\ DirectoryExists' = DirectoryExists
        /\ \A names : Entries(names)' = Entries(names)
    BY <1>3, ReadStutters, FilesStay DEF vars
  <2>1. CASE OpenDatabase
    BY <2>1 DEF OpenDatabase, Begin
  <2>2. CASE StatDatabase \/ ServeDatabase
    BY <2>2 DEF StatDatabase, ServeDatabase, Goes
  <2>3. CASE StatDirectory
    BY <2>0, <2>3 DEF StatDirectory, Begin
  <2>4. CASE ReadDirectory
    <3>1. Entries({}) = {}
      BY DEF Entries
    <3>2. Files \ ({"bak"} \cup Files) = {}
      OBVIOUS
    <3> QED
      BY <2>0, <2>4, <3>1, <3>2 DEF ReadDirectory, Goes, EndZip
  <2>5. ASSUME NEW name \in Names, VisitFile(name)
        PROVE  QuietInv'
    <3>1. CASE name = "bak"
      <4>1. Files \ ({"bak"} \cup (todo \ {name})) = Files \ ({"bak"} \cup todo)
        BY <3>1
      <4> QED
        BY <2>0, <2>5, <3>1, <4>1 DEF VisitFile, Goes, EndZip
    <3>2. CASE name # "bak"
      <4>1. name \in todo
        BY <2>5 DEF VisitFile
      <4>2. Files \ ({"bak", name} \cup (todo \ {name})) = Files \ ({"bak"} \cup todo)
        BY <4>1
      <4> QED
        BY <2>0, <2>5, <3>2, <4>1, <4>2 DEF VisitFile, Goes, EndZip
    <3> QED
      BY <3>1, <3>2
  <2>6. CASE CopyFile
    <3> SUFFICES ASSUME ~stirred
                 PROVE  QuietInv'
      BY <2>6 DEF CopyFile, Goes, EndZip
    <3>1. /\ file \in Files \ ({"bak"} \cup todo)
          /\ got = Entries(Files \ ({"bak", file} \cup todo))
      BY <2>6 DEF CopyFile
    <3>2. got \cup {[name |-> file, of |-> VersionOf(file)]}
            = Entries(Files \ ({"bak"} \cup todo))
      BY <3>1 DEF Entries
    <3> QED
      BY <2>0, <2>6, <3>1, <3>2 DEF CopyFile, Goes, EndZip
  <2>7. CASE WalkEnds
    BY <2>0, <2>7 DEF WalkEnds, Goes, EndZip
  <2>8. CASE ReadProjects
    BY <2>0, <2>8 DEF ReadProjects, Begin
  <2>9. CASE StatProject
    BY <2>0, <2>9 DEF StatProject, Goes
  <2>10. CASE WalkProject
    <3>1. Entries({}) = {}
      BY DEF Entries
    <3>2. Files \ ({"bak"} \cup Files) = {}
      OBVIOUS
    <3> QED
      BY <2>0, <2>10, <3>1, <3>2 DEF WalkProject, Goes
  <2>11. ASSUME NEW name \in Names, CountFile(name)
         PROVE  QuietInv'
    <3> SUFFICES ASSUME ~stirred
                 PROVE  QuietInv'
      BY <2>11 DEF CountFile, Goes
    <3>1. /\ name \in todo /\ todo \subseteq Files
          /\ got = Entries(Files \ ({"bak"} \cup todo))
      BY <2>11 DEF CountFile
    <3>2. got' = Entries(Files \ ({"bak"} \cup (todo \ {name})))
      BY <2>11, <3>1 DEF CountFile, Entries
    <3> QED
      BY <2>0, <2>11, <3>1, <3>2 DEF CountFile, Goes
  <2>12. CASE ListProject
    BY <2>0, <2>12 DEF ListProject, Goes
  <2>13. CASE Dismiss
    BY <2>13 DEF Dismiss
  <2> QED
    BY <1>3, <2>1, <2>2, <2>3, <2>4, <2>5, <2>6, <2>7, <2>8, <2>9, <2>10, <2>11, <2>12,
       <2>13 DEF Read
<1> QED
  BY <1>1, <1>2, <1>3 DEF ReadsNext

\* The project's own files depend on what is at dest.
LEMMA OwnFilesStay ==
  ASSUME UNCHANGED <<kind, dest>>
  PROVE  /\ {"db", "labels"} \cap Files' = {"db", "labels"} \cap Files
         /\ \A n \in {"db", "labels"} : VersionOf(n)' = VersionOf(n)
<1>1. /\ "db" \notin Upload /\ "labels" \notin Upload
      /\ "db" # "bak" /\ "labels" # "bak"
  BY NamesAreDistinct
<1>2. {"db", "labels"} \cap Files' = {"db", "labels"} \cap Files
  <2>1. CASE kind = "archive"
    BY <2>1 DEF Files
  <2>2. CASE kind # "archive"
    <3>1. "db" \in Files' <=> "db" \in Files
      BY <1>1, <2>2 DEF Files
    <3>2. "labels" \in Files' <=> "labels" \in Files
      BY <1>1, <2>2 DEF Files
    <3> QED
      BY <3>1, <3>2
  <2> QED
    BY <2>1, <2>2
<1> QED
  BY <1>2 DEF VersionOf

LEMMA ReadsSame ==
  ASSUME ReadsInv, [ReadsNext]_allVars
  PROVE  SameInv'
<1> USE DEF ReadsInv, ReaderTypes, MetInv, SameInv, Places
<1>1. CASE UNCHANGED allVars
  BY <1>1, OwnFilesStay DEF allVars, vars, readVars, handler
<1>2. CASE Others
  <2> SUFFICES ASSUME ask = "archive", met' = {dest'}
               PROVE  SameInv'
    BY <1>2 DEF Others, handler
  <2>1. met = {dest} /\ dest' = dest
    BY <1>2 DEF Others
  <2> QED
    BY <1>2, <2>1, KindStays, OwnFilesStay DEF Others, handler
<1>3. ASSUME Read
      PROVE  SameInv'
  <2>0. /\ dest' = dest
        /\ {"db", "labels"} \cap Files' = {"db", "labels"} \cap Files
        /\ \A n \in {"db", "labels"} : VersionOf(n)' = VersionOf(n)
    BY <1>3, ReadStutters, OwnFilesStay DEF vars
  <2>1. CASE OpenDatabase \/ ReadProjects
    BY <2>1 DEF OpenDatabase, ReadProjects, Begin
  <2>2. CASE StatDatabase \/ ServeDatabase \/ StatProject \/ WalkProject \/ ListProject
    BY <2>2 DEF StatDatabase, ServeDatabase, StatProject, WalkProject, ListProject, Goes
  <2>3. CASE StatDirectory
    BY <2>3 DEF StatDirectory, Begin
  <2>4. CASE ReadDirectory
    BY <2>0, <2>4 DEF ReadDirectory, Goes, EndZip
  <2>5. ASSUME NEW name \in Names, VisitFile(name)
        PROVE  SameInv'
    <3>1. CASE Goes("walk") /\ name = "bak"
      BY <2>0, <2>5, <3>1 DEF VisitFile, Goes
    <3>2. CASE Goes("copy") /\ file' = name
      BY <2>0, <2>5, <3>2 DEF VisitFile, Goes
    <3>3. CASE EndZip(TRUE)
      BY <3>3 DEF EndZip, Goes
    <3> QED
      BY <2>5, <3>1, <3>2, <3>3 DEF VisitFile
  <2>6. CASE CopyFile
    <3>1. CASE file \in Files
      BY <2>0, <2>6, <3>1 DEF CopyFile, Goes
    <3>2. CASE file \notin Files
      BY <2>6, <3>2 DEF CopyFile, Goes, EndZip
    <3> QED
      BY <3>1, <3>2
  <2>7. CASE WalkEnds
    BY <2>0, <2>7 DEF WalkEnds, Goes, EndZip
  <2>8. ASSUME NEW name \in Names, CountFile(name)
        PROVE  SameInv'
    BY <2>8 DEF CountFile, Goes
  <2>9. CASE Dismiss
    BY <2>9 DEF Dismiss
  <2> QED
    BY <1>3, <2>1, <2>2, <2>3, <2>4, <2>5, <2>6, <2>7, <2>8, <2>9 DEF Read
<1> QED
  BY <1>1, <1>2, <1>3 DEF ReadsNext

-----------------------------------------------------------------------------
\* The inductive invariant of a reader beside uploads one at a time.
THEOREM ReadsInvariance == ReadsSpec => []ReadsInv
<1>1. ReadsSpec => []IInv
  BY UploadsAreUndisturbed, ReadsAreOfSerialUploads, Invariance, PTL
<1>2. ReadsInv /\ IInv /\ IInv' /\ [ReadsNext]_allVars => ReadsInv'
  <2> SUFFICES ASSUME ReadsInv, IInv, IInv', [ReadsNext]_allVars
               PROVE  ReadsInv'
    OBVIOUS
  <2>1. ReaderTypes'
    BY ReadsType
  <2>2. MetInv' /\ SourceInv'
    BY ReadsMet
  <2>3. QuietInv' /\ SameInv'
    BY ReadsQuiet, ReadsSame
  <2> QED
    BY <2>1, <2>2, <2>3 DEF ReadsInv
<1> QED
  BY <1>1, <1>2, ReadsInit, PTL DEF ReadsSpec

\* Every variable, of the uploads and of the reader, keeps to the values the code
\* can give it.
THEOREM ReadsTypeCorrect == ReadsSpec => []ReadsTypeOK
<1>1. TypeOK /\ ReadsInv => ReadsTypeOK
  BY DEF ReadsInv, ReadsTypeOK
<1> QED
  BY <1>1, UploadsAreUndisturbed, TypeCorrect, ReadsInvariance, PTL

\* A downloaded database is one version that was in place during the request,
\* with the time of that version, whatever uploads, saves and crashes do.
THEOREM DownloadsAreSound == ReadsSpec => []DownloadIsOneVersion
<1>1. ReadsInv => DownloadIsOneVersion
  BY DEF ReadsInv, SourceInv, DownloadIsOneVersion
<1> QED
  BY <1>1, ReadsInvariance, PTL

\* An archive is all of a directory that is left alone, and holds the project
\* whole and in one version unless its walk was cut or the project replaced.
THEOREM ArchivesAreWhole == ReadsSpec => []ArchiveIsWhole
<1>1. ReadsInv => ArchiveIsWhole
  <2> SUFFICES ASSUME ReadsInv, ask = "archive", at = "sent"
               PROVE  ArchiveIsWhole
    BY DEF ArchiveIsWhole
  <2>1. ~stirred => ~cut /\ got = Entries(Files \ {"bak"})
    BY DEF ReadsInv, QuietInv
  <2>2. ~cut /\ met = {dest} =>
          \A n \in {"db", "labels"} \cap Files : [name |-> n, of |-> VersionOf(n)] \in got
    BY DEF ReadsInv, SameInv
  <2> QED
    BY <2>1, <2>2 DEF ArchiveIsWhole, Entries
<1> QED
  BY <1>1, ReadsInvariance, PTL

\* A project is listed if it has its database throughout the request, with its
\* own time, and not if it has none throughout.
THEOREM ListingsAreEarned == ReadsSpec => []ListingIsEarned
<1>1. ReadsInv => ListingIsEarned
  <2> SUFFICES ASSUME ReadsInv, ask = "list"
               PROVE  ListingIsEarned
    BY DEF ListingIsEarned
  <2>1. at = "sent" => stamp \in met \ {Absent}
    BY DEF ReadsInv, SourceInv
  <2>2. at = "sent" /\ ~stirred => got = Entries(Files \ {"bak"})
    BY DEF ReadsInv, QuietInv
  <2>3. at = "refused" => Absent \in met
    BY DEF ReadsInv, SourceInv
  <2> QED
    BY <2>1, <2>2, <2>3 DEF ListingIsEarned, Entries
<1> QED
  BY <1>1, ReadsInvariance, PTL
=============================================================================
