---------------------------- MODULE ProjectReads ----------------------------
(***************************************************************************)
(* Reading a project while it is being replaced: handleTagDownload (the    *)
(* database), handleTagArchive (the directory as a zip) and listProjects   *)
(* of src/web/main.go, beside the uploads of ProjectUpload.  None of them  *)
(* takes a lock, so an upload, a save or a crash can come between any two  *)
(* looks at the disk.                                                      *)
(*                                                                         *)
(* One reader at a time: readers change nothing and cannot see each other. *)
(* In kind "archive" the project's directory holds a database and label    *)
(* files of one version; in kind "database" the directory and its label    *)
(* files stay, and the backup and what is staged are files in it.  An      *)
(* upload or a save replaces a file as a whole, and a file that is open    *)
(* stays readable as it was.                                               *)
(***************************************************************************)
EXTENDS ProjectUpload

CONSTANT
  LossyReads    \* bound: whether there are reads where C-Gate commands are lost

ASSUME LossyReadsIsBoolean == LossyReads \in BOOLEAN

\* A staged file has a name of its own.
ASSUME NamesAreDistinct == {"db", "labels", "bak"} \cap Upload = {}

\* Uploads one after the other never leave a torn directory in dest.
ASSUME ReadsAreOfSerialUploads == Serial

VARIABLES
  ask,      \* "none", or what the request reads: "database", "archive", "list"
  at,       \* where its handler is
  todo,     \* names WalkDir has read from the directory and not visited yet
  file,     \* the name being written to the zip
  got,      \* what the client or the listing has: a name and its version
  fd,       \* the version that is open
  stamp,    \* the version whose modification time is reported
  cut,      \* the walk ended with an error
  central,  \* the zip ends in its central directory
  (* History. *)
  met,      \* what was at dest during the request
  stirred   \* the disk has changed during the request

handler  == <<ask, at, todo, file, got, fd, stamp, cut, central>>
readVars == <<handler, met, stirred>>
allVars  == <<vars, readVars>>

Places == {"none", "stat", "walk", "copy", "sent", "refused"}
Names  == {"db", "labels", "bak"} \cup Upload
Entry  == [name : Names, of : Version \cup {Absent}]

InitReads ==
  /\ Init
  /\ ask = "none" /\ at = "none"
  /\ todo = {} /\ file = "db" /\ got = {}
  /\ fd = Absent /\ stamp = Absent
  /\ cut = FALSE /\ central = FALSE
  /\ met = {} /\ stirred = FALSE

-----------------------------------------------------------------------------
(* What is on disk now. *)

\* The files in the project's directory.
Files ==
  (IF dest = Absent THEN {} ELSE {"db"})
    \cup (IF kind = "archive"
          THEN IF dest = Absent THEN {} ELSE {"labels"}
          ELSE {"labels"} \cup {u \in Upload : staged[u]}
                 \cup (IF backup = Absent THEN {} ELSE {"bak"}))

DirectoryExists == kind = "database" \/ dest # Absent

VersionOf(name) ==
  CASE name = "db"     -> dest
    [] name = "labels" -> IF kind = "archive" THEN dest ELSE Original
    [] name = "bak"    -> backup
    [] OTHER           -> name

-----------------------------------------------------------------------------
(* The start of a request, and its end. *)

Begin(what, place) ==
  /\ ask = "none"
  /\ lossy => LossyReads
  /\ ask' = what
  /\ at' = place
  /\ met' = {dest}
  /\ UNCHANGED <<vars, file, stirred>>

\* The handler goes on, and the disk is as it was.
Goes(place) ==
  /\ at' = place
  /\ UNCHANGED <<vars, ask, met, stirred>>

\* The client has its answer.
Dismiss ==
  /\ at \in {"sent", "refused"}
  /\ ask' = "none" /\ at' = "none"
  /\ todo' = {} /\ file' = "db" /\ got' = {}
  /\ fd' = Absent /\ stamp' = Absent
  /\ cut' = FALSE /\ central' = FALSE
  /\ met' = {} /\ stirred' = FALSE
  /\ UNCHANGED vars

-----------------------------------------------------------------------------
(* handleTagDownload *)

\* Mutant of OpenDatabase: the error of the open is not looked at.
OpenUnchecked ==
  /\ Begin("database", "stat")
  /\ fd' = dest
  /\ UNCHANGED <<todo, got, stamp, cut, central>>

\* os.Open(dbPath)
OpenDatabase ==
  /\ Begin("database", IF dest = Absent THEN "refused" ELSE "stat")
  /\ fd' = dest
  /\ UNCHANGED <<todo, got, stamp, cut, central>>

\* Mutant of StatDatabase: the time is taken from the path.
StatDatabasePath ==
  /\ ask = "database" /\ at = "stat"
  /\ Goes(IF dest = Absent THEN "refused" ELSE "copy")
  /\ stamp' = dest
  /\ UNCHANGED <<todo, file, got, fd, cut, central>>

\* f.Stat()
StatDatabase ==
  /\ ask = "database" /\ at = "stat"
  /\ Goes("copy")
  /\ stamp' = fd
  /\ UNCHANGED <<todo, file, got, fd, cut, central>>

\* http.ServeContent takes the length and the bytes from the open file.
ServeDatabase ==
  /\ ask = "database" /\ at = "copy"
  /\ Goes("sent")
  /\ got' = {[name |-> "db", of |-> fd]}
  /\ UNCHANGED <<todo, file, fd, stamp, cut, central>>

-----------------------------------------------------------------------------
(* handleTagArchive *)

\* os.Stat(dir)
StatDirectory ==
  /\ Begin("archive", IF DirectoryExists THEN "stat" ELSE "refused")
  /\ UNCHANGED <<todo, got, fd, stamp, cut, central>>

\* The handler returns, and its deferred zw.Close() ends the zip, whether the
\* walk is over or was cut.
EndZip(wasCut) ==
  /\ Goes("sent")
  /\ cut' = wasCut
  /\ central' = TRUE

\* WalkDir reads the directory before it visits a file of it.
ReadDirectory ==
  /\ ask = "archive" /\ at = "stat"
  /\ \/ /\ DirectoryExists
        /\ todo' = Files
        /\ Goes("walk")
        /\ UNCHANGED <<cut, central>>
     \/ /\ ~DirectoryExists
        /\ EndZip(TRUE)
        /\ UNCHANGED todo
  /\ UNCHANGED <<file, got, fd, stamp>>

\* Mutant of VisitFile: the backup is shipped like any other file.
VisitBackup(name) ==
  /\ ask = "archive" /\ at = "walk"
  /\ name \in todo
  /\ todo' = todo \ {name}
  /\ \/ /\ name \in Files
        /\ Goes("copy")
        /\ file' = name
        /\ UNCHANGED <<cut, central>>
     \/ /\ name \notin Files
        /\ EndZip(TRUE)
        /\ UNCHANGED file
  /\ UNCHANGED <<got, fd, stamp>>

\* The walk function up to CreateHeader: a backup is skipped, and a file that
\* has gone since ends the walk.
VisitFile(name) ==
  /\ ask = "archive" /\ at = "walk"
  /\ name \in todo
  /\ todo' = todo \ {name}
  /\ \/ /\ name = "bak"
        /\ Goes("walk")
        /\ UNCHANGED <<file, cut, central>>
     \/ /\ name # "bak"
        /\ name \in Files
        /\ Goes("copy")
        /\ file' = name
        /\ UNCHANGED <<cut, central>>
     \/ /\ name # "bak"
        /\ name \notin Files
        /\ EndZip(TRUE)
        /\ UNCHANGED file
  /\ UNCHANGED <<got, fd, stamp>>

\* os.Open and io.Copy.  A file that has gone since leaves an empty entry.
CopyFile ==
  /\ ask = "archive" /\ at = "copy"
  /\ \/ /\ file \in Files
        /\ got' = got \cup {[name |-> file, of |-> VersionOf(file)]}
        /\ Goes("walk")
        /\ UNCHANGED <<cut, central>>
     \/ /\ file \notin Files
        /\ got' = got \cup {[name |-> file, of |-> Absent]}
        /\ EndZip(TRUE)
  /\ UNCHANGED <<todo, file, fd, stamp>>

WalkEnds ==
  /\ ask = "archive" /\ at = "walk"
  /\ todo = {}
  /\ EndZip(FALSE)
  /\ UNCHANGED <<todo, file, got, fd, stamp>>

-----------------------------------------------------------------------------
(* listProjects and projectContents *)

\* os.ReadDir(projectsDir); activeProject comes before the next look.
ReadProjects ==
  /\ Begin("list", IF DirectoryExists THEN "stat" ELSE "refused")
  /\ UNCHANGED <<todo, got, fd, stamp, cut, central>>

\* Mutant of StatProject: every directory is a project.
StatUnchecked ==
  /\ ask = "list" /\ at = "stat"
  /\ Goes("copy")
  /\ stamp' = dest
  /\ UNCHANGED <<todo, file, got, fd, cut, central>>

\* os.Stat(dbPath)
StatProject ==
  /\ ask = "list" /\ at = "stat"
  /\ Goes(IF dest = Absent THEN "refused" ELSE "copy")
  /\ stamp' = dest
  /\ UNCHANGED <<todo, file, got, fd, cut, central>>

\* projectContents: the walk over the directory begins.
WalkProject ==
  /\ ask = "list" /\ at = "copy"
  /\ Goes("walk")
  /\ todo' = IF DirectoryExists THEN Files ELSE {}
  /\ UNCHANGED <<file, got, fd, stamp, cut, central>>

\* A file that has gone since is left out, and the walk goes on.
CountFile(name) ==
  /\ ask = "list" /\ at = "walk"
  /\ name \in todo
  /\ Goes("walk")
  /\ todo' = todo \ {name}
  /\ got' = IF name \in Files \ {"bak"}
            THEN got \cup {[name |-> name, of |-> VersionOf(name)]} ELSE got
  /\ UNCHANGED <<file, fd, stamp, cut, central>>

ListProject ==
  /\ ask = "list" /\ at = "walk"
  /\ todo = {}
  /\ Goes("sent")
  /\ UNCHANGED <<todo, file, got, fd, stamp, cut, central>>

-----------------------------------------------------------------------------
Read ==
  \/ OpenDatabase \/ StatDatabase \/ ServeDatabase
  \/ StatDirectory \/ ReadDirectory \/ CopyFile \/ WalkEnds
  \/ ReadProjects \/ StatProject \/ WalkProject \/ ListProject
  \/ \E name \in Names : VisitFile(name) \/ CountFile(name)
  \/ Dismiss

\* A step of the uploads and their surroundings, as the reader's history has it.
\* An answer that is complete is dismissed before anything else happens.
Others ==
  /\ at \notin {"sent", "refused"}
  /\ Next
  /\ met' = IF ask = "none" THEN {} ELSE met \cup {dest'}
  /\ stirred' = (ask # "none" /\ (stirred \/ disk' # disk))
  /\ UNCHANGED handler

ReadsNext == Read \/ Others

ReadsSpec == InitReads /\ [][ReadsNext]_allVars

-----------------------------------------------------------------------------
(* Properties. *)

\* The reader's variables.
ReaderTypes ==
  /\ ask \in {"none", "database", "archive", "list"}
  /\ at \in Places
  /\ (ask = "none") = (at = "none")
  /\ todo \subseteq Names
  /\ file \in Names
  /\ got \subseteq Entry
  /\ {fd, stamp} \subseteq Version \cup {Absent}
  /\ ask = "database" /\ at # "refused" => fd # Absent
  /\ cut \in BOOLEAN /\ central \in BOOLEAN
  /\ met \subseteq Version \cup {Absent}
  /\ stirred \in BOOLEAN

\* Every variable, of the uploads and of the reader, keeps to the values the code
\* can give it.
ReadsTypeOK == TypeOK /\ ReaderTypes

\* A database that is downloaded while uploads replace it is one version, with
\* the modification time of that version, and was in place during the request
\* (main.go 642-659: the file is opened once and asked for its own time).
DownloadIsOneVersion ==
  ask = "database" /\ at = "sent" =>
    /\ got = {[name |-> "db", of |-> stamp]}
    /\ stamp \in met \ {Absent}

\* An archive of a directory that nothing touches meanwhile is all of the
\* directory but the backup; and one whose walk was not cut holds the project
\* whole and in one version unless the project was replaced meanwhile (main.go
\* 673-739).
ArchiveIsWhole ==
  ask = "archive" /\ at = "sent" =>
    /\ ~stirred => ~cut /\ got = {[name |-> n, of |-> VersionOf(n)] : n \in Files \ {"bak"}}
    /\ ~cut /\ met = {dest} =>
         \A n \in {"db", "labels"} \cap Files : [name |-> n, of |-> VersionOf(n)] \in got

\* A project that has a database throughout the request is listed, with its own
\* time and, if the disk is left alone, all of its files; one that has none
\* throughout is not (main.go 507-555).
ListingIsEarned ==
  /\ ask = "list" /\ at = "sent" =>
       /\ stamp \in met \ {Absent}
       /\ ~stirred => got = {[name |-> n, of |-> VersionOf(n)] : n \in Files \ {"bak"}}
  /\ ask = "list" /\ at = "refused" => Absent \in met

\* "A failure part way through can only be logged -- the client sees a
\* truncated zip, which will not open" (main.go 695-696).
CutArchiveDoesNotOpen == ask = "archive" /\ at = "sent" /\ cut => ~central
=============================================================================
