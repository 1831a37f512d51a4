---------------------------- MODULE ProjectUpload ----------------------------
(***************************************************************************)
(* Replacing a project: uploadDatabase and uploadArchive of                *)
(* src/web/main.go, the PROJECT commands they send to C-Gate around the    *)
(* swap (closeInCGate, openInCGate, loadInCGate through cgateRun), and the *)
(* project as C-Gate holds it.                                             *)
(*                                                                         *)
(* All uploads of a behaviour are of one project and one kind: "archive"   *)
(* replaces the project's directory, "database" its .db file.  A version   *)
(* is what one upload brought, or what was there before.  Unpacking, and   *)
(* finding the project's name, is over when the model's upload starts.     *)
(*                                                                         *)
(* C-Gate is the environment.  A running project must be stopped before it *)
(* can be closed, a load reads the version on disk, and an operator may    *)
(* save what C-Gate holds back to disk.                                    *)
(***************************************************************************)
EXTENDS Naturals, FiniteSets

CONSTANTS
  Upload,       \* the calls of handleTagUpload
  Original,     \* the version on disk before the first of them
  Previous,     \* the version in the backup before the first of them
  Absent,       \* no file or directory of that name
  Torn,         \* a directory of which RemoveAll has deleted a part
  Serial,       \* whether one upload starts only when no other is under way
  Lossy,        \* whether there are behaviours that lose C-Gate commands
  MaxFaults,    \* bound: calls of os that fail
  MaxCrashes,   \* bound: times the bridge dies
  MaxSaves      \* bound: PROJECT SAVE commands of an operator

Version == Upload \cup {Original, Previous}

ASSUME ValuesAreDistinct ==
  /\ Original # Previous
  /\ {Original, Previous} \cap Upload = {}
  /\ Absent \notin Version \cup {Torn}
  /\ Torn \notin Version
ASSUME SettingsAreBooleans == Serial \in BOOLEAN /\ Lossy \in BOOLEAN
ASSUME BoundsAreNaturals ==
  MaxFaults \in Nat /\ MaxCrashes \in Nat /\ MaxSaves \in Nat

VARIABLES
  kind,       \* "archive" or "database"
  lossy,      \* C-Gate commands may be skipped, lost or abandoned
  (* The disk. *)
  dest,       \* what is at the project's place
  backup,     \* what is at the place of <project>.bak
  staged,     \* per upload: its staging directory or temporary file exists
  (* C-Gate. *)
  held,       \* the project is "closed", "stopped" or "running"
  mem,        \* the version it holds in memory, or Absent
  late,       \* commands given up on that C-Gate may still run
  (* The handlers. *)
  pc,
  backedUp,   \* per upload: its variable backedUp
  result,     \* per upload: "none", "ok" or "error"
  (* History. *)
  before,     \* per upload: dest when it started
  moved,      \* per upload: the version it moved to the backup
  blind,      \* per upload: whether its os.Stat failed over what was in place
  (* Counts. *)
  faults,     \* calls of os that failed for no reason of the code's
  crashes,    \* deaths of the bridge
  saves       \* saves by an operator

disk     == <<dest, backup, staged>>
cgate    == <<held, mem, late>>
handlers == <<pc, backedUp, result>>
history  == <<before, moved, blind>>
counts   == <<faults, crashes, saves>>
vars == <<kind, lossy, dest, backup, staged, held, mem, late, pc, backedUp, result,
          before, moved, blind, faults, crashes, saves>>

Stages == {"idle", "list", "stop", "close", "stat", "clear", "move", "install",
           "rollback", "load", "start", "done", "dead"}
Active(u) == pc[u] \notin {"idle", "done", "dead"}

Init ==
  /\ kind \in {"archive", "database"}
  /\ lossy \in {FALSE, Lossy}
  /\ dest \in {Original, Absent}
  /\ backup \in {Previous, Absent}
  /\ staged = [u \in Upload |-> FALSE]
  /\ held \in IF dest = Absent THEN {"closed"} ELSE {"closed", "stopped", "running"}
  /\ mem = IF held = "closed" THEN Absent ELSE dest
  /\ late = {}
  /\ pc = [u \in Upload |-> "idle"]
  /\ backedUp = [u \in Upload |-> FALSE]
  /\ result = [u \in Upload |-> "none"]
  /\ before = [u \in Upload |-> Absent]
  /\ moved = [u \in Upload |-> Absent]
  /\ blind = [u \in Upload |-> FALSE]
  /\ faults = 0 /\ crashes = 0 /\ saves = 0

-----------------------------------------------------------------------------
(* C-Gate running a PROJECT command. *)

Stop ==
  /\ held' = IF held = "running" THEN "stopped" ELSE held
  /\ UNCHANGED mem

Close ==
  /\ held' = IF held = "stopped" THEN "closed" ELSE held
  /\ mem' = IF held = "stopped" THEN Absent ELSE mem

\* What it does with a project it holds already is not documented: it may
\* refuse, or read the disk again.
Load ==
  \/ /\ held = "closed"
     /\ dest # Absent
     /\ held' = "stopped"
     /\ mem' = dest
  \/ /\ held = "closed"
     /\ dest = Absent
     /\ UNCHANGED <<held, mem>>
  \/ /\ held # "closed"
     /\ mem' \in {mem, dest} \ {Absent}
     /\ UNCHANGED held

Start ==
  /\ held' = IF held = "stopped" THEN "running" ELSE held
  /\ UNCHANGED mem

Runs(command) ==
  \/ command = "stop" /\ Stop
  \/ command = "close" /\ Close
  \/ command = "load" /\ Load
  \/ command = "start" /\ Start

\* cgateRun: the command is answered; or skipped, or refused before it is
\* written; or given up on, and C-Gate may have run it, or run it later.
Sends(command) ==
  \/ /\ Runs(command)
     /\ UNCHANGED late
  \/ /\ lossy
     /\ UNCHANGED cgate
  \/ /\ lossy
     /\ late' = late \cup {command}
     /\ UNCHANGED <<held, mem>>

-----------------------------------------------------------------------------
(* uploadDatabase and uploadArchive *)

Goto(u, stage) == pc' = [pc EXCEPT ![u] = stage]

\* The error paths remove what is staged, by defer or by os.Remove.
Fail(u) ==
  /\ Goto(u, "done")
  /\ result' = [result EXCEPT ![u] = "error"]
  /\ staged' = [staged EXCEPT ![u] = FALSE]

DiskFault == faults < MaxFaults /\ faults' = faults + 1

\* The upload is complete in its staging directory or temporary file.
Stage(u) ==
  /\ pc[u] = "idle"
  /\ Serial => \A v \in Upload : ~Active(v)
  /\ Goto(u, "list")
  /\ staged' = [staged EXCEPT ![u] = TRUE]
  /\ before' = [before EXCEPT ![u] = dest]
  /\ UNCHANGED <<kind, lossy, dest, backup, cgate, backedUp, result, moved, blind, counts>>

\* openInCGate asks for the list of open projects.  Without an answer the
\* project counts as not open.
ListOpen(u) ==
  /\ pc[u] = "list"
  /\ \/ /\ held # "closed"
        /\ Goto(u, "stop")
     \/ /\ held = "closed" \/ lossy
        /\ Goto(u, "stat")
  /\ UNCHANGED <<kind, lossy, disk, cgate, backedUp, result, history, counts>>

\* Mutant of StopProject: the project is closed without being stopped.
StopSkipped(u) ==
  /\ pc[u] = "stop"
  /\ Goto(u, "close")
  /\ UNCHANGED <<kind, lossy, disk, cgate, backedUp, result, history, counts>>

StopProject(u) ==
  /\ pc[u] = "stop"
  /\ Sends("stop")
  /\ Goto(u, "close")
  /\ UNCHANGED <<kind, lossy, disk, backedUp, result, history, counts>>

CloseProject(u) ==
  /\ pc[u] = "close"
  /\ Sends("close")
  /\ Goto(u, "stat")
  /\ UNCHANGED <<kind, lossy, disk, backedUp, result, history, counts>>

\* os.Stat(dest): is there anything to back up?  Any error means no, one that
\* only says that the call failed as well.
StatDest(u) ==
  /\ pc[u] = "stat"
  /\ \/ /\ Goto(u, IF dest = Absent THEN "install"
                    ELSE IF kind = "archive" THEN "clear" ELSE "move")
        /\ UNCHANGED <<blind, faults>>
     \/ /\ dest # Absent
        /\ DiskFault
        /\ Goto(u, "install")
        /\ blind' = [blind EXCEPT ![u] = TRUE]
  /\ UNCHANGED <<kind, lossy, disk, cgate, backedUp, result, before, moved, crashes, saves>>

\* os.RemoveAll(backup), for a directory.  A failure leaves some of it.
ClearBackup(u) ==
  /\ pc[u] = "clear"
  /\ \/ /\ backup' = Absent
        /\ Goto(u, "move")
        /\ UNCHANGED <<staged, result, faults>>
     \/ /\ DiskFault
        /\ backup # Absent
        /\ backup' = Torn
        /\ Fail(u)
  /\ UNCHANGED <<kind, lossy, dest, cgate, backedUp, history, crashes, saves>>

\* Renaming onto a directory that is there fails; a file is replaced.
CanRename(from, to) == from # Absent /\ (kind = "archive" => to = Absent)

\* Mutant of MoveToBackup: the project is removed to make room.
MoveDeletes(u) ==
  /\ pc[u] = "move"
  /\ dest' = Absent
  /\ Goto(u, "install")
  /\ UNCHANGED <<kind, lossy, backup, staged, cgate, backedUp, result, history, counts>>

\* Mutant of MoveToBackup: the error of the rename is not looked at.
MoveUnchecked(u) ==
  /\ pc[u] = "move"
  /\ \/ /\ CanRename(dest, backup)
        /\ backup' = dest
        /\ dest' = Absent
        /\ UNCHANGED faults
     \/ /\ DiskFault
        /\ UNCHANGED <<dest, backup>>
  /\ backedUp' = [backedUp EXCEPT ![u] = TRUE]
  /\ moved' = [moved EXCEPT ![u] = dest]
  /\ Goto(u, "install")
  /\ UNCHANGED <<kind, lossy, staged, cgate, result, before, blind, crashes, saves>>

\* os.Rename(dest, backup)
MoveToBackup(u) ==
  /\ pc[u] = "move"
  /\ \/ /\ CanRename(dest, backup)
        /\ backup' = dest
        /\ dest' = Absent
        /\ backedUp' = [backedUp EXCEPT ![u] = TRUE]
        /\ moved' = [moved EXCEPT ![u] = dest]
        /\ Goto(u, "install")
        /\ UNCHANGED <<staged, result, faults>>
     \/ /\ CanRename(dest, backup) => DiskFault
        /\ ~CanRename(dest, backup) => UNCHANGED faults
        /\ Fail(u)
        /\ UNCHANGED <<dest, backup, backedUp, moved>>
  /\ UNCHANGED <<kind, lossy, cgate, before, blind, crashes, saves>>

\* os.Rename(staging, dest).  Over a database that os.Stat failed to see it
\* succeeds.
Install(u) ==
  /\ pc[u] = "install"
  /\ \/ /\ CanRename(u, dest)
        /\ dest' = u
        /\ staged' = [staged EXCEPT ![u] = FALSE]
        /\ Goto(u, "load")
        /\ UNCHANGED <<result, faults>>
     \/ /\ CanRename(u, dest) => DiskFault
        /\ ~CanRename(u, dest) => UNCHANGED faults
        /\ UNCHANGED dest
        /\ \/ /\ backedUp[u]
              /\ Goto(u, "rollback")
              /\ UNCHANGED <<staged, result>>
           \/ /\ ~backedUp[u]
              /\ Fail(u)
  /\ UNCHANGED <<kind, lossy, backup, cgate, backedUp, history, crashes, saves>>

\* Mutant of Rollback: the backup is left where it is.
RollbackSkipped(u) ==
  /\ pc[u] = "rollback"
  /\ Fail(u)
  /\ UNCHANGED <<kind, lossy, dest, backup, cgate, backedUp, history, counts>>

\* os.Rename(backup, dest), whose error is ignored.
Rollback(u) ==
  /\ pc[u] = "rollback"
  /\ \/ /\ CanRename(backup, dest)
        /\ dest' = backup
        /\ backup' = Absent
        /\ UNCHANGED faults
     \/ /\ CanRename(backup, dest) => DiskFault
        /\ ~CanRename(backup, dest) => UNCHANGED faults
        /\ UNCHANGED <<dest, backup>>
  /\ Fail(u)
  /\ UNCHANGED <<kind, lossy, cgate, backedUp, history, crashes, saves>>

\* Mutant of LoadProject: the project is started without being loaded.
LoadSkipped(u) ==
  /\ pc[u] = "load"
  /\ Goto(u, "start")
  /\ UNCHANGED <<kind, lossy, disk, cgate, backedUp, result, history, counts>>

LoadProject(u) ==
  /\ pc[u] = "load"
  /\ Sends("load")
  /\ Goto(u, "start")
  /\ UNCHANGED <<kind, lossy, disk, backedUp, result, history, counts>>

\* The last command, and the answer 200.
StartProject(u) ==
  /\ pc[u] = "start"
  /\ Sends("start")
  /\ Goto(u, "done")
  /\ result' = [result EXCEPT ![u] = "ok"]
  /\ UNCHANGED <<kind, lossy, disk, backedUp, history, counts>>

-----------------------------------------------------------------------------
(* The surroundings. *)

\* A command that a handler has given up on is run after all.
RunsLate(command) ==
  /\ command \in late
  /\ late' = late \ {command}
  /\ Runs(command)
  /\ UNCHANGED <<kind, lossy, disk, handlers, history, counts>>

\* An operator has C-Gate write the project it holds.
Save ==
  /\ held # "closed"
  /\ dest # Absent
  /\ saves < MaxSaves
  /\ saves' = saves + 1
  /\ dest' = mem
  /\ UNCHANGED <<kind, lossy, backup, staged, cgate, handlers, history, faults, crashes>>

\* The bridge dies and entrypoint.sh starts it again: the uploads under way
\* are gone, what they have staged stays, and a RemoveAll may be half done.
Crash ==
  /\ crashes < MaxCrashes
  /\ \E u \in Upload : Active(u)
  /\ crashes' = crashes + 1
  /\ pc' = [u \in Upload |-> IF Active(u) THEN "dead" ELSE pc[u]]
  /\ \/ UNCHANGED backup
     \/ /\ \E u \in Upload : pc[u] = "clear"
        /\ backup # Absent
        /\ backup' = Torn
  /\ UNCHANGED <<kind, lossy, dest, staged, cgate, backedUp, result, history, faults, saves>>

-----------------------------------------------------------------------------
Handle(u) ==
  \/ Stage(u)
  \/ ListOpen(u) \/ StopProject(u) \/ CloseProject(u)
  \/ StatDest(u) \/ ClearBackup(u) \/ MoveToBackup(u) \/ Install(u) \/ Rollback(u)
  \/ LoadProject(u) \/ StartProject(u)

Next ==
  \/ \E u \in Upload : Handle(u)
  \/ \E command \in {"stop", "close", "load", "start"} : RunsLate(command)
  \/ Save
  \/ Crash

Spec == Init /\ [][Next]_vars

-----------------------------------------------------------------------------
(* What a user sees of the copies on disk.  While the project's place is   *)
(* empty the copy in the backup is the newest.                             *)
Newest  == IF dest # Absent THEN dest ELSE backup
Spare   == IF dest = Absent \/ backup = Torn THEN Absent ELSE backup
Begun   == {u \in Upload : pc[u] # "idle"}
Swapped == {u \in Begun : ~staged[u] /\ result[u] # "error"}
Kept    == {u \in Swapped : backedUp[u]}
Unseen  == {u \in Upload : blind[u]}
Store   == INSTANCE ProjectStore
             WITH newest <- Newest, spare <- Spare, begun <- Begun, swapped <- Swapped,
                  kept <- Kept, unseen <- Unseen, outcome <- result

-----------------------------------------------------------------------------
(* Properties. *)

\* Every variable keeps to the values the code can give it.
TypeOK ==
  /\ kind \in {"archive", "database"}
  /\ lossy \in BOOLEAN
  /\ dest \in Version \cup {Absent, Torn}
  /\ backup \in Version \cup {Absent, Torn}
  /\ staged \in [Upload -> BOOLEAN]
  /\ held \in {"closed", "stopped", "running"}
  /\ mem \in Version \cup {Absent, Torn}
  /\ (held = "closed") = (mem = Absent)
  /\ late \subseteq {"stop", "close", "load", "start"}
  /\ pc \in [Upload -> Stages]
  /\ \A u \in Upload : pc[u] = "rollback" => backedUp[u]
  /\ backedUp \in [Upload -> BOOLEAN]
  /\ result \in [Upload -> {"none", "ok", "error"}]
  /\ before \in [Upload -> Version \cup {Absent, Torn}]
  /\ moved \in [Upload -> Version \cup {Absent, Torn}]
  /\ blind \in [Upload -> BOOLEAN]
  /\ faults \in 0 .. MaxFaults
  /\ crashes \in 0 .. MaxCrashes
  /\ saves \in 0 .. MaxSaves

Complete == dest \in Version \/ backup \in Version

\* Once a complete copy of the project is on disk there is one at every later
\* moment, so neither a failed step nor a crash at any point loses it
\* (main.go 999-1022, 1118-1137).  RefinesStore, below, says more.
NeverLost == [][Complete => Complete']_vars

\* The files of a project are swapped only while C-Gate does not hold it
\* (main.go 958-962 and 1155-1157).
SwapsReleasedProject ==
  [][\A u \in Upload : pc'[u] # pc[u] /\ dest' # dest => held = "closed"]_vars

\* The same, as long as C-Gate answers the commands of the uploads.
AnsweredSwapsReleasedProject ==
  [][\A u \in Upload :
       ~lossy /\ pc'[u] # pc[u] /\ dest' # dest => held = "closed"]_vars

\* An upload that reports a backup has left there what it replaced (main.go
\* 962 and 1043: the previous copy is kept as <project>.bak).
BackupIsPrevious ==
  \A u \in Upload : pc[u] \in {"load", "start"} /\ backedUp[u] => backup = moved[u]

\* When all uploads are over and one of them has answered that it kept a
\* backup, there is one (main.go 1043: "The previous directory is kept as
\* <project>.bak").
BackupKept ==
  (\A u \in Upload : ~Active(u)) /\ (\E u \in Upload : backedUp[u] /\ result[u] = "ok")
    => backup # Absent

\* A failed upload leaves the project as it found it, in its place or, when
\* the disk failed it and failed the rollback as well, in the backup
\* (main.go 955-960, 1127-1137).  A save that overtakes a lost close is not
\* its doing.
FailureKeepsProject ==
  [][\A u \in Upload :
       result[u] = "none" /\ result'[u] = "error" /\ before[u] # Absent
         /\ (lossy => saves = 0) =>
         \/ dest' = before[u]
         \/ dest' = Absent /\ backup' = before[u] /\ faults' > 1]_vars

\* When an upload is answered with success, and C-Gate has answered its
\* commands, C-Gate runs the uploaded version and the disk holds it (main.go
\* 958-962, 1184-1187).
SuccessServesUpload ==
  [][\A u \in Upload :
       ~lossy /\ result[u] = "none" /\ result'[u] = "ok" =>
         dest' = u /\ mem' = u /\ held' = "running"]_vars

\* While C-Gate answers the commands of the uploads, it never holds another
\* version than the one on disk, after a failure or a crash as little as after
\* a success: no save of its own can undo an upload (main.go 958-960 and
\* 1155-1157).
HeldIsOnDisk == ~lossy => mem \in {Absent, dest}

\* Two renames, a removal and a rollback, with faults and a death of the bridge
\* at any point, implement the one step that module ProjectStore promises: an
\* upload replaces the newest copy exactly if it gets to its end, at most once
\* and not after it was answered.  What it replaced is then the copy kept behind
\* it, unless it could not see that there was anything, and then it does not
\* report a backup (main.go 1005-1032, 1115-1153).
RefinesStore == Store!Spec
=============================================================================
