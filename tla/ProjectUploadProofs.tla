------------------------- MODULE ProjectUploadProofs -------------------------
(***************************************************************************)
(* Theorems of ProjectUpload, for any set of uploads and any number of     *)
(* faults, crashes and saves.  All but type correctness are about uploads  *)
(* one at a time (Serial): run upload_concurrent shows why.                *)
(*                                                                         *)
(* IInv carries the properties of single uploads, and with CopiesInv, that *)
(* ProjectUpload implements ProjectStore.                                  *)
(***************************************************************************)
EXTENDS ProjectUpload, TLAPS

(* The inductive invariant, part by part. *)

\* One upload is under way at most.
AloneInv == \A u, v \in Upload : Active(u) /\ Active(v) => u = v

\* Only a backup can be torn.
WholeInv == dest \in Version \cup {Absent} /\ mem \in Version \cup {Absent}

\* What is on disk at each stage of an upload.
StageInv ==
  \A u \in Upload :
    /\ pc[u] \in {"idle", "list", "stop", "close", "stat", "clear", "move"} => ~backedUp[u]
    /\ pc[u] \in {"clear", "move"} => dest \in Version
    /\ pc[u] = "rollback" => dest = Absent
    /\ pc[u] = "install" /\ dest # Absent => blind[u] /\ ~backedUp[u]
    /\ pc[u] \in {"install", "rollback", "load", "start"} /\ backedUp[u] =>
         backup = moved[u] /\ backup \in Version

\* While C-Gate answers every command, it holds what is on disk or nothing, and
\* nothing from the close to the load.
AnswerInv ==
  ~lossy =>
    /\ late = {}
    /\ held # "closed" => mem = dest
    /\ \A u \in Upload :
         /\ pc[u] = "stop" => held # "closed"
         /\ pc[u] = "close" => held = "stopped"
         /\ pc[u] \in {"stat", "clear", "move", "install", "rollback", "load"} =>
              held = "closed"
         /\ pc[u] = "load" => dest = u
         /\ pc[u] = "start" => held = "stopped" /\ dest = u

\* Where the version is that an upload found, until it has installed its own.
KeepInv ==
  \A u \in Upload :
    before[u] # Absent /\ (lossy => saves = 0) =>
      /\ pc[u] \in {"list", "stop", "close", "stat", "clear", "move"} => dest = before[u]
      /\ pc[u] = "install" =>
           IF backedUp[u] THEN backup = before[u] ELSE dest = before[u]
      /\ pc[u] = "rollback" => backup = before[u] /\ faults > 0

IInv == TypeOK /\ AloneInv /\ WholeInv /\ StageInv /\ AnswerInv /\ KeepInv

-----------------------------------------------------------------------------
LEMMA InitInv == Init => IInv
<1> SUFFICES ASSUME Init
             PROVE  IInv
  OBVIOUS
<1> USE ValuesAreDistinct, SettingsAreBooleans, BoundsAreNaturals DEF Init, Version
<1>1. held \in {"closed", "stopped", "running"} /\ (held = "closed") = (mem = Absent)
  OBVIOUS
<1>2. mem \in Version \cup {Absent}
  OBVIOUS
<1>3. lossy \in BOOLEAN
  OBVIOUS
<1>4. /\ dest \in Version \cup {Absent, Torn} /\ backup \in Version \cup {Absent, Torn}
      /\ mem \in Version \cup {Absent, Torn}
  BY <1>2
<1>5. TypeOK
  BY <1>1, <1>3, <1>4 DEF TypeOK, Stages
<1>6. AloneInv /\ StageInv /\ KeepInv
  BY DEF AloneInv, Active, StageInv, KeepInv
<1>7. WholeInv /\ AnswerInv
  BY <1>1, <1>2 DEF WholeInv, AnswerInv
<1> QED
  BY <1>5, <1>6, <1>7 DEF IInv

\* What a disk operation that fails leaves is of the right type.
LEMMA FaultType ==
  ASSUME TypeOK, DiskFault
  PROVE  faults' \in 0 .. MaxFaults /\ faults' > faults
BY BoundsAreNaturals DEF TypeOK, DiskFault

LEMMA FailType ==
  ASSUME TypeOK, NEW u \in Upload, Fail(u)
  PROVE  /\ pc' \in [Upload -> Stages]
         /\ \A v \in Upload : pc'[v] = "rollback" => pc[v] = "rollback"
         /\ staged' \in [Upload -> BOOLEAN]
         /\ result' \in [Upload -> {"none", "ok", "error"}]
BY DEF TypeOK, Fail, Goto, Stages

LEMMA StepType ==
  ASSUME TypeOK, [Next]_vars
  PROVE  TypeOK'
<1> USE ValuesAreDistinct, SettingsAreBooleans, BoundsAreNaturals DEF TypeOK, Stages, Version
<1>1. CASE UNCHANGED vars
  BY <1>1 DEF vars
<1>2. ASSUME NEW u \in Upload, Stage(u)
     PROVE  TypeOK'
  BY <1>2 DEF Stage, Goto, cgate, counts
<1>3. ASSUME NEW u \in Upload, ListOpen(u)
     PROVE  TypeOK'
  BY <1>3 DEF ListOpen, Goto, disk, cgate, history, counts
<1>4. ASSUME NEW u \in Upload, StopProject(u)
     PROVE  TypeOK'
  BY <1>4 DEF StopProject, Goto, Sends, Runs, Stop, Close, Load, Start, disk, cgate, history, counts
<1>5. ASSUME NEW u \in Upload, CloseProject(u)
     PROVE  TypeOK'
  BY <1>5 DEF CloseProject, Goto, Sends, Runs, Stop, Close, Load, Start, disk, cgate, history, counts
<1>6. ASSUME NEW u \in Upload, StatDest(u)
     PROVE  TypeOK'
  <2>1. CASE UNCHANGED <<blind, faults>>
    BY <1>6, <2>1 DEF StatDest, Goto, disk, cgate
  <2>2. CASE DiskFault /\ Goto(u, "install") /\ blind' = [blind EXCEPT ![u] = TRUE]
    BY <1>6, <2>2, FaultType DEF StatDest, Goto, disk, cgate
  <2> QED
    BY <1>6, <2>1, <2>2 DEF StatDest
<1>7. ASSUME NEW u \in Upload, ClearBackup(u)
     PROVE  TypeOK'
  <2>1. CASE backup' = Absent /\ Goto(u, "move") /\ UNCHANGED <<staged, result, faults>>
    BY <1>7, <2>1 DEF ClearBackup, Goto, cgate, history
  <2>2. CASE DiskFault /\ backup' = Torn /\ Fail(u)
    BY <1>7, <2>2, FaultType, FailType DEF ClearBackup, cgate, history
  <2> QED
    BY <1>7, <2>1, <2>2 DEF ClearBackup
<1>8. ASSUME NEW u \in Upload, MoveToBackup(u)
     PROVE  TypeOK'
  <2>1. CASE /\ backup' = dest /\ dest' = Absent
             /\ backedUp' = [backedUp EXCEPT ![u] = TRUE]
             /\ moved' = [moved EXCEPT ![u] = dest]
             /\ Goto(u, "install")
             /\ UNCHANGED <<staged, result, faults>>
    BY <1>8, <2>1 DEF MoveToBackup, Goto, cgate
  <2>2. CASE Fail(u) /\ UNCHANGED <<dest, backup, backedUp, moved>>
    BY <1>8, <2>2, FaultType, FailType DEF MoveToBackup, cgate
  <2> QED
    BY <1>8, <2>1, <2>2 DEF MoveToBackup
<1>9. ASSUME NEW u \in Upload, Install(u)
     PROVE  TypeOK'
  <2>1. CASE /\ dest' = u /\ Goto(u, "load")
             /\ staged' = [staged EXCEPT ![u] = FALSE]
             /\ UNCHANGED <<result, faults>>
    BY <1>9, <2>1 DEF Install, Goto, cgate, history
  <2>2. CASE backedUp[u] /\ Goto(u, "rollback") /\ UNCHANGED <<dest, staged, result>>
    BY <1>9, <2>2, FaultType DEF Install, Goto, cgate, history
  <2>3. CASE Fail(u) /\ UNCHANGED dest
    BY <1>9, <2>3, FaultType, FailType DEF Install, cgate, history
  <2> QED
    BY <1>9, <2>1, <2>2, <2>3 DEF Install
<1>10. ASSUME NEW u \in Upload, Rollback(u)
     PROVE  TypeOK'
  BY <1>10 DEF Rollback, Goto, Fail, DiskFault, CanRename, cgate, history
<1>11. ASSUME NEW u \in Upload, LoadProject(u)
     PROVE  TypeOK'
  BY <1>11 DEF LoadProject, Goto, Sends, Runs, Stop, Close, Load, Start, disk, cgate, history, counts
<1>12. ASSUME NEW u \in Upload, StartProject(u)
     PROVE  TypeOK'
  BY <1>12 DEF StartProject, Goto, Sends, Runs, Stop, Close, Load, Start, disk, cgate, history, counts
<1>13. ASSUME NEW command \in {"stop", "close", "load", "start"}, RunsLate(command)
      PROVE  TypeOK'
  BY <1>13 DEF RunsLate, Runs, Stop, Close, Load, Start, disk, handlers, history, counts
<1>14. CASE Save
  BY <1>14 DEF Save, cgate, handlers, history
<1>15. CASE Crash
  BY <1>15 DEF Crash, cgate, history
<1> QED
  BY <1>1, <1>2, <1>3, <1>4, <1>5, <1>6, <1>7, <1>8, <1>9, <1>10, <1>11, <1>12,
     <1>13, <1>14, <1>15 DEF Next, Handle

LEMMA StepAlone ==
  ASSUME IInv, Serial, [Next]_vars
  PROVE  AloneInv'
<1> USE DEF IInv, TypeOK, AloneInv, Active, Stages
<1>1. CASE UNCHANGED vars
  BY <1>1 DEF vars
<1>2. ASSUME NEW u \in Upload, Stage(u)
     PROVE  AloneInv'
  BY <1>2 DEF Stage, Goto
<1>3. ASSUME NEW u \in Upload, ListOpen(u)
     PROVE  AloneInv'
  BY <1>3 DEF ListOpen, Goto
<1>4. ASSUME NEW u \in Upload, StopProject(u)
     PROVE  AloneInv'
  BY <1>4 DEF StopProject, Goto
<1>5. ASSUME NEW u \in Upload, CloseProject(u)
     PROVE  AloneInv'
  BY <1>5 DEF CloseProject, Goto
<1>6. ASSUME NEW u \in Upload, StatDest(u)
     PROVE  AloneInv'
  BY <1>6 DEF StatDest, Goto
<1>7. ASSUME NEW u \in Upload, ClearBackup(u)
     PROVE  AloneInv'
  BY <1>7 DEF ClearBackup, Goto, Fail
<1>8. ASSUME NEW u \in Upload, MoveToBackup(u)
     PROVE  AloneInv'
  BY <1>8 DEF MoveToBackup, Goto, Fail
<1>9. ASSUME NEW u \in Upload, Install(u)
     PROVE  AloneInv'
  BY <1>9 DEF Install, Goto, Fail
<1>10. ASSUME NEW u \in Upload, Rollback(u)
     PROVE  AloneInv'
  BY <1>10 DEF Rollback, Goto, Fail
<1>11. ASSUME NEW u \in Upload, LoadProject(u)
     PROVE  AloneInv'
  BY <1>11 DEF LoadProject, Goto
<1>12. ASSUME NEW u \in Upload, StartProject(u)
     PROVE  AloneInv'
  BY <1>12 DEF StartProject, Goto
<1>13. ASSUME NEW command \in {"stop", "close", "load", "start"}, RunsLate(command)
      PROVE  AloneInv'
  BY <1>13 DEF RunsLate, handlers
<1>14. CASE Save
  BY <1>14 DEF Save, handlers
<1>15. CASE Crash
  BY <1>15 DEF Crash
<1> QED
  BY <1>1, <1>2, <1>3, <1>4, <1>5, <1>6, <1>7, <1>8, <1>9, <1>10, <1>11, <1>12,
     <1>13, <1>14, <1>15 DEF Next, Handle

LEMMA StepWhole ==
  ASSUME IInv, Serial, [Next]_vars
  PROVE  WholeInv'
<1> USE ValuesAreDistinct, SettingsAreBooleans, BoundsAreNaturals DEF IInv, TypeOK, WholeInv, StageInv, Version
<1>1. CASE UNCHANGED vars
  BY <1>1 DEF vars
<1>2. ASSUME NEW u \in Upload, Stage(u)
     PROVE  WholeInv'
  BY <1>2 DEF Stage, Goto, cgate, counts
<1>3. ASSUME NEW u \in Upload, ListOpen(u)
     PROVE  WholeInv'
  BY <1>3 DEF ListOpen, Goto, disk, cgate, history, counts
<1>4. ASSUME NEW u \in Upload, StopProject(u)
     PROVE  WholeInv'
  BY <1>4 DEF StopProject, Goto, Sends, Runs, Stop, Close, Load, Start, disk, cgate, history, counts
<1>5. ASSUME NEW u \in Upload, CloseProject(u)
     PROVE  WholeInv'
  BY <1>5 DEF CloseProject, Goto, Sends, Runs, Stop, Close, Load, Start, disk, cgate, history, counts
<1>6. ASSUME NEW u \in Upload, StatDest(u)
     PROVE  WholeInv'
  BY <1>6 DEF StatDest, Goto, DiskFault, disk, cgate
<1>7. ASSUME NEW u \in Upload, ClearBackup(u)
     PROVE  WholeInv'
  BY <1>7 DEF ClearBackup, Goto, Fail, DiskFault, cgate, history
<1>8. ASSUME NEW u \in Upload, MoveToBackup(u)
     PROVE  WholeInv'
  BY <1>8 DEF MoveToBackup, Goto, Fail, DiskFault, CanRename, cgate
<1>9. ASSUME NEW u \in Upload, Install(u)
     PROVE  WholeInv'
  BY <1>9 DEF Install, Goto, Fail, DiskFault, CanRename, cgate, history
<1>10. ASSUME NEW u \in Upload, Rollback(u)
     PROVE  WholeInv'
  BY <1>10 DEF Rollback, Goto, Fail, DiskFault, CanRename, cgate, history
<1>11. ASSUME NEW u \in Upload, LoadProject(u)
     PROVE  WholeInv'
  BY <1>11 DEF LoadProject, Goto, Sends, Runs, Stop, Close, Load, Start, disk, cgate, history, counts
<1>12. ASSUME NEW u \in Upload, StartProject(u)
     PROVE  WholeInv'
  BY <1>12 DEF StartProject, Goto, Sends, Runs, Stop, Close, Load, Start, disk, cgate, history, counts
<1>13. ASSUME NEW command \in {"stop", "close", "load", "start"}, RunsLate(command)
      PROVE  WholeInv'
  BY <1>13 DEF RunsLate, Runs, Stop, Close, Load, Start, disk, handlers, history, counts
<1>14. CASE Save
  BY <1>14 DEF Save, cgate, handlers, history
<1>15. CASE Crash
  BY <1>15 DEF Crash, cgate, history
<1> QED
  BY <1>1, <1>2, <1>3, <1>4, <1>5, <1>6, <1>7, <1>8, <1>9, <1>10, <1>11, <1>12,
     <1>13, <1>14, <1>15 DEF Next, Handle

LEMMA StepStage ==
  ASSUME IInv, Serial, [Next]_vars
  PROVE  StageInv'
<1> USE ValuesAreDistinct, SettingsAreBooleans, BoundsAreNaturals DEF IInv, TypeOK, Stages, AloneInv, Active, WholeInv, StageInv, Version
<1>1. CASE UNCHANGED vars
  BY <1>1 DEF vars
<1>2. ASSUME NEW u \in Upload, Stage(u)
     PROVE  StageInv'
  BY <1>2 DEF Stage, Goto, cgate, counts
<1>3. ASSUME NEW u \in Upload, ListOpen(u)
     PROVE  StageInv'
  BY <1>3 DEF ListOpen, Goto, disk, cgate, history, counts
<1>4. ASSUME NEW u \in Upload, StopProject(u)
     PROVE  StageInv'
  BY <1>4 DEF StopProject, Goto, Sends, Runs, Stop, Close, Load, Start, disk, cgate, history, counts
<1>5. ASSUME NEW u \in Upload, CloseProject(u)
     PROVE  StageInv'
  BY <1>5 DEF CloseProject, Goto, Sends, Runs, Stop, Close, Load, Start, disk, cgate, history, counts
<1>6. ASSUME NEW u \in Upload, StatDest(u)
     PROVE  StageInv'
  BY <1>6 DEF StatDest, Goto, DiskFault, disk, cgate
<1>7. ASSUME NEW u \in Upload, ClearBackup(u)
     PROVE  StageInv'
  BY <1>7 DEF ClearBackup, Goto, Fail, DiskFault, cgate, history
<1>8. ASSUME NEW u \in Upload, MoveToBackup(u)
     PROVE  StageInv'
  BY <1>8 DEF MoveToBackup, Goto, Fail, DiskFault, CanRename, cgate
<1>9. ASSUME NEW u \in Upload, Install(u)
     PROVE  StageInv'
  BY <1>9 DEF Install, Goto, Fail, DiskFault, CanRename, cgate, history
<1>10. ASSUME NEW u \in Upload, Rollback(u)
     PROVE  StageInv'
  BY <1>10 DEF Rollback, Goto, Fail, DiskFault, CanRename, cgate, history
<1>11. ASSUME NEW u \in Upload, LoadProject(u)
     PROVE  StageInv'
  BY <1>11 DEF LoadProject, Goto, Sends, Runs, Stop, Close, Load, Start, disk, cgate, history, counts
<1>12. ASSUME NEW u \in Upload, StartProject(u)
     PROVE  StageInv'
  BY <1>12 DEF StartProject, Goto, Sends, Runs, Stop, Close, Load, Start, disk, cgate, history, counts
<1>13. ASSUME NEW command \in {"stop", "close", "load", "start"}, RunsLate(command)
      PROVE  StageInv'
  BY <1>13 DEF RunsLate, Runs, Stop, Close, Load, Start, disk, handlers, history, counts
<1>14. CASE Save
  BY <1>14 DEF Save, cgate, handlers, history
<1>15. CASE Crash
  BY <1>15 DEF Crash, cgate, history
<1> QED
  BY <1>1, <1>2, <1>3, <1>4, <1>5, <1>6, <1>7, <1>8, <1>9, <1>10, <1>11, <1>12,
     <1>13, <1>14, <1>15 DEF Next, Handle

LEMMA StepAnswer ==
  ASSUME IInv, Serial, [Next]_vars
  PROVE  AnswerInv'
<1> USE ValuesAreDistinct, SettingsAreBooleans, BoundsAreNaturals DEF IInv, TypeOK, Stages, AloneInv, Active, StageInv, AnswerInv, Version
<1>1. CASE UNCHANGED vars
  BY <1>1 DEF vars
<1>2. ASSUME NEW u \in Upload, Stage(u)
     PROVE  AnswerInv'
  BY <1>2 DEF Stage, Goto, cgate, counts
<1>3. ASSUME NEW u \in Upload, ListOpen(u)
     PROVE  AnswerInv'
  BY <1>3 DEF ListOpen, Goto, disk, cgate, history, counts
<1>4. ASSUME NEW u \in Upload, StopProject(u)
     PROVE  AnswerInv'
  BY <1>4 DEF StopProject, Goto, Sends, Runs, Stop, Close, Load, Start, disk, cgate, history, counts
<1>5. ASSUME NEW u \in Upload, CloseProject(u)
     PROVE  AnswerInv'
  BY <1>5 DEF CloseProject, Goto, Sends, Runs, Stop, Close, Load, Start, disk, cgate, history, counts
<1>6. ASSUME NEW u \in Upload, StatDest(u)
     PROVE  AnswerInv'
  BY <1>6 DEF StatDest, Goto, DiskFault, disk, cgate
<1>7. ASSUME NEW u \in Upload, ClearBackup(u)
     PROVE  AnswerInv'
  BY <1>7 DEF ClearBackup, Goto, Fail, DiskFault, cgate, history
<1>8. ASSUME NEW u \in Upload, MoveToBackup(u)
     PROVE  AnswerInv'
  BY <1>8 DEF MoveToBackup, Goto, Fail, DiskFault, CanRename, cgate
<1>9. ASSUME NEW u \in Upload, Install(u)
     PROVE  AnswerInv'
  BY <1>9 DEF Install, Goto, Fail, DiskFault, CanRename, cgate, history
<1>10. ASSUME NEW u \in Upload, Rollback(u)
     PROVE  AnswerInv'
  BY <1>10 DEF Rollback, Goto, Fail, DiskFault, CanRename, cgate, history
<1>11. ASSUME NEW u \in Upload, LoadProject(u)
     PROVE  AnswerInv'
  <2> SUFFICES ASSUME ~lossy
               PROVE  AnswerInv'
    BY <1>11 DEF LoadProject
  <2>1. held = "closed" /\ dest = u /\ dest # Absent
    BY <1>11 DEF LoadProject
  <2>2. held' = "stopped" /\ mem' = dest /\ late' = late
    BY <1>11, <2>1 DEF LoadProject, Sends, Runs, Load
  <2> QED
    BY <1>11, <2>1, <2>2 DEF LoadProject, Goto, disk
<1>12. ASSUME NEW u \in Upload, StartProject(u)
     PROVE  AnswerInv'
  BY <1>12 DEF StartProject, Goto, Sends, Runs, Stop, Close, Load, Start, disk, cgate, history, counts
<1>13. ASSUME NEW command \in {"stop", "close", "load", "start"}, RunsLate(command)
      PROVE  AnswerInv'
  BY <1>13 DEF RunsLate, Runs, Stop, Close, Load, Start, disk, handlers, history, counts
<1>14. CASE Save
  BY <1>14 DEF Save, cgate, handlers, history
<1>15. CASE Crash
  BY <1>15 DEF Crash, cgate, history
<1> QED
  BY <1>1, <1>2, <1>3, <1>4, <1>5, <1>6, <1>7, <1>8, <1>9, <1>10, <1>11, <1>12,
     <1>13, <1>14, <1>15 DEF Next, Handle

LEMMA StepKeep ==
  ASSUME IInv, Serial, [Next]_vars
  PROVE  KeepInv'
<1> USE ValuesAreDistinct, SettingsAreBooleans, BoundsAreNaturals DEF IInv, TypeOK, Stages, AloneInv, Active, StageInv, AnswerInv, KeepInv, Version
<1>1. CASE UNCHANGED vars
  BY <1>1 DEF vars
<1>2. ASSUME NEW u \in Upload, Stage(u)
     PROVE  KeepInv'
  BY <1>2 DEF Stage, Goto, cgate, counts
<1>3. ASSUME NEW u \in Upload, ListOpen(u)
     PROVE  KeepInv'
  BY <1>3 DEF ListOpen, Goto, disk, cgate, history, counts
<1>4. ASSUME NEW u \in Upload, StopProject(u)
     PROVE  KeepInv'
  BY <1>4 DEF StopProject, Goto, Sends, Runs, Stop, Close, Load, Start, disk, cgate, history, counts
<1>5. ASSUME NEW u \in Upload, CloseProject(u)
     PROVE  KeepInv'
  BY <1>5 DEF CloseProject, Goto, Sends, Runs, Stop, Close, Load, Start, disk, cgate, history, counts
<1>6. ASSUME NEW u \in Upload, StatDest(u)
     PROVE  KeepInv'
  BY <1>6 DEF StatDest, Goto, DiskFault, disk, cgate
<1>7. ASSUME NEW u \in Upload, ClearBackup(u)
     PROVE  KeepInv'
  BY <1>7 DEF ClearBackup, Goto, Fail, DiskFault, cgate, history
<1>8. ASSUME NEW u \in Upload, MoveToBackup(u)
     PROVE  KeepInv'
  BY <1>8 DEF MoveToBackup, Goto, Fail, DiskFault, CanRename, cgate
<1>9. ASSUME NEW u \in Upload, Install(u)
     PROVE  KeepInv'
  BY <1>9 DEF Install, Goto, Fail, DiskFault, CanRename, cgate, history
<1>10. ASSUME NEW u \in Upload, Rollback(u)
     PROVE  KeepInv'
  BY <1>10 DEF Rollback, Goto, Fail, DiskFault, CanRename, cgate, history
<1>11. ASSUME NEW u \in Upload, LoadProject(u)
     PROVE  KeepInv'
  BY <1>11 DEF LoadProject, Goto, Sends, Runs, Stop, Close, Load, Start, disk, cgate, history, counts
<1>12. ASSUME NEW u \in Upload, StartProject(u)
     PROVE  KeepInv'
  BY <1>12 DEF StartProject, Goto, Sends, Runs, Stop, Close, Load, Start, disk, cgate, history, counts
<1>13. ASSUME NEW command \in {"stop", "close", "load", "start"}, RunsLate(command)
      PROVE  KeepInv'
  BY <1>13 DEF RunsLate, Runs, Stop, Close, Load, Start, disk, handlers, history, counts
<1>14. CASE Save
  BY <1>14 DEF Save, cgate, handlers, history
<1>15. CASE Crash
  BY <1>15 DEF Crash, cgate, history
<1> QED
  BY <1>1, <1>2, <1>3, <1>4, <1>5, <1>6, <1>7, <1>8, <1>9, <1>10, <1>11, <1>12,
     <1>13, <1>14, <1>15 DEF Next, Handle

-----------------------------------------------------------------------------
(* Which steps do what the action properties speak of. *)

LEMMA WhoSwaps ==
  ASSUME TypeOK, Next, NEW u \in Upload, pc'[u] # pc[u], dest' # dest
  PROVE  MoveToBackup(u) \/ Install(u) \/ Rollback(u)
<1> USE DEF TypeOK, Goto, Fail
<1>1. ASSUME NEW v \in Upload, Handle(v)
      PROVE  MoveToBackup(u) \/ Install(u) \/ Rollback(u)
  <2>1. MoveToBackup(v) \/ Install(v) \/ Rollback(v)
    BY <1>1 DEF Handle, Stage, ListOpen, StopProject, CloseProject, StatDest, ClearBackup,
                LoadProject, StartProject, disk
  <2>2. v = u
    BY <2>1 DEF MoveToBackup, Install, Rollback
  <2> QED
    BY <2>1, <2>2
<1>2. ~\E command \in {"stop", "close", "load", "start"} : RunsLate(command)
  BY DEF RunsLate, disk
<1>3. ~Save /\ ~Crash
  BY DEF Save, Crash, handlers
<1> QED
  BY <1>1, <1>2, <1>3 DEF Next

LEMMA WhoFails ==
  ASSUME TypeOK, Next, NEW u \in Upload, result[u] = "none", result'[u] = "error"
  PROVE  Fail(u) /\ (ClearBackup(u) \/ MoveToBackup(u) \/ Install(u) \/ Rollback(u))
<1> USE DEF TypeOK
<1>1. ASSUME NEW v \in Upload, Handle(v)
      PROVE  Fail(u) /\ (ClearBackup(u) \/ MoveToBackup(u) \/ Install(u) \/ Rollback(u))
  <2>1. Fail(v) /\ (ClearBackup(v) \/ MoveToBackup(v) \/ Install(v) \/ Rollback(v))
    <3>1. ~(Stage(v) \/ ListOpen(v) \/ StopProject(v) \/ CloseProject(v) \/ StatDest(v)
              \/ LoadProject(v))
      BY DEF Stage, ListOpen, StopProject, CloseProject, StatDest, LoadProject
    <3>2. ~StartProject(v)
      BY DEF StartProject
    <3>3. ClearBackup(v) => Fail(v)
      BY DEF ClearBackup
    <3>4. MoveToBackup(v) => Fail(v)
      BY DEF MoveToBackup
    <3>5. Install(v) => Fail(v)
      BY DEF Install
    <3>6. Rollback(v) => Fail(v)
      BY DEF Rollback
    <3> QED
      BY <1>1, <3>1, <3>2, <3>3, <3>4, <3>5, <3>6 DEF Handle
  <2>2. v = u
    BY <2>1 DEF Fail
  <2> QED
    BY <2>1, <2>2
<1>2. ~\E command \in {"stop", "close", "load", "start"} : RunsLate(command)
  BY DEF RunsLate, handlers
<1>3. ~Save /\ ~Crash
  BY DEF Save, Crash, handlers
<1> QED
  BY <1>1, <1>2, <1>3 DEF Next

LEMMA WhoSucceeds ==
  ASSUME TypeOK, Next, NEW u \in Upload, result[u] = "none", result'[u] = "ok"
  PROVE  StartProject(u)
<1> USE DEF TypeOK
<1>1. ASSUME NEW v \in Upload, Handle(v)
      PROVE  StartProject(u)
  <2>1. ~Fail(v)
    BY DEF Fail
  <2>2. StartProject(v)
    BY <1>1, <2>1 DEF Handle, Stage, ListOpen, StopProject, CloseProject, StatDest,
                      ClearBackup, MoveToBackup, Install, Rollback, LoadProject
  <2>3. v = u
    BY <2>2 DEF StartProject
  <2> QED
    BY <2>2, <2>3
<1>2. ~\E command \in {"stop", "close", "load", "start"} : RunsLate(command)
  BY DEF RunsLate, handlers
<1>3. ~Save /\ ~Crash
  BY DEF Save, Crash, handlers
<1> QED
  BY <1>1, <1>2, <1>3 DEF Next

-----------------------------------------------------------------------------
\* Every variable keeps to the values the code can give it, however many
\* uploads run at a time.
THEOREM TypeCorrect == Spec => []TypeOK
<1>1. Init => TypeOK
  BY InitInv DEF IInv
<1> QED
  BY <1>1, StepType, PTL DEF Spec

\* The inductive invariant of uploads one at a time.
THEOREM Invariance ==
  ASSUME Serial
  PROVE  Spec => []IInv
<1>1. IInv /\ [Next]_vars => IInv'
  <2> SUFFICES ASSUME IInv, [Next]_vars
               PROVE  IInv'
    OBVIOUS
  <2>1. TypeOK'
    BY StepType DEF IInv
  <2>2. AloneInv' /\ WholeInv' /\ StageInv'
    BY StepAlone, StepWhole, StepStage
  <2>3. AnswerInv' /\ KeepInv'
    BY StepAnswer, StepKeep
  <2> QED
    BY <2>1, <2>2, <2>3 DEF IInv
<1> QED
  BY InitInv, <1>1, PTL DEF Spec

\* An upload that reports a backup has left there what it replaced.
THEOREM BackupHolds ==
  ASSUME Serial
  PROVE  Spec => []BackupIsPrevious
<1>1. IInv => BackupIsPrevious
  BY DEF IInv, StageInv, BackupIsPrevious
<1> QED
  BY <1>1, Invariance, PTL

\* What C-Gate holds while it answers is what is on disk, so that none of its
\* saves undoes an upload.
THEOREM HeldStaysOnDisk ==
  ASSUME Serial
  PROVE  Spec => []HeldIsOnDisk
<1>1. IInv => HeldIsOnDisk
  BY DEF IInv, TypeOK, AnswerInv, HeldIsOnDisk
<1> QED
  BY Invariance, <1>1, PTL

\* A complete copy of the project on disk survives every step, every fault and
\* a crash at any point.
THEOREM NothingIsLost ==
  ASSUME Serial
  PROVE  Spec => NeverLost
<1>1. IInv /\ [Next]_vars => [Complete => Complete']_vars
  <2> SUFFICES ASSUME IInv, Next, Complete
               PROVE  Complete'
    OBVIOUS
  <2> USE ValuesAreDistinct DEF IInv, TypeOK, WholeInv, StageInv, Complete, Version
  <2>1. ASSUME NEW u \in Upload, ClearBackup(u) \/ MoveToBackup(u)
        PROVE  Complete'
    BY <2>1 DEF ClearBackup, MoveToBackup
  <2>2. ASSUME NEW u \in Upload, Install(u)
        PROVE  Complete'
    BY <2>2 DEF Install
  <2>3. ASSUME NEW u \in Upload, Rollback(u)
        PROVE  Complete'
    BY <2>3 DEF Rollback, CanRename
  <2>4. ASSUME NEW u \in Upload,
               \/ Stage(u) \/ ListOpen(u) \/ StopProject(u) \/ CloseProject(u)
               \/ StatDest(u) \/ LoadProject(u) \/ StartProject(u)
        PROVE  Complete'
    BY <2>4 DEF Stage, ListOpen, StopProject, CloseProject, StatDest, LoadProject,
                StartProject, disk
  <2>5. ASSUME NEW command \in {"stop", "close", "load", "start"}, RunsLate(command)
        PROVE  Complete'
    BY <2>5 DEF RunsLate, disk
  <2>6. CASE Save
    BY <2>6 DEF Save
  <2>7. CASE Crash
    BY <2>7 DEF Crash
  <2> QED
    BY <2>1, <2>2, <2>3, <2>4, <2>5, <2>6, <2>7 DEF Next, Handle
<1> QED
  BY <1>1, Invariance, PTL DEF Spec, NeverLost

\* While C-Gate answers, no upload touches the files of a project it holds.
THEOREM SwapsAreSafe ==
  ASSUME Serial
  PROVE  Spec => AnsweredSwapsReleasedProject
<1> DEFINE Released(u) == ~lossy /\ pc'[u] # pc[u] /\ dest' # dest => held = "closed"
<1>1. IInv /\ [Next]_vars => [\A u \in Upload : Released(u)]_vars
  <2> SUFFICES ASSUME IInv, Next, NEW u \in Upload,
                      ~lossy, pc'[u] # pc[u], dest' # dest
               PROVE  held = "closed"
    OBVIOUS
  <2>1. MoveToBackup(u) \/ Install(u) \/ Rollback(u)
    BY WhoSwaps DEF IInv
  <2>2. pc[u] \in {"move", "install", "rollback"}
    BY <2>1 DEF MoveToBackup, Install, Rollback
  <2> QED
    BY <2>2 DEF IInv, AnswerInv
<1> QED
  BY <1>1, Invariance, PTL DEF Spec, AnsweredSwapsReleasedProject

\* A failed upload leaves the project as it found it, or in the backup if the
\* rollback fails too.
THEOREM FailuresRollBack ==
  ASSUME Serial
  PROVE  Spec => FailureKeepsProject
<1> DEFINE Keeps(u) == result[u] = "none" /\ result'[u] = "error" /\ before[u] # Absent
                         /\ (lossy => saves = 0) =>
                         \/ dest' = before[u]
                         \/ dest' = Absent /\ backup' = before[u] /\ faults' > 1
<1>1. IInv /\ [Next]_vars => [\A u \in Upload : Keeps(u)]_vars
  <2> SUFFICES ASSUME IInv, Next, NEW u \in Upload,
                      result[u] = "none", result'[u] = "error", before[u] # Absent,
                      lossy => saves = 0
               PROVE  \/ dest' = before[u]
                      \/ dest' = Absent /\ backup' = before[u] /\ faults' > 1
    OBVIOUS
  <2>1. Fail(u) /\ (ClearBackup(u) \/ MoveToBackup(u) \/ Install(u) \/ Rollback(u))
    BY WhoFails DEF IInv
  <2>2. pc'[u] = "done"
    BY <2>1 DEF Fail, Goto, IInv, TypeOK
  <2>3. CASE ClearBackup(u)
    BY <2>3 DEF ClearBackup, IInv, KeepInv
  <2>4. CASE MoveToBackup(u)
    BY <2>2, <2>4 DEF MoveToBackup, Goto, IInv, TypeOK, KeepInv
  <2>5. CASE Install(u)
    BY <2>2, <2>5 DEF Install, Goto, IInv, TypeOK, KeepInv
  <2>6. CASE Rollback(u)
    <3>1. dest = Absent /\ backup = before[u] /\ faults \in Nat /\ faults > 0
      BY <2>6 DEF Rollback, IInv, TypeOK, StageInv, KeepInv
    <3>2. CASE dest' = backup
      BY <3>1, <3>2
    <3>3. CASE DiskFault /\ UNCHANGED <<dest, backup>>
      BY <3>1, <3>3 DEF DiskFault
    <3> QED
      BY <2>6, <3>1, <3>2, <3>3 DEF Rollback, CanRename
  <2> QED
    BY <2>1, <2>3, <2>4, <2>5, <2>6
<1> QED
  BY <1>1, Invariance, PTL DEF Spec, FailureKeepsProject

\* An upload that succeeds while C-Gate answers is what C-Gate runs and what the
\* disk holds.
THEOREM SuccessesServe ==
  ASSUME Serial
  PROVE  Spec => SuccessServesUpload
<1> DEFINE Serves(u) == ~lossy /\ result[u] = "none" /\ result'[u] = "ok" =>
                          dest' = u /\ mem' = u /\ held' = "running"
<1>1. IInv /\ [Next]_vars => [\A u \in Upload : Serves(u)]_vars
  <2> SUFFICES ASSUME IInv, Next, NEW u \in Upload,
                      ~lossy, result[u] = "none", result'[u] = "ok"
               PROVE  dest' = u /\ mem' = u /\ held' = "running"
    OBVIOUS
  <2>1. StartProject(u)
    BY WhoSucceeds DEF IInv
  <2>2. held = "stopped" /\ dest = u /\ mem = u
    BY <2>1 DEF StartProject, IInv, AnswerInv
  <2> QED
    BY <2>1, <2>2 DEF StartProject, Sends, Runs, Start, disk
<1> QED
  BY <1>1, Invariance, PTL DEF Spec, SuccessServesUpload

-----------------------------------------------------------------------------
(* The copies on disk, as ProjectStore has them. *)

\* What is staged is so until it is installed, and nothing is answered before.
DecidedInv ==
  \A u \in Upload :
    /\ pc[u] \in {"list", "stop", "close", "stat", "clear", "move", "install", "rollback"} =>
         staged[u]
    /\ pc[u] \in {"load", "start"} => ~staged[u]
    /\ Active(u) \/ pc[u] = "idle" => result[u] = "none"
    /\ result[u] = "ok" => ~staged[u]

\* A backup is torn only behind a project that is in place.
TornInv == backup = Torn => dest # Absent

\* A version on disk or in C-Gate's memory was there at first or was swapped in.
Known == {Original} \cup Swapped
OriginInv ==
  /\ dest \in Known \cup {Absent}
  /\ mem \in Known \cup {Absent}
  /\ \A u \in Upload : pc[u] \in {"install", "rollback"} /\ backedUp[u] => backup \in Known

CopiesInv == DecidedInv /\ TornInv /\ OriginInv

LEMMA InitCopies == Init => CopiesInv
<1> SUFFICES ASSUME Init
             PROVE  CopiesInv
  OBVIOUS
<1> USE ValuesAreDistinct DEF Init, Version
<1>1. DecidedInv
  BY DEF DecidedInv, Active
<1>2. TornInv /\ OriginInv
  BY DEF TornInv, OriginInv, Known
<1> QED
  BY <1>1, <1>2 DEF CopiesInv

\* Each step keeps what is decided about an upload.
LEMMA StepDecided ==
  ASSUME TypeOK, DecidedInv, [Next]_vars
  PROVE  DecidedInv'
<1> USE DEF TypeOK, Stages, DecidedInv, Active
<1>1. CASE UNCHANGED vars
  BY <1>1 DEF vars
<1>2. ASSUME NEW u \in Upload, Stage(u)
     PROVE  DecidedInv'
  BY <1>2 DEF Stage, Goto
<1>3. ASSUME NEW u \in Upload, ListOpen(u)
     PROVE  DecidedInv'
  BY <1>3 DEF ListOpen, Goto, disk
<1>4. ASSUME NEW u \in Upload, StopProject(u)
     PROVE  DecidedInv'
  BY <1>4 DEF StopProject, Goto, disk
<1>5. ASSUME NEW u \in Upload, CloseProject(u)
     PROVE  DecidedInv'
  BY <1>5 DEF CloseProject, Goto, disk
<1>6. ASSUME NEW u \in Upload, StatDest(u)
     PROVE  DecidedInv'
  BY <1>6 DEF StatDest, Goto, disk
<1>7. ASSUME NEW u \in Upload, ClearBackup(u)
     PROVE  DecidedInv'
  BY <1>7 DEF ClearBackup, Goto, Fail
<1>8. ASSUME NEW u \in Upload, MoveToBackup(u)
     PROVE  DecidedInv'
  BY <1>8 DEF MoveToBackup, Goto, Fail
<1>9. ASSUME NEW u \in Upload, Install(u)
     PROVE  DecidedInv'
  BY <1>9 DEF Install, Goto, Fail
<1>10. ASSUME NEW u \in Upload, Rollback(u)
     PROVE  DecidedInv'
  BY <1>10 DEF Rollback, Goto, Fail
<1>11. ASSUME NEW u \in Upload, LoadProject(u)
     PROVE  DecidedInv'
  BY <1>11 DEF LoadProject, Goto, disk
<1>12. ASSUME NEW u \in Upload, StartProject(u)
     PROVE  DecidedInv'
  BY <1>12 DEF StartProject, Goto, disk
<1>13. ASSUME NEW command \in {"stop", "close", "load", "start"}, RunsLate(command)
      PROVE  DecidedInv'
  BY <1>13 DEF RunsLate, disk, handlers
<1>14. CASE Save
  BY <1>14 DEF Save, handlers
<1>15. CASE Crash
  BY <1>15 DEF Crash
<1> QED
  BY <1>1, <1>2, <1>3, <1>4, <1>5, <1>6, <1>7, <1>8, <1>9,
     <1>10, <1>11, <1>12, <1>13, <1>14, <1>15 DEF Next, Handle

\* An upload begins.
LEMMA StageBegins ==
  ASSUME TypeOK, DecidedInv, NEW u \in Upload, Stage(u)
  PROVE  Begun' = Begun \cup {u} /\ u \notin Begun /\ Swapped' = Swapped
BY DEF Stage, Goto, TypeOK, DecidedInv, Begun, Swapped

\* An upload is installed.
Installs(u) == Install(u) /\ pc'[u] = "load"

LEMMA InstallSwaps ==
  ASSUME TypeOK, DecidedInv, NEW u \in Upload, Installs(u)
  PROVE  /\ Begun' = Begun /\ Swapped' = Swapped \cup {u} /\ u \in Begun \ Swapped
         /\ dest' = u /\ backup' = backup /\ result' = result /\ result[u] = "none"
<1>1. /\ dest' = u /\ backup' = backup /\ result' = result /\ pc[u] = "install"
      /\ staged' = [staged EXCEPT ![u] = FALSE] /\ pc' = [pc EXCEPT ![u] = "load"]
  BY DEF Installs, Install, Fail, Goto, TypeOK
<1>2. staged[u] /\ result[u] = "none"
  BY <1>1 DEF DecidedInv, Active
<1>3. Begun' = Begun /\ u \in Begun
  BY <1>1 DEF Begun, TypeOK
<1> QED
  BY <1>1, <1>2, <1>3 DEF Swapped, TypeOK

\* No other step moves an upload on, as the store sees it.
LEMMA OthersStand ==
  ASSUME IInv, DecidedInv, [Next]_vars,
         \A v \in Upload : ~Stage(v) /\ ~Installs(v)
  PROVE  Begun' = Begun /\ Swapped' = Swapped
<1> USE DEF IInv, TypeOK, Stages, DecidedInv, Active, Begun, Swapped
<1>1. CASE UNCHANGED vars
  BY <1>1 DEF vars
<1>2. ASSUME NEW u \in Upload, Stage(u)
     PROVE  Begun' = Begun /\ Swapped' = Swapped
  BY <1>2
<1>3. ASSUME NEW u \in Upload, ListOpen(u)
     PROVE  Begun' = Begun /\ Swapped' = Swapped
  BY <1>3 DEF ListOpen, Goto, disk
<1>4. ASSUME NEW u \in Upload, StopProject(u)
     PROVE  Begun' = Begun /\ Swapped' = Swapped
  BY <1>4 DEF StopProject, Goto, disk
<1>5. ASSUME NEW u \in Upload, CloseProject(u)
     PROVE  Begun' = Begun /\ Swapped' = Swapped
  BY <1>5 DEF CloseProject, Goto, disk
<1>6. ASSUME NEW u \in Upload, StatDest(u)
     PROVE  Begun' = Begun /\ Swapped' = Swapped
  BY <1>6 DEF StatDest, Goto, disk
<1>7. ASSUME NEW u \in Upload, ClearBackup(u)
     PROVE  Begun' = Begun /\ Swapped' = Swapped
  BY <1>7 DEF ClearBackup, Goto, Fail
<1>8. ASSUME NEW u \in Upload, MoveToBackup(u)
     PROVE  Begun' = Begun /\ Swapped' = Swapped
  BY <1>8 DEF MoveToBackup, Goto, Fail
<1>9. ASSUME NEW u \in Upload, Install(u)
     PROVE  Begun' = Begun /\ Swapped' = Swapped
  <2>1. ~Goto(u, "load")
    BY <1>9 DEF Installs, Goto
  <2>2. \/ UNCHANGED <<staged, result>> /\ Goto(u, "rollback")
        \/ Fail(u)
    BY <1>9, <2>1 DEF Install
  <2> QED
    BY <1>9, <2>2 DEF Install, Goto, Fail
<1>10. ASSUME NEW u \in Upload, Rollback(u)
     PROVE  Begun' = Begun /\ Swapped' = Swapped
  BY <1>10 DEF Rollback, Goto, Fail
<1>11. ASSUME NEW u \in Upload, LoadProject(u)
     PROVE  Begun' = Begun /\ Swapped' = Swapped
  BY <1>11 DEF LoadProject, Goto, disk
<1>12. ASSUME NEW u \in Upload, StartProject(u)
     PROVE  Begun' = Begun /\ Swapped' = Swapped
  BY <1>12 DEF StartProject, Goto, disk
<1>13. ASSUME NEW command \in {"stop", "close", "load", "start"}, RunsLate(command)
      PROVE  Begun' = Begun /\ Swapped' = Swapped
  BY <1>13 DEF RunsLate, disk, handlers
<1>14. CASE Save
  BY <1>14 DEF Save, handlers
<1>15. CASE Crash
  BY <1>15 DEF Crash
<1> QED
  BY <1>1, <1>2, <1>3, <1>4, <1>5, <1>6, <1>7, <1>8, <1>9,
     <1>10, <1>11, <1>12, <1>13, <1>14, <1>15 DEF Next, Handle

\* A torn backup stays behind a project in place.
LEMMA StepTorn ==
  ASSUME IInv, TornInv, [Next]_vars
  PROVE  TornInv'
<1> USE ValuesAreDistinct DEF IInv, TypeOK, WholeInv, StageInv, TornInv, Version
<1>1. CASE UNCHANGED vars
  BY <1>1 DEF vars
<1>2. ASSUME NEW u \in Upload, Stage(u)
     PROVE  TornInv'
  BY <1>2 DEF Stage, Goto
<1>3. ASSUME NEW u \in Upload, ListOpen(u)
     PROVE  TornInv'
  BY <1>3 DEF ListOpen, Goto, disk
<1>4. ASSUME NEW u \in Upload, StopProject(u)
     PROVE  TornInv'
  BY <1>4 DEF StopProject, Goto, disk
<1>5. ASSUME NEW u \in Upload, CloseProject(u)
     PROVE  TornInv'
  BY <1>5 DEF CloseProject, Goto, disk
<1>6. ASSUME NEW u \in Upload, StatDest(u)
     PROVE  TornInv'
  BY <1>6 DEF StatDest, Goto, disk
<1>7. ASSUME NEW u \in Upload, ClearBackup(u)
     PROVE  TornInv'
  BY <1>7 DEF ClearBackup, Goto, Fail
<1>8. ASSUME NEW u \in Upload, MoveToBackup(u)
     PROVE  TornInv'
  BY <1>8 DEF MoveToBackup, Goto, Fail
<1>9. ASSUME NEW u \in Upload, Install(u)
     PROVE  TornInv'
  BY <1>9 DEF Install, Goto, Fail
<1>10. ASSUME NEW u \in Upload, Rollback(u)
     PROVE  TornInv'
  BY <1>10 DEF Rollback, Goto, Fail
<1>11. ASSUME NEW u \in Upload, LoadProject(u)
     PROVE  TornInv'
  BY <1>11 DEF LoadProject, Goto, disk
<1>12. ASSUME NEW u \in Upload, StartProject(u)
     PROVE  TornInv'
  BY <1>12 DEF StartProject, Goto, disk
<1>13. ASSUME NEW command \in {"stop", "close", "load", "start"}, RunsLate(command)
      PROVE  TornInv'
  BY <1>13 DEF RunsLate, disk
<1>14. CASE Save
  BY <1>14 DEF Save, handlers
<1>15. CASE Crash
  BY <1>15 DEF Crash
<1> QED
  BY <1>1, <1>2, <1>3, <1>4, <1>5, <1>6, <1>7, <1>8, <1>9,
     <1>10, <1>11, <1>12, <1>13, <1>14, <1>15 DEF Next, Handle

\* What is known stays known.
LEMMA KnownGrows ==
  ASSUME IInv, DecidedInv, [Next]_vars
  PROVE  Known \subseteq Known'
<1>1. ASSUME NEW u \in Upload, Stage(u)
      PROVE  Known \subseteq Known'
  BY <1>1, StageBegins DEF IInv, Known
<1>2. ASSUME NEW u \in Upload, Installs(u)
      PROVE  Known \subseteq Known'
  BY <1>2, InstallSwaps DEF IInv, Known
<1> QED
  BY <1>1, <1>2, OthersStand DEF Known

\* Each step takes what it puts somewhere from where it was.
LEMMA StepOrigin ==
  ASSUME IInv, DecidedInv, OriginInv, [Next]_vars
  PROVE  OriginInv'
<1>0. Known \subseteq Known'
  BY KnownGrows
<1> USE ValuesAreDistinct DEF IInv, TypeOK, Stages, AloneInv, Active, WholeInv, StageInv, OriginInv, Version
<1>1. CASE UNCHANGED vars
  BY <1>0, <1>1 DEF vars
<1>2. ASSUME NEW u \in Upload, Stage(u)
     PROVE  OriginInv'
  BY <1>0, <1>2 DEF Stage, Goto, cgate
<1>3. ASSUME NEW u \in Upload, ListOpen(u)
     PROVE  OriginInv'
  BY <1>0, <1>3 DEF ListOpen, Goto, disk, cgate
<1>4. ASSUME NEW u \in Upload, StopProject(u)
     PROVE  OriginInv'
  <2>1. mem' \in {mem, dest, Absent}
    BY <1>4 DEF StopProject, Sends, Runs, Stop, Close, Load, Start, cgate
  <2> QED
    BY <1>0, <1>4, <2>1 DEF StopProject, Goto, disk
<1>5. ASSUME NEW u \in Upload, CloseProject(u)
     PROVE  OriginInv'
  <2>1. mem' \in {mem, dest, Absent}
    BY <1>5 DEF CloseProject, Sends, Runs, Stop, Close, Load, Start, cgate
  <2> QED
    BY <1>0, <1>5, <2>1 DEF CloseProject, Goto, disk
<1>6. ASSUME NEW u \in Upload, StatDest(u)
     PROVE  OriginInv'
  BY <1>0, <1>6 DEF StatDest, Goto, disk, cgate
<1>7. ASSUME NEW u \in Upload, ClearBackup(u)
     PROVE  OriginInv'
  BY <1>0, <1>7 DEF ClearBackup, Goto, Fail, cgate
<1>8. ASSUME NEW u \in Upload, MoveToBackup(u)
     PROVE  OriginInv'
  BY <1>0, <1>8 DEF MoveToBackup, Goto, Fail, cgate
<1>9. ASSUME NEW u \in Upload, Install(u)
     PROVE  OriginInv'
  <2>1. CASE Installs(u)
    BY <1>0, <2>1, InstallSwaps DEF Installs, Install, Goto, cgate, history, Known
  <2>2. CASE ~Installs(u)
    BY <1>0, <1>9, <2>2 DEF Installs, Install, Goto, Fail, cgate, history
  <2> QED
    BY <2>1, <2>2
<1>10. ASSUME NEW u \in Upload, Rollback(u)
     PROVE  OriginInv'
  BY <1>0, <1>10 DEF Rollback, Goto, Fail, CanRename, cgate
<1>11. ASSUME NEW u \in Upload, LoadProject(u)
     PROVE  OriginInv'
  <2>1. mem' \in {mem, dest, Absent}
    BY <1>11 DEF LoadProject, Sends, Runs, Stop, Close, Load, Start, cgate
  <2> QED
    BY <1>0, <1>11, <2>1 DEF LoadProject, Goto, disk
<1>12. ASSUME NEW u \in Upload, StartProject(u)
     PROVE  OriginInv'
  <2>1. mem' \in {mem, dest, Absent}
    BY <1>12 DEF StartProject, Sends, Runs, Stop, Close, Load, Start, cgate
  <2> QED
    BY <1>0, <1>12, <2>1 DEF StartProject, Goto, disk
<1>13. ASSUME NEW command \in {"stop", "close", "load", "start"}, RunsLate(command)
      PROVE  OriginInv'
  <2>1. mem' \in {mem, dest, Absent}
    BY <1>13 DEF RunsLate, Runs, Stop, Close, Load, Start
  <2> QED
    BY <1>0, <1>13, <2>1 DEF RunsLate, disk, handlers
<1>14. CASE Save
  BY <1>0, <1>14 DEF Save, cgate, handlers
<1>15. CASE Crash
  BY <1>0, <1>15 DEF Crash, cgate
<1> QED
  BY <1>1, <1>2, <1>3, <1>4, <1>5, <1>6, <1>7, <1>8, <1>9,
     <1>10, <1>11, <1>12, <1>13, <1>14, <1>15 DEF Next, Handle

-----------------------------------------------------------------------------
(* The refinement, step by step. *)

View == <<Newest, Spare, Begun, Swapped, Unseen, Kept, result>>

\* None of them adds to the uploads that will report a backup: one that has just
\* moved the project there has not swapped yet.
LEMMA OthersKeep ==
  ASSUME IInv, DecidedInv, [Next]_vars,
         \A v \in Upload : ~Stage(v) /\ ~Installs(v)
  PROVE  Kept' = Kept
<1>1. Swapped' = Swapped
  BY OthersStand
<1>2. CASE backedUp' = backedUp
  BY <1>1, <1>2 DEF Kept
<1>3. ASSUME NEW u \in Upload, MoveToBackup(u)
      PROVE  \A v \in Upload \ {u} : backedUp'[v] = backedUp[v]
  BY <1>3 DEF MoveToBackup, IInv, TypeOK
<1>4. ASSUME NEW u \in Upload, MoveToBackup(u)
      PROVE  u \notin Swapped
  BY <1>4 DEF MoveToBackup, DecidedInv, Swapped
<1>5. (\E u \in Upload : MoveToBackup(u)) \/ backedUp' = backedUp
  BY DEF Next, Handle, vars, Stage, ListOpen, StopProject, CloseProject, StatDest, ClearBackup,
     Install, Rollback, LoadProject, StartProject, RunsLate, Save, Crash, handlers
<1>6. Swapped \subseteq Upload
  BY DEF Swapped, Begun
<1> QED
  BY <1>1, <1>2, <1>3, <1>4, <1>5, <1>6 DEF Kept

\* An upload that has not come to its installation may still replace the newest.
LEMMA PendingIs ==
  ASSUME TypeOK, DecidedInv, NEW u \in Upload, Active(u), pc[u] \notin {"load", "start"}
  PROVE  Store!Pending(u)
BY DEF TypeOK, Stages, DecidedInv, Active, Begun, Swapped, Store!Pending

\* The removal of the old backup, and the move to the backup.
LEMMA ClearImplements ==
  ASSUME IInv, CopiesInv, NEW u \in Upload, ClearBackup(u),
         Begun' = Begun, Swapped' = Swapped, Kept' = Kept
  PROVE  Store!Next
<1>1. pc[u] = "clear" /\ dest' = dest /\ dest # Absent /\ backup' \in {Absent, Torn}
  BY ValuesAreDistinct DEF ClearBackup, IInv, StageInv
<1>2. Newest' = Newest /\ Newest # Absent /\ Spare' = Absent /\ Unseen' = Unseen
  BY <1>1 DEF Newest, Spare, Unseen, ClearBackup, history
<1>3. Store!Pending(u)
  BY <1>1, PendingIs DEF IInv, CopiesInv, Active
<1>4. CASE result' = result
  <2>1. Store!DropSpare(u)
    BY <1>2, <1>3, <1>4 DEF Store!DropSpare
  <2> QED
    BY <2>1 DEF Store!Next
<1>5. CASE Fail(u)
  <2>1. Store!Refuse(u)
    BY <1>2, <1>3, <1>5 DEF Store!Refuse, Fail
  <2> QED
    BY <2>1 DEF Store!Next
<1> QED
  BY <1>4, <1>5 DEF ClearBackup

LEMMA MoveImplements ==
  ASSUME IInv, CopiesInv, NEW u \in Upload, MoveToBackup(u),
         Begun' = Begun, Swapped' = Swapped, Kept' = Kept
  PROVE  Store!Next
<1>1. pc[u] = "move" /\ dest # Absent /\ Unseen' = Unseen
  BY ValuesAreDistinct DEF MoveToBackup, IInv, StageInv, Unseen
<1>2. Store!Pending(u)
  BY <1>1, PendingIs DEF IInv, CopiesInv, Active
<1>3. CASE backup' = dest /\ dest' = Absent /\ result' = result
  <2>1. Newest' = Newest /\ Newest # Absent /\ Spare' = Absent
    BY <1>1, <1>3 DEF Newest, Spare
  <2>2. Store!DropSpare(u)
    BY <1>1, <1>2, <1>3, <2>1 DEF Store!DropSpare
  <2> QED
    BY <2>2 DEF Store!Next
<1>4. CASE Fail(u) /\ UNCHANGED <<dest, backup>>
  <2>1. Newest' = Newest /\ Spare' = Spare
    BY <1>4 DEF Newest, Spare
  <2>2. Store!Refuse(u)
    BY <1>1, <1>2, <1>4, <2>1 DEF Store!Refuse, Fail
  <2> QED
    BY <2>2 DEF Store!Next
<1> QED
  BY <1>3, <1>4 DEF MoveToBackup

\* An os.Stat that fails over a project in place makes its upload overlook it.
LEMMA StatImplements ==
  ASSUME IInv, CopiesInv, NEW u \in Upload, StatDest(u),
         Begun' = Begun, Swapped' = Swapped, Kept' = Kept
  PROVE  [Store!Next]_View
<1>1. pc[u] = "stat" /\ UNCHANGED <<dest, backup, result>>
  BY DEF StatDest, disk
<1>2. Newest' = Newest /\ Spare' = Spare
  BY <1>1 DEF Newest, Spare
<1>3. CASE blind' = blind
  BY <1>1, <1>2, <1>3 DEF View, Unseen
<1>4. CASE dest # Absent /\ blind' = [blind EXCEPT ![u] = TRUE]
  <2>1. Newest # Absent /\ Unseen' = Unseen \cup {u}
    BY <1>4 DEF Newest, Unseen, IInv, TypeOK
  <2>2. Store!Pending(u)
    BY <1>1, PendingIs DEF IInv, CopiesInv, Active
  <2>3. Store!Overlook(u)
    BY <1>1, <1>2, <2>1, <2>2 DEF Store!Overlook
  <2> QED
    BY <2>3 DEF Store!Next
<1> QED
  BY <1>3, <1>4 DEF StatDest

\* The installation is the one step in which the newest copy is replaced.  The
\* upload has moved it to the backup, or has found nothing in place and the
\* newest is in the backup, or could not see what it replaces.
LEMMA InstallImplements ==
  ASSUME IInv, CopiesInv, NEW u \in Upload, Install(u)
  PROVE  [Store!Next]_View
<1>1. pc[u] = "install" /\ u # Absent /\ Unseen' = Unseen /\ backedUp' = backedUp
  BY ValuesAreDistinct DEF Install, Version, Unseen, history
<1>2. Store!Pending(u)
  BY <1>1, PendingIs DEF IInv, CopiesInv, Active
<1>3. CASE Installs(u)
  <2>1. /\ Begun' = Begun /\ Swapped' = Swapped \cup {u} /\ u \in Begun \ Swapped
        /\ dest' = u /\ backup' = backup /\ result' = result
    BY <1>3, InstallSwaps DEF IInv, CopiesInv
  <2>2. Newest' = u
    BY <1>1, <2>1 DEF Newest
  <2>3. Kept' = IF backedUp[u] THEN Kept \cup {u} ELSE Kept
    BY <1>1, <2>1 DEF Kept, Begun
  <2>4. CASE dest = Absent
    <3>1. Spare' = Newest
      BY <1>1, <2>1, <2>4 DEF Newest, Spare, CopiesInv, TornInv
    <3>2. Store!Swap(u)
      BY <1>1, <1>2, <2>1, <2>2, <2>3, <3>1 DEF Store!Swap
    <3> QED
      BY <3>2 DEF Store!Next
  <2>5. CASE dest # Absent
    <3>1. u \in Unseen /\ ~backedUp[u]
      BY <1>1, <2>5 DEF IInv, StageInv, Unseen
    <3>2. Spare' = Spare
      BY <1>1, <2>1, <2>5 DEF Spare
    <3>3. Store!Swap(u)
      BY <1>1, <1>2, <2>1, <2>2, <2>3, <3>1, <3>2 DEF Store!Swap
    <3> QED
      BY <3>3 DEF Store!Next
  <2> QED
    BY <2>4, <2>5
<1>4. CASE ~Installs(u)
  <2>1. dest' = dest /\ backup' = backup
    BY <1>1, <1>4 DEF Install, Installs, Goto, IInv, TypeOK
  <2>2. Newest' = Newest /\ Spare' = Spare
    BY <2>1 DEF Newest, Spare
  <2>3. Begun' = Begun /\ Swapped' = Swapped /\ Kept' = Kept
    <3>1. pc'[u] \in {"rollback", "done"}
      BY <1>1, <1>4 DEF Install, Installs, Fail, Goto, IInv, TypeOK
    <3>2. \A v \in Upload : ~Stage(v) /\ ~Installs(v)
      BY <1>1, <1>4, <3>1 DEF Install, Fail, Stage, Installs, Goto, IInv, TypeOK
    <3>3. Next
      BY DEF Next, Handle
    <3> QED
      BY <3>2, <3>3, OthersStand, OthersKeep DEF CopiesInv
  <2>4. CASE result' = result
    BY <1>1, <2>2, <2>3, <2>4 DEF View
  <2>5. CASE Fail(u)
    <3>1. Store!Refuse(u)
      BY <1>1, <1>2, <2>2, <2>3, <2>5 DEF Store!Refuse, Fail
    <3> QED
      BY <3>1 DEF Store!Next
  <2>6. ~Goto(u, "load")
    BY <1>4 DEF Installs, Goto, IInv, TypeOK
  <2> QED
    BY <2>4, <2>5, <2>6 DEF Install
<1> QED
  BY <1>3, <1>4

\* A rollback puts the newest copy in its place.
LEMMA RollbackImplements ==
  ASSUME IInv, CopiesInv, NEW u \in Upload, Rollback(u),
         Begun' = Begun, Swapped' = Swapped, Kept' = Kept
  PROVE  Store!Next
<1>1. pc[u] = "rollback" /\ dest = Absent /\ Fail(u) /\ backup # Torn
  BY ValuesAreDistinct DEF Rollback, IInv, StageInv, CopiesInv, TornInv
<1>2. Store!Pending(u)
  BY <1>1, PendingIs DEF IInv, CopiesInv, Active
<1>3. Newest' = Newest /\ Spare' = Spare /\ Unseen' = Unseen
  BY <1>1 DEF Rollback, CanRename, Newest, Spare, Unseen, history
<1>4. Store!Refuse(u)
  BY <1>1, <1>2, <1>3 DEF Store!Refuse, Fail
<1> QED
  BY <1>4 DEF Store!Next

\* A save writes back a copy that was the newest before.
LEMMA SaveImplements ==
  ASSUME IInv, CopiesInv, Save
  PROVE  Store!Next
<1>1. dest # Absent /\ dest' = mem /\ mem # Absent /\ backup' = backup
  BY DEF Save, IInv, TypeOK
<1>2. Newest # Absent /\ Newest' = mem /\ Spare' = Spare
  BY <1>1 DEF Newest, Spare
<1>3. mem \in Swapped \cup {Original}
  BY <1>1 DEF CopiesInv, OriginInv, Known
<1>4. Begun' = Begun /\ Swapped' = Swapped /\ Kept' = Kept /\ Unseen' = Unseen /\ result' = result
  BY DEF Save, handlers, history, Begun, Swapped, Kept, Unseen
<1>5. Store!Save
  BY <1>2, <1>3, <1>4 DEF Store!Save
<1> QED
  BY <1>5 DEF Store!Next

\* A death of the bridge at worst leaves a backup torn that was being removed.
LEMMA CrashImplements ==
  ASSUME IInv, CopiesInv, Crash, Begun' = Begun, Swapped' = Swapped, Kept' = Kept
  PROVE  [Store!Next]_View
<1>1. dest' = dest /\ result' = result /\ Unseen' = Unseen
  BY DEF Crash, history, Unseen
<1>2. CASE backup' = backup
  BY <1>1, <1>2 DEF Newest, Spare, View
<1>3. CASE backup' # backup
  <2>1. PICK u \in Upload : pc[u] = "clear" /\ backup' = Torn
    BY <1>3 DEF Crash
  <2>2. dest # Absent /\ Store!Pending(u)
    BY <2>1, PendingIs, ValuesAreDistinct DEF IInv, StageInv, CopiesInv, Active
  <2>3. Newest' = Newest /\ Newest # Absent /\ Spare' = Absent
    BY <1>1, <2>1, <2>2 DEF Newest, Spare
  <2>4. Store!DropSpare(u)
    BY <1>1, <2>2, <2>3 DEF Store!DropSpare
  <2> QED
    BY <2>4 DEF Store!Next
<1> QED
  BY <1>2, <1>3

\* Every step is one of the store or none.
LEMMA StoreStep ==
  ASSUME IInv, CopiesInv, [Next]_vars
  PROVE  [Store!Next]_View
<1>1. CASE UNCHANGED vars
  BY <1>1 DEF vars, View, Newest, Spare, Begun, Swapped, Kept, Unseen
<1>2. ASSUME NEW u \in Upload, Stage(u)
      PROVE  [Store!Next]_View
  <2>1. Begun' = Begun \cup {u} /\ u \notin Begun /\ Swapped' = Swapped
    BY <1>2, StageBegins DEF IInv, CopiesInv
  <2>2. /\ Newest' = Newest /\ Spare' = Spare /\ result' = result
        /\ Kept' = Kept /\ Unseen' = Unseen
    BY <1>2, <2>1 DEF Stage, Newest, Spare, Kept, Unseen
  <2>3. Store!Begin(u)
    BY <2>1, <2>2 DEF Store!Begin
  <2> QED
    BY <2>3 DEF Store!Next
<1>3. ASSUME NEW u \in Upload, Install(u)
      PROVE  [Store!Next]_View
  BY <1>3, InstallImplements
<1>4. CASE \A u \in Upload : ~Stage(u) /\ ~Install(u)
  <2>1. Begun' = Begun /\ Swapped' = Swapped /\ Kept' = Kept
    BY <1>4, OthersStand, OthersKeep DEF CopiesInv, Installs
  <2>2. ASSUME NEW u \in Upload,
               StatDest(u) \/ ClearBackup(u) \/ MoveToBackup(u) \/ Rollback(u)
        PROVE  [Store!Next]_View
    BY <2>1, <2>2, StatImplements, ClearImplements, MoveImplements, RollbackImplements
  <2>3. CASE UNCHANGED <<dest, backup, result, blind>>
    BY <2>1, <2>3 DEF View, Newest, Spare, Unseen
  <2>4. ASSUME NEW u \in Upload,
               ListOpen(u) \/ StopProject(u) \/ CloseProject(u) \/ LoadProject(u)
        PROVE  UNCHANGED <<dest, backup, result, blind>>
    BY <2>4 DEF ListOpen, StopProject, CloseProject, LoadProject, disk, history
  <2>5. ASSUME NEW u \in Upload, StartProject(u)
        PROVE  [Store!Next]_View
    <3>1. u \in Swapped /\ result[u] = "none"
      BY <2>5 DEF StartProject, CopiesInv, DecidedInv, Active, Begun, Swapped
    <3>2. /\ Newest' = Newest /\ Spare' = Spare /\ Unseen' = Unseen
          /\ result' = [result EXCEPT ![u] = "ok"]
      BY <2>5 DEF StartProject, disk, history, Newest, Spare, Unseen
    <3>3. Store!Succeed(u)
      BY <2>1, <3>1, <3>2 DEF Store!Succeed
    <3> QED
      BY <3>3 DEF Store!Next
  <2>6. ASSUME NEW command \in {"stop", "close", "load", "start"}, RunsLate(command)
        PROVE  UNCHANGED <<dest, backup, result, blind>>
    BY <2>6 DEF RunsLate, disk, handlers, history
  <2>7. CASE Save
    BY <2>7, SaveImplements
  <2>8. CASE Crash
    BY <2>1, <2>8, CrashImplements
  <2> QED
    BY <1>1, <1>4, <2>2, <2>3, <2>4, <2>5, <2>6, <2>7, <2>8 DEF Next, Handle
<1> QED
  BY <1>2, <1>3, <1>4

\* Uploads one at a time implement ProjectStore: whichever of their renames,
\* removals and looks at the disk fail, and whenever the bridge dies, an upload
\* replaces the newest copy in one step or not at all.  What it replaces is kept
\* if it reports so, and is lost only if its os.Stat had failed.
THEOREM Refinement ==
  ASSUME Serial
  PROVE  Spec => RefinesStore
<1>1. Init => Store!Init
  BY ValuesAreDistinct DEF Init, Store!Init, Newest, Spare, Begun, Swapped, Kept, Unseen, Version
<1>2. IInv /\ CopiesInv /\ [Next]_vars => CopiesInv'
  BY StepDecided, StepTorn, StepOrigin DEF IInv, CopiesInv
<1>3. Spec => [](IInv /\ CopiesInv)
  BY <1>2, InitCopies, Invariance, PTL DEF Spec
<1>4. IInv /\ CopiesInv /\ [Next]_vars => [Store!Next]_View
  BY StoreStep
<1> QED
  BY <1>1, <1>3, <1>4, PTL DEF Spec, RefinesStore, Store!Spec, View
=============================================================================
