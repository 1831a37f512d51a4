---------------------------- MODULE ProjectStore ----------------------------
(***************************************************************************)
(* What handleTagUpload (src/web/main.go, 928-1153) promises about the     *)
(* copies of a project, with no staging, no renames, no C-Gate and no      *)
(* death of the bridge in sight: an upload replaces the newest copy in one *)
(* step or not at all.  What it replaces becomes the spare, unless the     *)
(* upload could not see that there was something to replace; it reports a  *)
(* backup only if it has made one.                                         *)
(***************************************************************************)
EXTENDS Naturals

CONSTANTS Upload, Original, Previous, Absent

VARIABLES
  newest,   \* the newest complete copy
  spare,    \* the copy kept behind it
  begun,    \* the uploads that have begun
  swapped,  \* those that have replaced the newest copy
  unseen,   \* those that failed to see what they are to replace
  kept,     \* those that have replaced it and will report a backup
  outcome   \* how each was answered, "none" while it is not

Init ==
  /\ \/ newest = Original /\ spare \in {Previous, Absent}
     \/ newest \in {Previous, Absent} /\ spare = Absent
  /\ begun = {}
  /\ swapped = {} /\ unseen = {} /\ kept = {}
  /\ outcome = [u \in Upload |-> "none"]

Begin(u) ==
  /\ u \notin begun
  /\ begun' = begun \cup {u}
  /\ UNCHANGED <<newest, spare, swapped, unseen, kept, outcome>>

\* Only an upload that may still replace the newest copy costs the spare one.
Pending(u) == u \in begun \ swapped /\ outcome[u] = "none"

DropSpare(u) ==
  /\ Pending(u)
  /\ newest # Absent
  /\ spare' = Absent
  /\ UNCHANGED <<newest, begun, swapped, unseen, kept, outcome>>

Overlook(u) ==
  /\ Pending(u)
  /\ newest # Absent
  /\ unseen' = unseen \cup {u}
  /\ UNCHANGED <<newest, spare, begun, swapped, kept, outcome>>

Swap(u) ==
  /\ Pending(u)
  /\ newest' = u
  /\ swapped' = swapped \cup {u}
  /\ \/ spare' = newest /\ kept' \in {kept, kept \cup {u}}
     \/ u \in unseen /\ UNCHANGED <<spare, kept>>
  /\ UNCHANGED <<begun, unseen, outcome>>

Succeed(u) ==
  /\ u \in swapped
  /\ outcome[u] = "none"
  /\ outcome' = [outcome EXCEPT ![u] = "ok"]
  /\ UNCHANGED <<newest, spare, begun, swapped, unseen, kept>>

Refuse(u) ==
  /\ Pending(u)
  /\ outcome' = [outcome EXCEPT ![u] = "error"]
  /\ spare' \in {spare, Absent}
  /\ UNCHANGED <<newest, begun, swapped, unseen, kept>>

\* An operator has C-Gate write back what it holds, which it once loaded.
Save ==
  /\ newest # Absent
  /\ newest' \in swapped \cup {Original}
  /\ UNCHANGED <<spare, begun, swapped, unseen, kept, outcome>>

Next ==
  \/ \E u \in Upload :
       \/ Begin(u) \/ DropSpare(u) \/ Overlook(u) \/ Swap(u)
       \/ Succeed(u) \/ Refuse(u)
  \/ Save

Spec == Init /\ [][Next]_<<newest, spare, begun, swapped, unseen, kept, outcome>>
=============================================================================
