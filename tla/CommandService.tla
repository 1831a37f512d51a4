--------------------------- MODULE CommandService ---------------------------
(***************************************************************************)
(* What commandSession.send (src/web/main.go, 277-341) promises its        *)
(* callers, with no connection, mutex or reconnect in sight: a command is  *)
(* handed to C-Gate at most once, only between the call and its return,    *)
(* and a call that returns an error from before the command was written    *)
(* has not handed it over.  A read error leaves open whether it ran.       *)
(***************************************************************************)
EXTENDS Naturals

CONSTANT Request

VARIABLES
  asked,      \* the requests that have called send
  delivered,  \* copies of each request's command handed to C-Gate
  outcome     \* how send returned, "none" while it has not

Init ==
  /\ asked = {}
  /\ delivered = [r \in Request |-> 0]
  /\ outcome = [r \in Request |-> "none"]

Ask(r) ==
  /\ r \notin asked
  /\ asked' = asked \cup {r}
  /\ UNCHANGED <<delivered, outcome>>

Deliver(r) ==
  /\ r \in asked
  /\ outcome[r] = "none"
  /\ delivered[r] = 0
  /\ delivered' = [delivered EXCEPT ![r] = 1]
  /\ UNCHANGED <<asked, outcome>>

Answer(r, result) ==
  /\ r \in asked
  /\ outcome[r] = "none"
  /\ result \in {"dialErr", "writeErr"} => delivered[r] = 0
  /\ outcome' = [outcome EXCEPT ![r] = result]
  /\ UNCHANGED <<asked, delivered>>

Next ==
  \E r \in Request :
    \/ Ask(r)
    \/ Deliver(r)
    \/ \E result \in {"ok", "dialErr", "writeErr", "readErr"} : Answer(r, result)

Spec == Init /\ [][Next]_<<asked, delivered, outcome>>
=============================================================================
