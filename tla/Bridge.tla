-------------------------------- MODULE Bridge --------------------------------
(***************************************************************************)
(* All three connections of the bridge to one C-Gate process, and the      *)
(* probes that report on them: the command session (CommandSession), the   *)
(* two goroutines running streamPort with their flags eventStreamUp and    *)
(* statusStreamUp, and handleReady, handleHealth and writeStatus of        *)
(* src/web/main.go.                                                        *)
(*                                                                         *)
(* The lines of a stream are abstracted to the time a broadcast of one     *)
(* takes, during which the goroutine does not see its connection close.    *)
(* A dial that fails, and the pauses between dials, change nothing.        *)
(***************************************************************************)
EXTENDS CommandSession

Stream == {"event", "status"}
Connection == Stream \cup {"command"}

VARIABLES
  stage,   \* per stream: "dial", "mark", "scan", "cast" or "unmark"
  wire,    \* per stream: "nil", "open", or "closed" when the far end is gone
  up,      \* per stream: its atomic flag
  probe,   \* the request under way: "none", "ready" or "health"
  step,    \* the load it is at: 1-3 in handleReady, 4-6 in writeStatus, 7 done
  code,    \* its status code, 0 while undecided
  body,    \* the connections its body names as up
  earned   \* history: the connections that were up at some time during it

streams == <<stage, wire, up>>
probes  == <<probe, step, code, body>>
bridge  == <<stage, wire, up, probe, step, code, body, earned>>

BridgeInit ==
  /\ Init
  /\ stage = [s \in Stream |-> "dial"]
  /\ wire = [s \in Stream |-> "nil"]
  /\ up = [s \in Stream |-> FALSE]
  /\ probe = "none" /\ step = 0 /\ code = 0 /\ body = {}
  /\ earned = {}

-----------------------------------------------------------------------------
\* The order in which the flags are loaded.
Order == <<"event", "status", "command">>

IsUp(c) == IF c = "command" THEN commandUp ELSE up[c]

\* The connections whose flags are up now.
AllUp == {c \in Connection : IsUp(c)}

\* The history of a readiness probe.
Remember == earned' = IF probe' = "ready" THEN earned \cup AllUp \cup AllUp' ELSE {}

\* What every step of a stream or a probe does besides its own.
Aside == UNCHANGED vars /\ Remember

-----------------------------------------------------------------------------
(* streamPort *)

MoveTo(s, next) == stage' = [stage EXCEPT ![s] = next]

\* dialCGateForever gets through.
Dials(s) ==
  /\ stage[s] = "dial"
  /\ cgate # "down"
  /\ wire' = [wire EXCEPT ![s] = "open"]
  /\ MoveTo(s, "mark")
  /\ UNCHANGED <<up, probes>>
  /\ Aside

\* up.Store(true)
MarksUp(s) ==
  /\ stage[s] = "mark"
  /\ up' = [up EXCEPT ![s] = TRUE]
  /\ MoveTo(s, "scan")
  /\ UNCHANGED <<wire, probes>>
  /\ Aside

\* A line, sent now or left in the buffers, is scanned and handed to the hub.
ScansLine(s) ==
  /\ stage[s] = "scan"
  /\ wire[s] = "open" => cgate = "up"
  /\ MoveTo(s, "cast")
  /\ UNCHANGED <<wire, up, probes>>
  /\ Aside

\* hub.broadcast returns.
CastEnds(s) ==
  /\ stage[s] = "cast"
  /\ MoveTo(s, "scan")
  /\ UNCHANGED <<wire, up, probes>>
  /\ Aside

\* Mutant of ScanEnds: nothing follows the end of a connection.
ScanEndsForGood(s) ==
  /\ stage[s] = "scan"
  /\ wire[s] = "closed"
  /\ up' = [up EXCEPT ![s] = FALSE]
  /\ MoveTo(s, "scan")
  /\ UNCHANGED <<wire, probes>>
  /\ Aside

\* scanner.Scan() returns false: the far end is gone and the buffer is empty.
ScanEnds(s) ==
  /\ stage[s] = "scan"
  /\ wire[s] = "closed"
  /\ MoveTo(s, "unmark")
  /\ UNCHANGED <<wire, up, probes>>
  /\ Aside

\* Mutant of MarksDown: the flag is not cleared before the redial.
MarksNothing(s) ==
  /\ stage[s] = "unmark"
  /\ wire' = [wire EXCEPT ![s] = "nil"]
  /\ MoveTo(s, "dial")
  /\ UNCHANGED <<up, probes>>
  /\ Aside

\* Mutant of MarksDown: the connection is kept over the redial.
MarksDownKeeping(s) ==
  /\ stage[s] = "unmark"
  /\ up' = [up EXCEPT ![s] = FALSE]
  /\ MoveTo(s, "dial")
  /\ UNCHANGED <<wire, probes>>
  /\ Aside

\* up.Store(false); conn.Close()
MarksDown(s) ==
  /\ stage[s] = "unmark"
  /\ up' = [up EXCEPT ![s] = FALSE]
  /\ wire' = [wire EXCEPT ![s] = "nil"]
  /\ MoveTo(s, "dial")
  /\ UNCHANGED probes
  /\ Aside

StreamPort(s) ==
  \/ Dials(s) \/ MarksUp(s)
  \/ ScansLine(s) \/ CastEnds(s)
  \/ ScanEnds(s) \/ MarksDown(s)

\* What the death of C-Gate does to the streams.
WiresBreak ==
  /\ wire' = [s \in Stream |-> IF wire[s] = "open" THEN "closed" ELSE wire[s]]
  /\ UNCHANGED <<stage, up, probes>>

-----------------------------------------------------------------------------
(* handleReady, handleHealth, writeStatus *)

\* A probe comes in.  handleHealth goes straight to writeStatus.
ProbeArrives ==
  /\ probe = "none"
  /\ \/ probe' = "ready" /\ step' = 1 /\ code' = 0
     \/ probe' = "health" /\ step' = 4 /\ code' = 200
  /\ UNCHANGED <<body, streams>>
  /\ Aside

\* Mutant of LoadForCode: the last of the three flags decides.
LoadLastFlag ==
  /\ step \in 1 .. 3
  /\ \/ /\ step < 3
        /\ step' = step + 1
        /\ UNCHANGED code
     \/ /\ step = 3
        /\ step' = 4
        /\ code' = IF IsUp(Order[3]) THEN 200 ELSE 503
  /\ UNCHANGED <<probe, body, streams>>
  /\ Aside

\* handleReady loads the next flag; the first that is down decides.
LoadForCode ==
  /\ step \in 1 .. 3
  /\ \/ /\ IsUp(Order[step])
        /\ step' = step + 1
        /\ code' = IF step = 3 THEN 200 ELSE code
     \/ /\ ~IsUp(Order[step])
        /\ step' = 4
        /\ code' = 503
  /\ UNCHANGED <<probe, body, streams>>
  /\ Aside

\* writeStatus loads the next flag, again.
LoadForBody ==
  /\ step \in 4 .. 6
  /\ body' = IF IsUp(Order[step - 3]) THEN body \cup {Order[step - 3]} ELSE body
  /\ step' = step + 1
  /\ UNCHANGED <<probe, code, streams>>
  /\ Aside

\* The answer is on its way, and the handler returns.
ProbeReturns ==
  /\ step = 7
  /\ probe' = "none" /\ step' = 0 /\ code' = 0 /\ body' = {}
  /\ UNCHANGED streams
  /\ Aside

Probe == LoadForCode \/ LoadForBody \/ ProbeReturns

-----------------------------------------------------------------------------
\* A step of the session or of C-Gate.  C-Gate dies for all three connections
\* at once.
SessionStep ==
  /\ Next
  /\ \/ cgate # "down" /\ cgate' = "down" /\ WiresBreak
     \/ (cgate' = "down" => cgate = "down") /\ UNCHANGED <<streams, probes>>
  /\ Remember

BridgeNext ==
  \/ SessionStep
  \/ \E s \in Stream : StreamPort(s)
  \/ ProbeArrives
  \/ Probe

allVars == <<vars, bridge>>

BridgeSpec == BridgeInit /\ [][BridgeNext]_allVars

\* The goroutines of the streams and the handlers are scheduled, a connection
\* that is gone holds finitely many lines, and the hub's broadcasts end
\* (module WsHub).  That probes arrive is not promised.
BridgeFairness ==
  /\ \A s \in Stream :
       /\ WF_allVars(Dials(s))
       /\ WF_allVars(MarksUp(s))
       /\ WF_allVars(CastEnds(s))
       /\ SF_allVars(ScanEnds(s))
       /\ WF_allVars(MarksDown(s))
  /\ WF_allVars(Probe)

BridgeFairSpec == BridgeSpec /\ Fairness /\ BridgeFairness

-----------------------------------------------------------------------------
(* Properties. *)

\* Every variable keeps to the values the code can give it.
BridgeTypeOK ==
  /\ TypeOK
  /\ stage \in [Stream -> {"dial", "mark", "scan", "cast", "unmark"}]
  /\ wire \in [Stream -> {"nil", "open", "closed"}]
  /\ \A s \in Stream : (stage[s] = "dial") = (wire[s] = "nil")
  /\ up \in [Stream -> BOOLEAN]
  /\ probe \in {"none", "ready", "health"}
  /\ step \in 0 .. 7
  /\ (probe = "none") = (step = 0)
  /\ code \in {0, 200, 503}
  /\ (code = 0) = (step \in 0 .. 3)
  /\ body \subseteq Connection
  /\ earned \subseteq Connection

\* /ready answers 200 only if each of the three connections was up at some
\* time while it was being answered, in whatever order they came and went
\* (main.go 1230-1241).
ReadyIsEarned == probe = "ready" /\ code = 200 => earned = Connection

\* Once C-Gate stays up, every probe comes to be answered with 200 and a body
\* that names all three connections, with no request to prompt it (main.go
\* 158-181 and 239-275, README.md 113 and 135-137).
BecomesReady ==
  <>[](cgate = "up") => <>[](step = 7 => code = 200 /\ body = Connection)

\* Once C-Gate stays down, the body of every probe comes to say that all three
\* connections are: the streams notice the end of their connections, and the
\* heartbeat that of the session (main.go 146-156 and 241-243, README.md 124-127).
OutageShows ==
  <>[](cgate = "down") => <>[](step = 7 => body = {})
===============================================================================
