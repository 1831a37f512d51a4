----------------------------- MODULE BridgeProofs -----------------------------
(***************************************************************************)
(* Theorems of Bridge, for any set of requests beside the probes.          *)
(***************************************************************************)
EXTENDS Bridge, CommandSessionProofs

\* Where the probe is, and what its loads have told the history so far: while
\* handleReady has found no flag down, those it has loaded are earned.
ProbeInv ==
  /\ step \in 0 .. 7
  /\ probe \in {"none", "ready", "health"}
  /\ probe = "none" => step = 0
  /\ probe = "health" => step \in 4 .. 7
  /\ probe = "ready" =>
       /\ step \in 1 .. 7
       /\ step \in 1 .. 3 => code = 0 /\ \A i \in 1 .. (step - 1) : Order[i] \in earned
       /\ code = 200 => earned = Connection
  /\ earned \subseteq Connection

LEMMA OrderIsAll ==
  /\ Connection = {Order[1], Order[2], Order[3]}
  /\ Order[1] \in Connection /\ Order[2] \in Connection /\ Order[3] \in Connection
BY DEF Order, Connection, Stream

LEMMA EarnedGrows ==
  ASSUME Remember, ProbeInv, probe' = "ready"
  PROVE  earned \subseteq earned' /\ earned' \subseteq Connection /\ AllUp \subseteq earned'
BY DEF Remember, ProbeInv, AllUp

\* A step that leaves the probe alone keeps what it has found.
LEMMA ProbeUntouched ==
  ASSUME ProbeInv, Remember, UNCHANGED probes
  PROVE  ProbeInv'
<1>1. CASE probe = "ready"
  <2>1. earned \subseteq earned' /\ earned' \subseteq Connection
    BY <1>1, EarnedGrows DEF probes
  <2> QED
    BY <1>1, <2>1 DEF ProbeInv, probes
<1>2. CASE probe # "ready"
  BY <1>2 DEF ProbeInv, Remember, probes
<1> QED
  BY <1>1, <1>2

LEMMA StepProbe ==
  ASSUME ProbeInv, [BridgeNext]_allVars
  PROVE  ProbeInv'
<1>1. CASE UNCHANGED allVars
  BY <1>1 DEF ProbeInv, allVars, bridge
<1>2. CASE BridgeNext
  <2>0. Remember
    BY <1>2 DEF BridgeNext, SessionStep, StreamPort, Dials, MarksUp, ScansLine,
       CastEnds, ScanEnds, MarksDown, ProbeArrives, Probe, LoadForCode,
       LoadForBody, ProbeReturns, Aside
  <2>1. CASE SessionStep
    BY <2>0, <2>1, ProbeUntouched DEF SessionStep, WiresBreak, probes
  <2>2. CASE \E s \in Stream : StreamPort(s)
    BY <2>0, <2>2, ProbeUntouched
       DEF StreamPort, Dials, MarksUp, ScansLine, CastEnds, ScanEnds, MarksDown, probes
  <2>3. CASE ProbeArrives
    BY <2>0, <2>3 DEF ProbeArrives, ProbeInv, Remember, AllUp
  <2>4. CASE LoadForCode
    <3>1. probe = "ready" /\ probe' = "ready" /\ code = 0
      BY <2>4 DEF LoadForCode, ProbeInv
    <3>2. earned \subseteq earned' /\ earned' \subseteq Connection /\ AllUp \subseteq earned'
      BY <2>0, <3>1, EarnedGrows
    <3>3. CASE IsUp(Order[step]) /\ step' = step + 1
      <4>1. step \in 1 .. 3 /\ Order[step] \in earned'
        BY <2>4, <3>2, <3>3, OrderIsAll DEF LoadForCode, AllUp
      <4>2. \A i \in 1 .. step : Order[i] \in earned'
        BY <3>1, <3>2, <4>1 DEF ProbeInv
      <4>3. step = 3 => earned' = Connection
        BY <3>2, <4>2, OrderIsAll
      <4>4. code' = IF step = 3 THEN 200 ELSE 0
        BY <2>4, <3>1, <3>3, <4>1 DEF LoadForCode
      <4> QED
        BY <3>1, <3>2, <3>3, <4>1, <4>2, <4>3, <4>4 DEF ProbeInv
    <3>4. CASE ~IsUp(Order[step]) /\ step' = 4 /\ code' = 503
      BY <3>1, <3>2, <3>4 DEF ProbeInv
    <3> QED
      BY <2>4, <3>3, <3>4, <3>1 DEF LoadForCode
  <2>5. CASE LoadForBody
    <3>1. probe' = probe /\ code' = code /\ step' = step + 1 /\ step \in 4 .. 6
      BY <2>5 DEF LoadForBody
    <3>2. CASE probe = "ready"
      BY <2>0, <3>1, <3>2, EarnedGrows DEF ProbeInv
    <3>3. CASE probe # "ready"
      BY <2>0, <3>1, <3>3 DEF ProbeInv, Remember
    <3> QED
      BY <3>2, <3>3
  <2>6. CASE ProbeReturns
    BY <2>0, <2>6 DEF ProbeReturns, ProbeInv, Remember
  <2> QED
    BY <1>2, <2>1, <2>2, <2>3, <2>4, <2>5, <2>6 DEF BridgeNext, Probe
<1> QED
  BY <1>1, <1>2

\* A 200 from /ready is earned: while it was being answered, each of the three
\* connections was up at some time.
THEOREM ReadyEarned == BridgeSpec => []ReadyIsEarned
<1>1. BridgeInit => ProbeInv
  BY DEF BridgeInit, ProbeInv
<1>2. ProbeInv /\ [BridgeNext]_allVars => ProbeInv'
  BY StepProbe
<1>3. ProbeInv => ReadyIsEarned
  BY DEF ProbeInv, ReadyIsEarned
<1> QED
  BY <1>1, <1>2, <1>3, PTL DEF BridgeSpec

-----------------------------------------------------------------------------
LEMMA SessionSteps ==
  ASSUME [BridgeNext]_allVars
  PROVE  [Next]_vars
<1>1. CASE UNCHANGED allVars
  BY <1>1 DEF allVars
<1>2. CASE SessionStep
  BY <1>2 DEF SessionStep
<1>3. CASE \E s \in Stream : StreamPort(s)
  BY <1>3 DEF StreamPort, Dials, MarksUp, ScansLine, CastEnds, ScanEnds, MarksDown, Aside
<1>4. CASE ProbeArrives \/ Probe
  BY <1>4 DEF ProbeArrives, Probe, LoadForCode, LoadForBody, ProbeReturns, Aside
<1> QED
  BY <1>1, <1>2, <1>3, <1>4 DEF BridgeNext

\* Streams and probes do not disturb the command session: every safety property
\* of CommandSession holds beside them.
THEOREM SessionIsUndisturbed == BridgeSpec => Spec
<1>1. BridgeInit => Init
  BY DEF BridgeInit
<1> QED
  BY <1>1, SessionSteps, PTL DEF BridgeSpec, Spec

\* What the streams and the probes keep to.
StreamsTypeOK ==
  /\ stage \in [Stream -> {"dial", "mark", "scan", "cast", "unmark"}]
  /\ wire \in [Stream -> {"nil", "open", "closed"}]
  /\ \A s \in Stream : (stage[s] = "dial") = (wire[s] = "nil")
  /\ up \in [Stream -> BOOLEAN]

ProbesTypeOK ==
  /\ probe \in {"none", "ready", "health"}
  /\ step \in 0 .. 7
  /\ (probe = "none") = (step = 0)
  /\ code \in {0, 200, 503}
  /\ (code = 0) = (step \in 0 .. 3)
  /\ body \subseteq Connection

LEMMA StepStreams ==
  ASSUME StreamsTypeOK, [BridgeNext]_allVars
  PROVE  StreamsTypeOK'
<1> USE DEF StreamsTypeOK
<1>1. CASE UNCHANGED streams
  BY <1>1 DEF streams
<1>2. CASE WiresBreak
  BY <1>2 DEF WiresBreak
<1>3. ASSUME NEW s \in Stream, StreamPort(s)
      PROVE  StreamsTypeOK'
  <2>1. CASE Dials(s)
    BY <2>1 DEF Dials, MoveTo
  <2>2. CASE MarksUp(s)
    BY <2>2 DEF MarksUp, MoveTo
  <2>3. CASE ScansLine(s) \/ CastEnds(s) \/ ScanEnds(s)
    BY <2>3 DEF ScansLine, CastEnds, ScanEnds, MoveTo
  <2>4. CASE MarksDown(s)
    BY <2>4 DEF MarksDown, MoveTo
  <2> QED
    BY <1>3, <2>1, <2>2, <2>3, <2>4 DEF StreamPort
<1>4. CASE SessionStep
  BY <1>1, <1>2, <1>4 DEF SessionStep
<1>5. CASE ProbeArrives \/ Probe
  BY <1>1, <1>5 DEF ProbeArrives, Probe, LoadForCode, LoadForBody, ProbeReturns
<1>6. CASE UNCHANGED allVars
  BY <1>1, <1>6 DEF allVars, bridge, streams
<1> QED
  BY <1>3, <1>4, <1>5, <1>6 DEF BridgeNext

LEMMA StepProbes ==
  ASSUME ProbesTypeOK, [BridgeNext]_allVars
  PROVE  ProbesTypeOK'
<1> USE DEF ProbesTypeOK
<1>1. CASE UNCHANGED probes
  BY <1>1 DEF probes
<1>2. CASE ProbeArrives
  BY <1>2 DEF ProbeArrives
<1>3. CASE LoadForCode
  BY <1>3 DEF LoadForCode
<1>4. CASE LoadForBody
  <2>1. step \in 4 .. 6 /\ Order[step - 3] \in Connection
    BY <1>4, OrderIsAll DEF LoadForBody
  <2> QED
    BY <1>4, <2>1 DEF LoadForBody
<1>5. CASE ProbeReturns
  BY <1>5 DEF ProbeReturns
<1>6. CASE SessionStep \/ \E s \in Stream : StreamPort(s)
  BY <1>1, <1>6 DEF SessionStep, WiresBreak, StreamPort, Dials, MarksUp, ScansLine,
     CastEnds, ScanEnds, MarksDown
<1>7. CASE UNCHANGED allVars
  BY <1>1, <1>7 DEF allVars, bridge, probes
<1> QED
  BY <1>2, <1>3, <1>4, <1>5, <1>6, <1>7 DEF BridgeNext, Probe

\* Every variable keeps to the values the code can give it.
THEOREM BridgeTypeCorrect == BridgeSpec => []BridgeTypeOK
<1>1. BridgeInit => StreamsTypeOK /\ ProbesTypeOK /\ ProbeInv
  BY DEF BridgeInit, StreamsTypeOK, ProbesTypeOK, ProbeInv
<1>2. StreamsTypeOK /\ ProbesTypeOK /\ ProbeInv /\ [BridgeNext]_allVars
        => (StreamsTypeOK /\ ProbesTypeOK /\ ProbeInv)'
  BY StepStreams, StepProbes, StepProbe
<1>3. BridgeSpec => []TypeOK
  BY SessionIsUndisturbed, TypeCorrect, PTL
<1>4. TypeOK /\ StreamsTypeOK /\ ProbesTypeOK /\ ProbeInv => BridgeTypeOK
  BY DEF BridgeTypeOK, StreamsTypeOK, ProbesTypeOK, ProbeInv
<1> QED
  BY <1>1, <1>2, <1>3, <1>4, PTL DEF BridgeSpec
===============================================================================
