------------------------- MODULE ActiveProjectProofs -------------------------
(***************************************************************************)
(* Theorems of ActiveProject, for any set of calls, any number of faults   *)
(* and loads, replies of any length and any time limits.  The session      *)
(* beneath the calls is that of CommandSession, so its inductive invariant *)
(* IInv holds beside the one for the calls.                                *)
(***************************************************************************)
EXTENDS ActiveProject, CommandSessionProofs

\* While a call waits for its query no name is cached, and a name that a call
\* returned is the cached one.
CacheInv ==
  \A q \in Request :
    /\ call[q] = "wait" => activeCached = NoName
    /\ named[q] # NoName => activeCached = named[q]

\* A query that nothing has hindered has more patience left than the session
\* has time.
PatienceInv ==
  \A q \in Request :
    /\ said[q] = "abandoned" => hindered[q]
    /\ call[q] = "wait" /\ ~hindered[q] =>
         /\ pc[q] \in {"lock", "write", "read", "done"}
         /\ pc[q] \in {"lock", "write"} => patience[q] >= ReadDeadline + Grace
         /\ pc[q] = "read" => patience[q] >= timer + Grace
         /\ pc[q] = "done" => patience[q] >= Grace

\* What a call has to show whose session has been in order since it began.
WellInv ==
  \A q \in Request :
    /\ well[q] => call[q] # "idle"
    /\ well[q] /\ call[q] \in {"lock", "wait"} => InOrder
    /\ well[q] /\ call[q] = "wait" =>
         /\ pc[q] \in {"lock", "write", "read", "done"}
         /\ patience[q] > 0
         /\ pc[q] = "read" /\ (reply # {} \/ inbox # <<>>) => told[q] # NoName
         /\ pc[q] = "done" => answer[q] = {q} /\ told[q] # NoName
    /\ well[q] /\ call[q] = "done" => named[q] \in Project
    /\ done[q] => pc[q] = "done"

CallsInv == CallsTypeOK /\ CacheInv /\ PatienceInv /\ WellInv

-----------------------------------------------------------------------------
(* The session. *)

LEMMA TimedStep ==
  ASSUME NEW c \in Caller, InTime(c)
  PROVE  Step(c)
BY DEF InTime, Step

\* The calls move the session by its own steps only.
LEMMA SessionMoves ==
  ASSUME [CallsNext]_allVars
  PROVE  [Next]_vars
<1>1. CASE UNCHANGED allVars
  BY <1>1 DEF allVars, stepVars
<1>2. ASSUME NEW c \in Caller, SessionTaken(c) \/ SessionStep(c)
      PROVE  Next
  BY <1>2, TimedStep DEF SessionTaken, SessionStep, Next
<1>3. CASE Rebuild \/ Wakes
  BY <1>3 DEF Rebuild, Wakes, Next, Maintain
<1>4. CASE Reply \/ Faults
  BY <1>4 DEF Reply, Faults, Next, CGate
<1>5. ASSUME NEW p \in Name, Use(p)
      PROVE  UNCHANGED vars
  BY <1>5 DEF Use
<1>6. ASSUME NEW q \in Request, CallStep(q)
      PROVE  [Next]_vars
  BY <1>6 DEF CallStep, Wants, EndsAtOnce, StartsQuery, Reports, Receives, GivesUp, Next
<1>7. CASE Tick
  BY <1>7 DEF Tick
<1> QED
  BY <1>1, <1>2, <1>3, <1>4, <1>5, <1>6, <1>7 DEF CallsNext, Steps

\* The calls of activeProject are senders like any other: every safety property
\* of CommandSession holds beneath them.
THEOREM SessionServesCalls == CallsSpec => Spec
<1>1. Init /\ InitCalls => Init
  OBVIOUS
<1> QED
  BY <1>1, SessionMoves, PTL DEF CallsSpec, Spec

\* A step of one caller leaves every other alone.
LEMMA OthersStay ==
  ASSUME TypeOK, NEW c \in Caller, Acquire(c) \/ InTime(c), NEW q \in Request, q # c
  PROVE  pc'[q] = pc[q] /\ answer'[q] = answer[q]
<1> USE DEF TypeOK, Caller, Goto, session, link, history
<1>1. CASE Acquire(c)
  BY <1>1 DEF Acquire
<1>2. CASE DialSucceeds(c) \/ DialFails(c)
  BY <1>2 DEF DialSucceeds, DialFails, Return
<1>3. CASE Drained(c)
  BY <1>3 DEF Drained
<1>4. CASE WriteReaches(c) \/ WriteIsLost(c) \/ WriteFails(c)
  BY <1>4 DEF WriteReaches, WriteIsLost, WriteFails, Return
<1>5. CASE ReadContinuation(c) \/ ReadLast(c) \/ ReadCutShort(c) \/ ReadFails(c)
  BY <1>5 DEF ReadContinuation, ReadLast, ReadCutShort, ReadFails, Return
<1> QED
  BY <1>1, <1>2, <1>3, <1>4, <1>5 DEF InTime

\* Where a step of its own takes a request.
LEMMA OwnStep ==
  ASSUME TypeOK, NEW q \in Request, InTime(q)
  PROVE  /\ pc[q] \in Critical
         /\ pc[q] = "write" => pc'[q] \in {"dial", "read", "done"}
         /\ pc[q] = "read" => pc'[q] \in {"read", "done"}
<1> USE CallersDistinct DEF TypeOK, Caller, Critical, Goto, session, link, history
<1>1. CASE DialSucceeds(q) \/ DialFails(q) \/ Drained(q)
  BY <1>1 DEF DialSucceeds, DialFails, Drained
<1>2. CASE WriteReaches(q) \/ WriteIsLost(q) \/ WriteFails(q)
  BY <1>2 DEF WriteReaches, WriteIsLost, WriteFails, Return
<1>3. CASE ReadContinuation(q) \/ ReadLast(q) \/ ReadCutShort(q) \/ ReadFails(q)
  BY <1>3 DEF ReadContinuation, ReadLast, ReadCutShort, ReadFails, Return
<1> QED
  BY <1>1, <1>2, <1>3 DEF InTime

\* Nothing but its own steps moves a request.
LEMMA WorldStays ==
  ASSUME TypeOK, Rebuild \/ Reply \/ Faults \/ (\E p \in Name : Use(p)) \/ Tick \/ Wakes,
         NEW q \in Request
  PROVE  pc'[q] = pc[q] /\ answer'[q] = answer[q]
<1> USE CallersDistinct DEF TypeOK, Caller, Goto, session, link, history
<1>1. CASE Rebuild \/ Wakes
  BY <1>1 DEF Rebuild, Wakes, BeginRebuild, PollDown, PollHeartbeat, HeartbeatDue
<1>2. CASE Reply \/ Faults
  BY <1>2 DEF Reply, Faults, Emit, Hang, Resume, Crash, Start
<1>3. CASE (\E p \in Name : Use(p)) \/ Tick
  BY <1>3 DEF Use, Tick, vars
<1> QED
  BY <1>1, <1>2, <1>3

LEMMA LimitsAreFinite ==
  /\ \A stage : Limit(stage) \in Nat
  /\ Limit("read") = ReadDeadline
  /\ ReadDeadline \in Nat /\ Grace \in Nat /\ Grace > 0 /\ MaxLoads \in Nat
  /\ DialTimeout \in Nat
BY LimitsAreNaturals DEF Limit

-----------------------------------------------------------------------------
LEMMA CallsInit == Init /\ InitCalls => CallsInv
BY LimitsAreFinite, NoNameIsNoProject, CallersDistinct
   DEF Init, InitCalls, CallsInv, CallsTypeOK, CacheInv, PatienceInv, WellInv, Name, Endings,
       Caller

LEMMA StepWell ==
  ASSUME CallsTypeOK, [CallsNext]_allVars
  PROVE  well' \in [Request -> BOOLEAN]
<1>1. CASE UNCHANGED allVars
  BY <1>1 DEF CallsTypeOK, allVars
<1>2. CASE CallsNext
  <2>1. \A q \in Request :
          (CASE call[q] = "idle" -> call'[q] = "lock" /\ InOrder
             [] call[q] = "done" -> well[q]
             [] OTHER            -> well[q] /\ InOrder') \in BOOLEAN
    BY DEF CallsTypeOK
  <2> QED
    BY <1>2, <2>1 DEF CallsNext
<1> QED
  BY <1>1, <1>2

LEMMA StepCallsType ==
  ASSUME CallsInv, [CallsNext]_allVars
  PROVE  CallsTypeOK'
<1> USE CallersDistinct, LimitsAreFinite DEF CallsInv, CallsTypeOK
<1>0. well' \in [Request -> BOOLEAN]
  BY StepWell
<1>1. CASE UNCHANGED allVars
  BY <1>0, <1>1 DEF allVars, stepVars, callVars, useVars, timeVars
<1>2. ASSUME NEW c \in Caller, SessionTaken(c) \/ SessionStep(c)
      PROVE  CallsTypeOK'
  <2>1. timer' \in Nat
    BY <1>2 DEF SessionTaken, SessionStep, Rearm
  <2>2. hindered' \in [Request -> BOOLEAN]
    BY <1>2 DEF SessionTaken, SessionStep, Rearm
  <2>3. UNCHANGED <<callVars, useVars>>
    BY <1>2 DEF SessionTaken, SessionStep, Rearm
  <2> QED
    BY <1>0, <2>1, <2>2, <2>3 DEF callVars, useVars
<1>3. CASE Rebuild
  BY <1>0, <1>3 DEF Rebuild, callVars, useVars
<1>4. CASE Reply
  BY <1>0, <1>4 DEF Reply, callVars, timeVars
<1>5. CASE Faults
  BY <1>0, <1>5 DEF Faults, callVars, useVars, timeVars
<1>6. ASSUME NEW p \in Name, Use(p)
      PROVE  CallsTypeOK'
  BY <1>0, <1>6 DEF Use, callVars, timeVars
<1>7. ASSUME NEW q \in Request, Wants(q)
      PROVE  CallsTypeOK'
  BY <1>0, <1>7 DEF Wants, useVars, timeVars
<1>8. ASSUME NEW q \in Request, EndsAtOnce(q)
      PROVE  CallsTypeOK'
  BY <1>0, <1>8 DEF EndsAtOnce, Ends, useVars, timeVars, Name, Endings
<1>9. ASSUME NEW q \in Request, StartsQuery(q)
      PROVE  CallsTypeOK'
  BY <1>0, <1>9 DEF StartsQuery, useVars, timeVars, Caller
<1>10. ASSUME NEW q \in Request, Reports(q)
       PROVE  CallsTypeOK'
  BY <1>0, <1>10 DEF Reports, useVars, timeVars
<1>11. ASSUME NEW q \in Request, Receives(q)
       PROVE  CallsTypeOK'
  <2>1. NamesIn(q) \subseteq Name /\ NoName \in Name
    BY DEF NamesIn, Name
  <2>2. PICK p \in Name : Ends(q, "answered", p) /\ activeCached' \in {p, activeCached}
    BY <1>11, <2>1 DEF Receives
  <2>3. /\ said' \in [Request -> Endings]
        /\ named' \in [Request -> Name]
        /\ activeCached' \in Name
    BY <2>2 DEF Ends, Endings
  <2>4. /\ call' = [call EXCEPT ![q] = "done"]
        /\ patience' = [patience EXCEPT ![q] = 0]
    BY <2>2 DEF Ends
  <2> QED
    BY <1>0, <1>11, <2>3, <2>4 DEF Receives, useVars, timeVars, Caller
<1>12. ASSUME NEW q \in Request, GivesUp(q)
       PROVE  CallsTypeOK'
  BY <1>0, <1>12 DEF GivesUp, Ends, useVars, timeVars, Name, Endings, Caller
<1>13. ASSUME Tick \/ Wakes
       PROVE  CallsTypeOK'
  <2>1. Second
    BY <1>13 DEF Tick, Wakes
  <2>2. patience' \in [Request -> Nat]
    BY <2>1 DEF Second, Quiet, CallWaits
  <2>3. timer' \in Nat
    BY <2>1 DEF Second
  <2> QED
    BY <1>0, <2>1, <2>2, <2>3 DEF Second, useVars
<1> QED
  BY <1>1, <1>2, <1>3, <1>4, <1>5, <1>6, <1>7, <1>8, <1>9, <1>10, <1>11, <1>12, <1>13
     DEF CallsNext, Steps, CallStep

\* Only the call that holds activeMu caches a name, and finds none there.
LEMMA StepCache ==
  ASSUME CallsInv, [CallsNext]_allVars
  PROVE  CacheInv'
<1> USE CallersDistinct DEF CallsInv, CallsTypeOK, CacheInv
<1>1. CASE UNCHANGED <<call, activeCached, named>>
  BY <1>1
<1>2. ASSUME NEW c \in Caller, SessionTaken(c) \/ SessionStep(c)
      PROVE  CacheInv'
  BY <1>1, <1>2 DEF SessionTaken, SessionStep, Rearm, callVars
<1>3. CASE Rebuild \/ Reply \/ Faults \/ (\E p \in Name : Use(p)) \/ Tick \/ Wakes
  BY <1>1, <1>3 DEF Rebuild, Reply, Faults, Use, Tick, Wakes, Second, callVars
<1>4. ASSUME NEW q \in Request, Wants(q) \/ Reports(q)
      PROVE  CacheInv'
  BY <1>4 DEF Wants, Reports
<1>5. ASSUME NEW q \in Request, EndsAtOnce(q)
      PROVE  CacheInv'
  BY <1>5 DEF EndsAtOnce, Ends
<1>6. ASSUME NEW q \in Request, StartsQuery(q)
      PROVE  CacheInv'
  BY <1>6 DEF StartsQuery
<1>7. ASSUME NEW q \in Request, Receives(q)
      PROVE  CacheInv'
  <2>1. /\ call[q] = "wait" /\ activeMu = q /\ activeCached = NoName
        /\ \A r \in Request : named[r] = NoName
        /\ \A r \in Request \ {q} : call[r] # "wait"
    BY <1>7 DEF Receives
  <2> QED
    BY <1>7, <2>1 DEF Receives, Ends
<1>8. ASSUME NEW q \in Request, GivesUp(q)
      PROVE  CacheInv'
  BY <1>8 DEF GivesUp, Ends
<1>9. CASE UNCHANGED allVars
  BY <1>1, <1>9 DEF allVars, stepVars, callVars
<1> QED
  BY <1>2, <1>3, <1>4, <1>5, <1>6, <1>7, <1>8, <1>9 DEF CallsNext, Steps, CallStep

LEMMA StepIsCritical ==
  ASSUME NEW c \in Caller, InTime(c)
  PROVE  pc[c] \in Critical
BY DEF InTime, Critical, DialSucceeds, DialFails, Drained, WriteReaches, WriteIsLost,
   WriteFails, ReadContinuation, ReadLast, ReadCutShort, ReadFails

\* Who reads has the session to itself.
LEMMA ReaderIsAlone ==
  ASSUME IInv, NEW q \in Request, pc[q] \in Critical
  PROVE  /\ lock = q /\ lock # NoOwner
         /\ ~Rebuild
         /\ \A c \in Caller : SessionTaken(c) \/ SessionStep(c) => c = q
<1>1. lock = q /\ lock # NoOwner
  BY CallersDistinct DEF IInv, MutexInv, Caller
<1>2. ~Rebuild
  BY <1>1 DEF Rebuild, BeginRebuild
<1>3. \A c \in Caller : ~SessionTaken(c)
  BY <1>1 DEF SessionTaken, Acquire
<1>4. \A c \in Caller : SessionStep(c) => c = q
  BY <1>1, StepIsCritical DEF SessionStep, IInv, MutexInv
<1> QED
  BY <1>1, <1>2, <1>3, <1>4

\* The patience of an unhindered query outlasts the time limit of its read.
LEMMA StepPatience ==
  ASSUME IInv, CallsInv, [CallsNext]_allVars
  PROVE  PatienceInv'
<1> DEFINE P(q) ==
      /\ said[q] = "abandoned" => hindered[q]
      /\ call[q] = "wait" /\ ~hindered[q] =>
           /\ pc[q] \in {"lock", "write", "read", "done"}
           /\ pc[q] \in {"lock", "write"} => patience[q] >= ReadDeadline + Grace
           /\ pc[q] = "read" => patience[q] >= timer + Grace
           /\ pc[q] = "done" => patience[q] >= Grace
<1> SUFFICES ASSUME NEW q \in Request
             PROVE  P(q)'
  BY DEF PatienceInv
<1>a. P(q)
  BY DEF CallsInv, PatienceInv
<1>b. TypeOK /\ CallsTypeOK
  BY DEF IInv, CallsInv
<1> USE LimitsAreFinite DEF CallsTypeOK
<1>1. CASE UNCHANGED <<said, hindered, call, pc, patience, timer>>
  BY <1>1, <1>a
<1>2. ASSUME NEW c \in Caller, SessionTaken(c)
      PROVE  P(q)'
  <2>1. pc[q] # "read"
    BY <1>2, ReaderIsAlone DEF SessionTaken, Acquire, Critical
  <2>2. CASE q = c
    <3>1. pc[q] = "lock" /\ pc'[q] \in {"dial", "write"}
      BY <1>2, <1>b, <2>2 DEF SessionTaken, Acquire, Goto, TypeOK, Caller
    <3> QED
      BY <1>2, <1>a, <1>b, <2>2, <3>1 DEF SessionTaken, Rearm, callVars
  <2>3. CASE q # c
    <3>1. pc'[q] = pc[q]
      BY <1>2, <1>b, <2>3, OthersStay DEF SessionTaken
    <3> QED
      BY <1>2, <1>a, <1>b, <2>1, <2>3, <3>1 DEF SessionTaken, Rearm, callVars
  <2> QED
    BY <2>2, <2>3
<1>3. ASSUME NEW c \in Caller, SessionStep(c)
      PROVE  P(q)'
  <2>1. CASE q = c
    <3>1. /\ pc[q] \in Critical
          /\ pc[q] = "write" => pc'[q] \in {"dial", "read", "done"}
          /\ pc[q] = "read" => pc'[q] \in {"read", "done"}
      BY <1>3, <1>b, <2>1, OwnStep DEF SessionStep
    <3>2. pc'[q] = "read" => timer' = ReadDeadline
      BY <1>3, <2>1 DEF SessionStep, Rearm
    <3>3. /\ UNCHANGED <<said, call, patience>>
          /\ hindered[q] => hindered'[q]
          /\ pc'[q] = "dial" => hindered'[q]
          /\ pc[q] = "read" /\ pc'[q] = "read" => hindered'[q]
      BY <1>3, <1>b, <2>1 DEF SessionStep, Rearm, callVars
    <3> QED
      BY <1>a, <1>b, <3>1, <3>2, <3>3 DEF Critical
  <2>2. CASE q # c
    <3>1. pc'[q] = pc[q] /\ pc[q] # "read"
      BY <1>3, <1>b, <2>2, OthersStay, ReaderIsAlone DEF SessionStep, Critical
    <3> QED
      BY <1>3, <1>a, <1>b, <2>2, <3>1 DEF SessionStep, Rearm, callVars
  <2> QED
    BY <2>1, <2>2
<1>4. CASE Rebuild
  <2>1. pc'[q] = pc[q] /\ pc[q] # "read"
    BY <1>4, <1>b, WorldStays, ReaderIsAlone DEF Critical
  <2> QED
    BY <1>4, <1>a, <2>1 DEF Rebuild, callVars
<1>5. CASE Reply \/ Faults \/ \E p \in Name : Use(p)
  <2>1. pc'[q] = pc[q]
    BY <1>5, <1>b, WorldStays
  <2> QED
    BY <1>5, <1>a, <2>1 DEF Reply, Faults, Use, callVars, timeVars
<1>6. ASSUME NEW r \in Request, Wants(r) \/ EndsAtOnce(r) \/ Reports(r) \/ Receives(r)
      PROVE  P(q)'
  <2>1. /\ UNCHANGED <<pc, hindered, timer>>
        /\ call'[q] = "wait" => call[q] = "wait" /\ patience'[q] = patience[q]
        /\ said'[q] = "abandoned" => said[q] = "abandoned"
    BY <1>6, <1>b DEF Wants, EndsAtOnce, Reports, Receives, Ends, vars, timeVars
  <2> QED
    BY <1>a, <2>1
<1>7. ASSUME NEW r \in Request, StartsQuery(r)
      PROVE  P(q)'
  <2>1. CASE q = r
    <3>1. pc'[q] = "lock" /\ patience'[q] = ReadDeadline + Grace
      BY <1>7, <1>b, <2>1 DEF StartsQuery, Ask, Goto, TypeOK, Caller
    <3> QED
      BY <1>7, <1>a, <3>1 DEF StartsQuery, timeVars
  <2>2. CASE q # r
    <3>1. pc'[q] = pc[q] /\ patience'[q] = patience[q] /\ call'[q] = call[q]
      BY <1>7, <1>b, <2>2 DEF StartsQuery, Ask, Goto, TypeOK, Caller
    <3> QED
      BY <1>7, <1>a, <3>1 DEF StartsQuery, timeVars
  <2> QED
    BY <2>1, <2>2
<1>8. ASSUME NEW r \in Request, GivesUp(r)
      PROVE  P(q)'
  <2>1. CASE q = r
    <3>1. hindered[q]
      BY <1>8, <1>a, <1>b, <2>1 DEF GivesUp
    <3> QED
      BY <1>8, <1>b, <2>1, <3>1 DEF GivesUp, Ends, timeVars
  <2>2. CASE q # r
    BY <1>8, <1>a, <1>b, <2>2 DEF GivesUp, Ends, timeVars, vars
  <2> QED
    BY <2>1, <2>2
<1>9. CASE Tick \/ Wakes
  <2>1. Second /\ Quiet /\ pc'[q] = pc[q]
    BY <1>9, <1>b, WorldStays DEF Tick, Wakes, Second
  <2>2. /\ call'[q] = call[q] /\ said'[q] = said[q]
        /\ hindered[q] => hindered'[q]
        /\ pc[q] = "lock" => hindered'[q]
        /\ call[q] = "wait" => patience'[q] = patience[q] - 1
        /\ timer > 0 => timer' = timer - 1
    BY <2>1, <1>b DEF Second
  <2>3. pc[q] # "write"
    BY <2>1, ReaderIsAlone DEF Quiet, HolderWaits, Critical
  <2>4. pc[q] = "read" => timer > 0
    BY <2>1, ReaderIsAlone DEF Quiet, HolderWaits, Critical
  <2>5. call[q] = "wait" => pc[q] # "done"
    BY <2>1 DEF Quiet, CallWaits
  <2>6. timer \in Nat /\ patience[q] \in Nat /\ ReadDeadline \in Nat /\ Grace \in Nat
    BY <1>b
  <2>7. call[q] = "wait" /\ ~hindered'[q] =>
          /\ pc[q] = "read" /\ timer > 0
          /\ patience[q] >= timer + Grace
    BY <1>a, <2>2, <2>3, <2>4, <2>5
  <2>8. call[q] = "wait" /\ ~hindered'[q] => patience'[q] >= timer' + Grace
    BY <2>2, <2>6, <2>7
  <2> QED
    BY <1>a, <2>1, <2>2, <2>7, <2>8
<1>10. CASE UNCHANGED allVars
  BY <1>1, <1>10 DEF allVars, stepVars, vars, callVars, timeVars
<1> QED
  BY <1>2, <1>3, <1>4, <1>5, <1>6, <1>7, <1>8, <1>9, <1>10 DEF CallsNext, Steps, CallStep

\* Time stands still for a call whose session is in order.
LEMMA NoTimePasses ==
  ASSUME IInv, CallsInv, NEW q \in Request, well[q], call[q] = "wait"
  PROVE  ~Quiet
<1> SUFFICES ASSUME Quiet
             PROVE  FALSE
  OBVIOUS
<1>1. InOrder /\ pc[q] \in {"lock", "write", "read", "done"}
  BY DEF CallsInv, WellInv
<1>2. lock \in Caller => pc[lock] \in Critical
  BY DEF IInv, MutexInv
<1>3. ~(lock \in Caller /\ pc[lock] = "read" /\ inbox = <<>> /\ pending = <<>>)
  BY <1>1 DEF IInv, ReplyIsOwed, InOrder
<1>4. lock = NoOwner
  BY <1>1, <1>2, <1>3 DEF Quiet, HolderWaits, InOrder, IInv, TypeOK, FlagInv
<1>5. pc[q] = "done"
  BY <1>1, <1>4, ReaderIsAlone DEF Quiet, Critical, Caller
<1> QED
  BY <1>5 DEF Quiet, CallWaits

\* The reply that a call in order reads is its own, and names a project.
LEMMA OwnReply ==
  ASSUME IInv, CallsInv, NEW q \in Request, well[q], call[q] = "wait", SessionStep(q), InOrder'
  PROVE  /\ pc'[q] \in {"read", "done"}
         /\ pc'[q] = "read" /\ (reply' # {} \/ inbox' # <<>>) => told'[q] # NoName
         /\ pc'[q] = "done" => answer'[q] = {q} /\ told'[q] # NoName
<1> USE DEF Caller
<1>1. /\ InOrder
      /\ pc[q] \in {"lock", "write", "read", "done"}
      /\ pc[q] = "read" /\ (reply # {} \/ inbox # <<>>) => told[q] # NoName
  BY DEF CallsInv, WellInv
<1>2. told' = told
  BY DEF SessionStep, Rearm, useVars
<1>3. InTime(q)
  BY DEF SessionStep
<1>4. ~(DialSucceeds(q) \/ DialFails(q) \/ Drained(q))
  BY <1>1 DEF DialSucceeds, DialFails, Drained
<1>5. ~(WriteIsLost(q) \/ WriteFails(q))
  BY <1>1 DEF WriteIsLost, WriteFails, InOrder
<1>6. ~(ReadCutShort(q) \/ ReadFails(q))
  BY <1>1 DEF ReadCutShort, ReadFails, Silent, IInv, ReplyIsOwed, InOrder
<1>7. CASE WriteReaches(q)
  <2>1. pc'[q] = "read"
    BY <1>7 DEF WriteReaches, Goto, IInv, TypeOK
  <2>2. reply' = {} /\ inbox' = <<>>
    BY <1>1, <1>7 DEF WriteReaches, IInv, FreshReplyInv, CleanInv, InOrder
  <2> QED
    BY <2>1, <2>2
<1>8. CASE ReadContinuation(q)
  BY <1>1, <1>2, <1>8 DEF ReadContinuation
<1>9. CASE ReadLast(q)
  <2>1. pc[q] = "read" /\ inbox # <<>> /\ reply \subseteq {q}
    BY <1>1, <1>9 DEF ReadLast, IInv, CleanInv, InOrder
  <2>2. Head(inbox) = inbox[1] /\ 1 \in 1 .. Len(inbox)
    BY <2>1, EmptySeq, LenProperties DEF IInv, TypeOK
  <2>3. Head(inbox).of = q
    BY <1>1, <2>1, <2>2 DEF IInv, CleanInv, InOrder
  <2>4. answer'[q] = reply \cup {Head(inbox).of} /\ pc'[q] = "done"
    BY <1>9, CallersDistinct DEF ReadLast, Return, Goto, IInv, TypeOK
  <2> QED
    BY <1>1, <1>2, <2>1, <2>3, <2>4
<1> QED
  BY <1>3, <1>4, <1>5, <1>6, <1>7, <1>8, <1>9 DEF InTime

\* What a step of the session, of C-Gate or of the clock leaves of a call that
\* waits in order.
LEMMA WaitsInOrder ==
  ASSUME IInv, CallsInv, NEW q \in Request, well[q], call[q] = "wait", InOrder',
         \/ \E c \in Caller : SessionTaken(c) \/ SessionStep(c)
         \/ Rebuild \/ Reply \/ Faults \/ (\E p \in Name : Use(p)) \/ Tick \/ Wakes
  PROVE  /\ pc'[q] \in {"lock", "write", "read", "done"}
         /\ patience'[q] > 0
         /\ pc'[q] = "read" /\ (reply' # {} \/ inbox' # <<>>) => told'[q] # NoName
         /\ pc'[q] = "done" => answer'[q] = {q} /\ told'[q] # NoName
<1> DEFINE Holds ==
      /\ pc[q] \in {"lock", "write", "read", "done"}
      /\ patience[q] > 0
      /\ pc[q] = "read" /\ (reply # {} \/ inbox # <<>>) => told[q] # NoName
      /\ pc[q] = "done" => answer[q] = {q} /\ told[q] # NoName
<1> SUFFICES Holds'
  OBVIOUS
<1>a. Holds /\ InOrder
  BY DEF CallsInv, WellInv
<1>b. TypeOK /\ CallsTypeOK
  BY DEF IInv, CallsInv
<1>1. ASSUME NEW c \in Caller, SessionTaken(c)
      PROVE  Holds'
  <2>1. pc[q] \notin Critical /\ UNCHANGED <<patience, told>>
    BY <1>1, ReaderIsAlone DEF SessionTaken, Acquire, Rearm, callVars, useVars
  <2>2. CASE q = c
    <3>1. pc'[q] = "write"
      BY <1>1, <1>a, <1>b, <2>2 DEF SessionTaken, Acquire, Goto, TypeOK, Caller, InOrder
    <3> QED
      BY <1>a, <2>1, <3>1
  <2>3. CASE q # c
    <3>1. pc'[q] = pc[q] /\ answer'[q] = answer[q]
      BY <1>1, <1>b, <2>3, OthersStay DEF SessionTaken
    <3> QED
      BY <1>a, <2>1, <3>1 DEF Critical
  <2> QED
    BY <2>2, <2>3
<1>2. ASSUME NEW c \in Caller, SessionStep(c)
      PROVE  Holds'
  <2>1. UNCHANGED <<patience, told>>
    BY <1>2 DEF SessionStep, Rearm, callVars, useVars
  <2>2. CASE q = c
    BY <1>2, <1>a, <2>1, <2>2, OwnReply
  <2>3. CASE q # c
    <3>1. pc'[q] = pc[q] /\ answer'[q] = answer[q]
      BY <1>2, <1>b, <2>3, OthersStay DEF SessionStep
    <3>2. pc[q] \notin Critical
      BY <1>2, <2>3, ReaderIsAlone
    <3> QED
      BY <1>a, <2>1, <3>1, <3>2 DEF Critical
  <2> QED
    BY <2>2, <2>3
<1>3. ~Rebuild
  BY DEF Rebuild, BeginRebuild, Drop, InOrder
<1>4. CASE Reply
  <2>1. pc'[q] = pc[q] /\ answer'[q] = answer[q]
    BY <1>4, <1>b, WorldStays
  <2>2. reply' = reply /\ patience' = patience /\ pending # <<>>
    BY <1>4 DEF Reply, Emit, callVars
  <2>3. told'[q] = IF q = Head(pending) THEN loaded ELSE told[q]
    BY <1>4 DEF Reply
  <2>4. loaded # NoName
    BY <1>a DEF InOrder
  <2>5. pc[q] = "read" => Head(pending) = q
    <3>1. ASSUME pc[q] = "read"
          PROVE  pending = <<q>>
      BY <1>a, <2>2, <3>1 DEF IInv, CleanInv, InOrder, Caller
    <3> QED
      BY <3>1
  <2> QED
    BY <1>a, <2>1, <2>2, <2>3, <2>4, <2>5
<1>5. CASE Faults \/ \E p \in Name : Use(p)
  <2>1. pc'[q] = pc[q] /\ answer'[q] = answer[q]
    BY <1>5, <1>b, WorldStays
  <2>2. /\ UNCHANGED <<reply, patience, told>>
        /\ inbox' \in {inbox, <<>>}
    BY <1>5 DEF Faults, Hang, Resume, Crash, Start, Use, vars, link, callVars, useVars
  <2> QED
    BY <1>a, <2>1, <2>2
<1>6. ~(Tick \/ Wakes)
  BY NoTimePasses DEF Tick, Wakes, Second
<1> QED
  BY <1>1, <1>2, <1>3, <1>4, <1>5, <1>6

\* A call whose session stays in order goes from one stage to the next.
LEMMA StepWellInv ==
  ASSUME IInv, CallsInv, [CallsNext]_allVars
  PROVE  WellInv'
<1> DEFINE W(q) ==
      /\ well[q] => call[q] # "idle"
      /\ well[q] /\ call[q] \in {"lock", "wait"} => InOrder
      /\ well[q] /\ call[q] = "wait" =>
           /\ pc[q] \in {"lock", "write", "read", "done"}
           /\ patience[q] > 0
           /\ pc[q] = "read" /\ (reply # {} \/ inbox # <<>>) => told[q] # NoName
           /\ pc[q] = "done" => answer[q] = {q} /\ told[q] # NoName
      /\ well[q] /\ call[q] = "done" => named[q] \in Project
      /\ done[q] => pc[q] = "done"
<1> SUFFICES ASSUME NEW q \in Request
             PROVE  W(q)'
  BY DEF WellInv
<1>a. W(q)
  BY DEF CallsInv, WellInv
<1>b. TypeOK /\ CallsTypeOK
  BY DEF IInv, CallsInv
<1> USE LimitsAreFinite DEF CallsTypeOK
<1>0. CASE UNCHANGED allVars
  BY <1>0, <1>a DEF allVars, stepVars, vars, callVars, useVars, InOrder
<1>w. ASSUME CallsNext
      PROVE  /\ call[q] = "idle" => (well'[q] => call'[q] = "lock" /\ InOrder)
             /\ call[q] = "done" => (well'[q] => well[q])
             /\ call[q] \in {"lock", "wait"} => (well'[q] => well[q] /\ InOrder')
  BY <1>w DEF CallsNext
<1>1. ASSUME CallsNext,
             \/ \E c \in Caller : SessionTaken(c) \/ SessionStep(c)
             \/ Rebuild \/ Reply \/ Faults \/ (\E p \in Name : Use(p)) \/ Tick \/ Wakes
      PROVE  W(q)'
  <2>1. UNCHANGED <<call, named, done>>
    BY <1>1 DEF SessionTaken, SessionStep, Rearm, Rebuild, Reply, Faults, Use, Tick, Wakes,
                Second, callVars
  <2>2. pc[q] = "done" => pc'[q] = "done"
    <3>1. ASSUME NEW c \in Caller, SessionTaken(c) \/ SessionStep(c), pc[q] = "done"
          PROVE  pc'[q] = "done"
      <4>1. q # c
        BY <3>1, StepIsCritical DEF SessionTaken, Acquire, SessionStep, Critical
      <4> QED
        BY <1>b, <3>1, <4>1, OthersStay DEF SessionTaken, SessionStep
    <3> QED
      BY <1>1, <1>b, <3>1, WorldStays
  <2>3. CASE call[q] = "wait" /\ well'[q]
    <3>1. well[q] /\ InOrder'
      BY <1>1, <1>w, <2>3
    <3>2. /\ pc'[q] \in {"lock", "write", "read", "done"}
          /\ patience'[q] > 0
          /\ pc'[q] = "read" /\ (reply' # {} \/ inbox' # <<>>) => told'[q] # NoName
          /\ pc'[q] = "done" => answer'[q] = {q} /\ told'[q] # NoName
      BY <1>1, <2>3, <3>1, WaitsInOrder
    <3> QED
      BY <1>a, <2>1, <2>2, <2>3, <3>1, <3>2
  <2>4. CASE ~(call[q] = "wait" /\ well'[q])
    BY <1>1, <1>w, <1>a, <2>1, <2>2, <2>4
  <2> QED
    BY <2>3, <2>4
<1>2. ASSUME CallsNext, NEW r \in Request, CallStep(r), r # q
      PROVE  W(q)'
  <2>1. /\ call'[q] = call[q] /\ named'[q] = named[q] /\ done'[q] = done[q]
        /\ patience'[q] = patience[q] /\ pc'[q] = pc[q]
        /\ UNCHANGED <<reply, inbox, told, answer>>
    <3>1. CASE StartsQuery(r)
      BY <1>2, <1>b, <3>1 DEF StartsQuery, Ask, Goto, TypeOK, Caller, link, history, useVars
    <3>2. CASE Wants(r) \/ EndsAtOnce(r) \/ Reports(r) \/ Receives(r) \/ GivesUp(r)
      BY <1>2, <1>b, <3>2
         DEF Wants, EndsAtOnce, Reports, Receives, GivesUp, Ends, vars, useVars
    <3> QED
      BY <1>2, <3>1, <3>2 DEF CallStep
  <2> QED
    BY <1>2, <1>w, <1>a, <2>1
<1>3. ASSUME CallsNext, Wants(q)
      PROVE  W(q)'
  <2>1. call'[q] = "lock" /\ (InOrder => InOrder') /\ UNCHANGED <<pc, done>>
    BY <1>3, <1>b DEF Wants, InOrder, vars, useVars
  <2>2. call[q] = "idle"
    BY <1>3 DEF Wants
  <2> QED
    BY <1>3, <1>w, <1>a, <2>1, <2>2
<1>4. ASSUME CallsNext, EndsAtOnce(q)
      PROVE  W(q)'
  <2>1. call[q] = "lock" /\ call'[q] = "done" /\ UNCHANGED <<pc, done>>
    BY <1>4, <1>b DEF EndsAtOnce, Ends, vars
  <2>2. well'[q] => well[q] /\ InOrder
    BY <1>4, <1>w, <1>a, <2>1
  <2>3. InOrder => named'[q] \in Project
    BY <1>4, <1>b DEF EndsAtOnce, Ends, InOrder, Name
  <2> QED
    BY <1>a, <2>1, <2>2, <2>3
<1>5. ASSUME CallsNext, StartsQuery(q)
      PROVE  W(q)'
  <2>1. /\ call[q] = "lock" /\ call'[q] = "wait" /\ pc'[q] = "lock" /\ pc[q] = "idle"
        /\ patience'[q] = ReadDeadline + Grace /\ done' = done
    BY <1>5, <1>b DEF StartsQuery, Ask, Goto, TypeOK, Caller
  <2>2. well'[q] => InOrder'
    BY <1>5, <1>w, <2>1
  <2> QED
    BY <1>a, <2>1, <2>2
<1>6. ASSUME CallsNext, Reports(q)
      PROVE  W(q)'
  <2>1. /\ UNCHANGED <<pc, call, patience, reply, inbox, told, answer, named>>
        /\ pc[q] = "done"
    BY <1>6 DEF Reports, vars, useVars
  <2> QED
    BY <1>6, <1>w, <1>a, <2>1
<1>7. ASSUME CallsNext, Receives(q)
      PROVE  W(q)'
  <2>1. call[q] = "wait" /\ call'[q] = "done" /\ done[q] /\ UNCHANGED <<pc, done>>
    BY <1>7, <1>b DEF Receives, Ends, vars
  <2>2. ASSUME well'[q]
        PROVE  named'[q] \in Project
    <3>1. answer[q] = {q} /\ told[q] \in Project
      BY <1>7, <1>w, <1>a, <1>b, <2>1, <2>2 DEF Name
    <3>2. NamesIn(q) = {told[q]}
      BY <3>1, NoNameIsNoProject DEF NamesIn
    <3>3. Ends(q, "answered", told[q])
      BY <1>7, <3>2 DEF Receives
    <3> QED
      BY <1>b, <3>1, <3>3 DEF Ends
  <2> QED
    BY <1>a, <2>1, <2>2
<1>8. ASSUME CallsNext, GivesUp(q)
      PROVE  W(q)'
  <2>1. call[q] = "wait" /\ call'[q] = "done" /\ patience[q] = 0 /\ UNCHANGED <<pc, done>>
    BY <1>8, <1>b DEF GivesUp, Ends, vars
  <2>2. ~well'[q]
    BY <1>8, <1>w, <1>a, <2>1
  <2> QED
    BY <1>a, <2>1, <2>2
<1> QED
  BY <1>0, <1>1, <1>2, <1>3, <1>4, <1>5, <1>6, <1>7, <1>8 DEF CallsNext, Steps, CallStep

-----------------------------------------------------------------------------
\* The inductive invariant of the calls.
THEOREM CallsInvariance == CallsSpec => []CallsInv
<1>1. CallsSpec => []IInv
  BY SessionServesCalls, Invariance, PTL
<1>2. CallsInv /\ IInv /\ [CallsNext]_allVars => CallsInv'
  BY StepCallsType, StepCache, StepPatience, StepWellInv DEF CallsInv
<1> QED
  BY <1>1, <1>2, CallsInit, PTL DEF CallsSpec

\* Every variable keeps to the values the code can give it, and activeMu is held
\* exactly by the call that waits for its query.
THEOREM CallsTypeCorrect == CallsSpec => []CallsTypeOK
<1>1. CallsInv => CallsTypeOK
  BY DEF CallsInv
<1> QED
  BY <1>1, CallsInvariance, PTL

\* All calls that name an active project name the same one.
THEOREM OneNameOnly == CallsSpec => []AnswersAgree
<1>1. CallsInv => AnswersAgree
  BY DEF CallsInv, CacheInv, AnswersAgree
<1> QED
  BY <1>1, CallsInvariance, PTL

\* cgateRun gives up on hindered calls only, whatever the time limits are as
\* long as it waits a second more than a read may take.
THEOREM AbandonedWereHindered == CallsSpec => []GivingUpIsEarned
<1>1. CallsInv => GivingUpIsEarned
  BY DEF CallsInv, PatienceInv, GivingUpIsEarned
<1> QED
  BY <1>1, CallsInvariance, PTL

\* A call whose session is in order throughout gets the name of a project, no
\* matter what became of the calls before it.
THEOREM HealthyCallsAreNamed == CallsSpec => []NamedWhenHealthy
<1>1. CallsInv => NamedWhenHealthy
  BY DEF CallsInv, WellInv, NamedWhenHealthy
<1> QED
  BY <1>1, CallsInvariance, PTL
=============================================================================
