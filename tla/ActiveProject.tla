---------------------------- MODULE ActiveProject ----------------------------
(***************************************************************************)
(* Asking C-Gate which project is in use, and giving up on it: the calls   *)
(* of activeProject of src/web/main.go with their mutex activeMu and the   *)
(* cached name, cgateRun with the goroutine it starts, the channel it      *)
(* waits on and its time limit, over the command session of                *)
(* CommandSession, whose requests are these calls.  CGATE_PROJECT is not   *)
(* set.                                                                    *)
(*                                                                         *)
(* The clock counts seconds.  The code is fast: time passes only when      *)
(* every goroutine waits, and C-Gate, while it is up, answers at once.     *)
(***************************************************************************)
EXTENDS CommandSession

CONSTANTS
  Project,       \* names of projects C-Gate may have in use
  NoName,        \* the empty name
  DialTimeout,   \* dialTimeout
  DrainTimeout,  \* the limit of the banner drain
  ReadDeadline,  \* commandReadDeadline, for each line of a reply
  Grace,         \* what cgateRun adds to it before it gives up
  MaxLoads       \* bound: times another project is put in use

ASSUME NoNameIsNoProject == NoName \notin Project
ASSUME LimitsAreNaturals ==
  /\ {DialTimeout, DrainTimeout, ReadDeadline, MaxLoads} \subseteq Nat
  /\ Grace \in Nat \ {0}

VARIABLES
  timer,         \* seconds left to what the holder of the session waits for
  call,          \* where each call of activeProject is
  patience,      \* seconds until its select gives up
  done,          \* per call: the goroutine's result is in the channel
  activeMu,      \* the call that holds it, or NoOwner
  activeCached,
  (* C-Gate. *)
  loaded,        \* the project in use, or NoName
  told,          \* per request: the project its reply names
  loads,         \* times another project was put in use
  (* History. *)
  said,          \* how each call ended
  named,         \* the name it returned
  hindered,      \* it waited for the session, dialled, or read several lines
  well           \* the session has been in order since the call began

callVars == <<call, patience, done, activeMu, activeCached, said, named>>
useVars  == <<loaded, told, loads>>
timeVars == <<timer, hindered>>
stepVars == <<vars, callVars, useVars, timeVars>>
allVars  == <<stepVars, well>>

Name    == Project \cup {NoName}
Endings == {"none", "cached", "skipped", "answered", "abandoned"}

InitCalls ==
  /\ timer = 0
  /\ call = [q \in Request |-> "idle"]
  /\ patience = [q \in Request |-> 0]
  /\ done = [q \in Request |-> FALSE]
  /\ activeMu = NoOwner
  /\ activeCached = NoName
  /\ loaded \in Name
  /\ told = [r \in Request |-> NoName]
  /\ loads = 0
  /\ said = [q \in Request |-> "none"]
  /\ named = [q \in Request |-> NoName]
  /\ hindered = [q \in Request |-> FALSE]
  /\ well = [q \in Request |-> FALSE]

-----------------------------------------------------------------------------
(* The command session, with its time limits. *)

\* The limit of what a holder of the session does next.
Limit(stage) ==
  CASE stage = "dial"  -> DialTimeout
    [] stage = "drain" -> DrainTimeout
    [] stage = "read"  -> ReadDeadline
    [] OTHER           -> 0

\* A dial that hangs, the drain, and a read from a live connection end in
\* failure only when their time is over.
InTime(c) ==
  \/ DialSucceeds(c)
  \/ WriteReaches(c) \/ WriteIsLost(c) \/ WriteFails(c)
  \/ ReadContinuation(c) \/ ReadLast(c)
  \/ DialFails(c) /\ (cgate = "hung" => timer = 0)
  \/ Drained(c) /\ (conn = "open" => timer = 0)
  \/ (ReadCutShort(c) \/ ReadFails(c)) /\ (conn = "open" => timer = 0)

\* The limit of what comes next starts to run.
Rearm(c) ==
  /\ timer' = Limit(pc'[c])
  /\ hindered' = [q \in Request |->
       hindered[q] \/ (q = c /\ (pc'[c] = "dial" \/ (pc[c] = "read" /\ pc'[c] = "read")))]
  /\ UNCHANGED <<callVars, useVars>>

SessionTaken(c) == Acquire(c) /\ Rearm(c)
SessionStep(c) == InTime(c) /\ Rearm(c)

\* The holder of the session waits for the network.
HolderWaits ==
  lock # NoOwner =>
    /\ timer > 0
    /\ \/ pc[lock] = "dial" /\ cgate = "hung"
       \/ pc[lock] = "drain" /\ conn = "open"
       \/ pc[lock] = "read" /\ conn = "open" /\ inbox = <<>>

CallWaits(q) ==
  /\ call[q] = "lock" => activeMu # NoOwner
  /\ call[q] = "wait" => patience[q] > 0 /\ ~done[q]
  /\ pc[q] = "done" => done[q]

\* Every goroutine waits.
Quiet ==
  /\ HolderWaits
  /\ \A c \in Caller : pc[c] \in {"lock", "relock"} => lock # NoOwner
  /\ \A q \in Request : CallWaits(q)
  /\ cgate = "up" /\ conn = "open" => pending = <<>>

Rebuild ==
  /\ BeginRebuild
  /\ timer' = DialTimeout
  /\ UNCHANGED <<callVars, useVars, hindered>>

\* C-Gate answers PROJECT USE with the project in use at that moment.
Reply ==
  /\ \E last \in BOOLEAN : Emit(last)
  /\ told' = [r \in Request |-> IF r = Head(pending) THEN loaded ELSE told[r]]
  /\ UNCHANGED <<callVars, timeVars, loaded, loads>>

Faults ==
  /\ Hang \/ Resume \/ Crash \/ Start
  /\ UNCHANGED <<callVars, useVars, timeVars>>

\* Another project is put in use.
Use(p) ==
  /\ loads < MaxLoads
  /\ p # loaded
  /\ loads' = loads + 1
  /\ loaded' = p
  /\ UNCHANGED <<vars, callVars, timeVars, told>>

-----------------------------------------------------------------------------
(* activeProject and cgateRun *)

Wants(q) ==
  /\ call[q] = "idle"
  /\ call' = [call EXCEPT ![q] = "lock"]
  /\ UNCHANGED <<vars, patience, done, activeMu, activeCached, said, named, useVars, timeVars>>

Ends(q, how, name) ==
  /\ call' = [call EXCEPT ![q] = "done"]
  /\ patience' = [patience EXCEPT ![q] = 0]
  /\ said' = [said EXCEPT ![q] = how]
  /\ named' = [named EXCEPT ![q] = name]

\* activeMu is locked and released again: the name is cached, or there is no
\* session to ask.
EndsAtOnce(q) ==
  /\ call[q] = "lock"
  /\ activeMu = NoOwner
  /\ \/ activeCached # NoName /\ Ends(q, "cached", activeCached)
     \/ activeCached = NoName /\ ~commandUp /\ Ends(q, "skipped", NoName)
  /\ UNCHANGED <<vars, done, activeMu, activeCached, useVars, timeVars>>

\* Mutant of StartsQuery: activeMu is not held over the query.
StartsUnlocked(q) ==
  /\ call[q] = "lock"
  /\ activeMu = NoOwner
  /\ activeCached = NoName
  /\ commandUp
  /\ Ask(q)
  /\ call' = [call EXCEPT ![q] = "wait"]
  /\ patience' = [patience EXCEPT ![q] = ReadDeadline + Grace]
  /\ UNCHANGED <<done, activeMu, activeCached, said, named, useVars, timeVars>>

\* Mutant of StartsQuery: cgateRun waits no longer than the session.
StartsHasty(q) ==
  /\ call[q] = "lock"
  /\ activeMu = NoOwner
  /\ activeCached = NoName
  /\ commandUp
  /\ activeMu' = q
  /\ Ask(q)
  /\ call' = [call EXCEPT ![q] = "wait"]
  /\ patience' = [patience EXCEPT ![q] = ReadDeadline]
  /\ UNCHANGED <<done, activeCached, said, named, useVars, timeVars>>

\* The session counts as up: cgateRun starts the goroutine and waits.
StartsQuery(q) ==
  /\ call[q] = "lock"
  /\ activeMu = NoOwner
  /\ activeCached = NoName
  /\ commandUp
  /\ activeMu' = q
  /\ Ask(q)
  /\ call' = [call EXCEPT ![q] = "wait"]
  /\ patience' = [patience EXCEPT ![q] = ReadDeadline + Grace]
  /\ UNCHANGED <<done, activeCached, said, named, useVars, timeVars>>

\* Mutant of Reports: the channel has no buffer.
ReportsUnbuffered(q) ==
  /\ pc[q] = "done"
  /\ call[q] = "wait"
  /\ ~done[q]
  /\ done' = [done EXCEPT ![q] = TRUE]
  /\ UNCHANGED <<vars, call, patience, activeMu, activeCached, said, named, useVars, timeVars>>

\* The goroutine puts its result in the channel, which has room for it.
Reports(q) ==
  /\ pc[q] = "done"
  /\ ~done[q]
  /\ done' = [done EXCEPT ![q] = TRUE]
  /\ UNCHANGED <<vars, call, patience, activeMu, activeCached, said, named, useVars, timeVars>>

\* projectFromUseReply, of the lines this call was answered with.
NamesIn(q) ==
  {told[r] : r \in answer[q] \cap Request} \ {NoName}

\* Mutant of Receives: no name is an answer to be kept as well.
ReceivesBlank(q) ==
  /\ call[q] = "wait"
  /\ done[q]
  /\ \E p \in IF NamesIn(q) = {} THEN {"blank"} ELSE NamesIn(q) :
       /\ Ends(q, "answered", IF p = "blank" THEN NoName ELSE p)
       /\ activeCached' = p
  /\ activeMu' = NoOwner
  /\ UNCHANGED <<vars, done, useVars, timeVars>>

\* The result comes out of the channel.  A name is cached, nothing else is.
Receives(q) ==
  /\ call[q] = "wait"
  /\ done[q]
  /\ \/ /\ \E p \in NamesIn(q) :
             Ends(q, "answered", p) /\ activeCached' = p
     \/ /\ NamesIn(q) = {}
        /\ Ends(q, "answered", NoName)
        /\ UNCHANGED activeCached
  /\ activeMu' = NoOwner
  /\ UNCHANGED <<vars, done, useVars, timeVars>>

\* Mutant of GivesUp: activeMu stays locked.
GivesUpLocked(q) ==
  /\ call[q] = "wait"
  /\ patience[q] = 0
  /\ Ends(q, "abandoned", NoName)
  /\ UNCHANGED <<vars, done, activeMu, activeCached, useVars, timeVars>>

\* time.After(abandon) fires.  The goroutine goes on.
GivesUp(q) ==
  /\ call[q] = "wait"
  /\ patience[q] = 0
  /\ Ends(q, "abandoned", NoName)
  /\ activeMu' = NoOwner
  /\ UNCHANGED <<vars, done, activeCached, useVars, timeVars>>

-----------------------------------------------------------------------------
(* The clock. *)

Second ==
  /\ Quiet
  /\ timer' = IF timer > 0 THEN timer - 1 ELSE 0
  /\ patience' = [q \in Request |-> IF call[q] = "wait" THEN patience[q] - 1 ELSE patience[q]]
  /\ hindered' = [q \in Request |-> hindered[q] \/ pc[q] = "lock"]
  /\ UNCHANGED <<call, done, activeMu, activeCached, said, named, useVars>>

Tick ==
  /\ timer > 0 \/ \E q \in Request : call[q] = "wait"
  /\ Second
  /\ UNCHANGED vars

\* maintain wakes from a sleep of dialRetryInterval.
Wakes ==
  /\ PollDown \/ PollHeartbeat \/ HeartbeatDue
  /\ Second

-----------------------------------------------------------------------------
CallStep(q) ==
  \/ Wants(q)
  \/ EndsAtOnce(q) \/ StartsQuery(q)
  \/ Reports(q) \/ Receives(q) \/ GivesUp(q)

Steps ==
  \/ \E c \in Caller : SessionTaken(c) \/ SessionStep(c)
  \/ Rebuild
  \/ Reply \/ Faults \/ (\E p \in Name : Use(p))
  \/ \E q \in Request : CallStep(q)
  \/ Tick \/ Wakes

\* The session is up on a clean connection, and there is a project to name.
InOrder ==
  /\ cgate = "up" /\ conn = "open" /\ commandUp /\ ~skewed
  /\ loaded # NoName

CallsNext ==
  /\ Steps
  /\ well' = [q \in Request |->
                CASE call[q] = "idle" -> call'[q] = "lock" /\ InOrder
                  [] call[q] = "done" -> well[q]
                  [] OTHER            -> well[q] /\ InOrder']

CallsSpec == Init /\ InitCalls /\ [][CallsNext]_allVars

\* Goroutines run, C-Gate answers while it is up, and time passes.  A mutex
\* needs no more than that here: maintain sleeps before it comes back, and there
\* are finitely many calls.
CallsFairness ==
  /\ \A c \in Caller : WF_stepVars(SessionTaken(c)) /\ WF_stepVars(SessionStep(c))
  /\ WF_stepVars(Rebuild)
  /\ WF_stepVars(Reply)
  /\ \A q \in Request :
       /\ WF_stepVars(EndsAtOnce(q) \/ StartsQuery(q))
       /\ WF_stepVars(Reports(q))
       /\ WF_stepVars(Receives(q) \/ GivesUp(q))
  /\ WF_stepVars(Tick \/ Wakes)

FairCallsSpec == CallsSpec /\ CallsFairness

-----------------------------------------------------------------------------
(* Properties. *)

\* Every variable keeps to the values the code can give it, and activeMu is
\* held exactly by the call that waits for its query.
CallsTypeOK ==
  /\ timer \in Nat
  /\ call \in [Request -> {"idle", "lock", "wait", "done"}]
  /\ patience \in [Request -> Nat]
  /\ done \in [Request -> BOOLEAN]
  /\ activeMu \in Request \cup {NoOwner}
  /\ activeCached \in Name
  /\ loaded \in Name
  /\ told \in [Request -> Name]
  /\ loads \in 0 .. MaxLoads
  /\ said \in [Request -> Endings]
  /\ named \in [Request -> Name]
  /\ hindered \in [Request -> BOOLEAN]
  /\ well \in [Request -> BOOLEAN]
  /\ \A q \in Request : call[q] = "wait" <=> activeMu = q

\* All listings that name an active project name the same one, whatever
\* project is put in use, and however late a reply comes: the first name stays
\* (main.go 447-463).
AnswersAgree ==
  \A p, q \in Request : named[p] # NoName /\ named[q] # NoName => named[p] = named[q]

\* cgateRun gives up only on a call that had to wait for the session, to dial,
\* or to read more than one line: otherwise "the session's own deadline" fires
\* first (main.go 593-604).
GivingUpIsEarned ==
  \A q \in Request : said[q] = "abandoned" => hindered[q]

\* "The session's own deadline should fire first; this only catches a goroutine
\* that never gets the session lock at all" (main.go 593-594).  That both are
\* over in the same second is let pass.
GivesUpWithoutLockOnly ==
  [][\A q \in Request :
       said[q] = "none" /\ said'[q] = "abandoned" => pc[q] = "lock" \/ timer = 0]_allVars

\* With a project in use and the session in order from its start to its end, a
\* call gets a name, no matter how many have failed before it (main.go 444-446:
\* "a failed query is not" cached).
NamedWhenHealthy ==
  \A q \in Request : call[q] = "done" /\ well[q] => named[q] \in Project

\* A listing is answered whatever C-Gate does, so nobody waits for activeMu
\* forever; and a goroutine whose call has given up on it ends all the same
\* (main.go 452-462, 568-571, 587).
CallsEnd ==
  \A q \in Request :
    call[q] = "lock" ~> call[q] = "done" /\ (pc[q] # "idle" => done[q])
=============================================================================
