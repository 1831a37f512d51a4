--------------------------- MODULE CommandSession ---------------------------
(***************************************************************************)
(* The persistent command connection of the bridge: type commandSession of *)
(* src/web/main.go, with its mutex, its lock-free flag commandUp, the      *)
(* senders that share it (every /cgate request and every cgateRun          *)
(* goroutine, each of which runs send once) and the goroutine maintain     *)
(* that rebuilds it.                                                       *)
(*                                                                         *)
(* One step is what the code does between two points where another         *)
(* goroutine, or C-Gate, can come in between: waiting for the mutex,       *)
(* dialling, draining the banner, writing, and each line of the reply.     *)
(*                                                                         *)
(* C-Gate is not part of the repository.  It is the environment: it        *)
(* greets, answers the commands of a connection in order with one or more  *)
(* lines, and may hang, resume, crash and start.                           *)
(***************************************************************************)
EXTENDS Naturals, Sequences

CONSTANTS
  Request,          \* the calls of send made by HTTP handlers
  Maintainer,       \* the goroutine running maintain
  NoOwner,          \* value of lock when s.mu is free
  Banner,           \* what C-Gate sends on connect, not owed to any caller
  MaxContinuation,  \* bound: continuation lines ("123-...") of one reply
  MaxFaults         \* bound: times C-Gate hangs or crashes

Caller == Request \cup {Maintainer}

ASSUME CallersDistinct ==
  /\ Maintainer \notin Request
  /\ NoOwner \notin Caller
  /\ Banner \notin Caller
ASSUME BoundsAreNaturals == MaxContinuation \in Nat /\ MaxFaults \in Nat

VARIABLES
  (* The session. *)
  lock,       \* s.mu: the caller that holds it, or NoOwner
  conn,       \* s.conn: "nil", "open", or "closed" when the far end is gone
  commandUp,  \* the atomic flag
  (* The callers. *)
  pc,         \* where each caller is
  site,       \* which call the holder is in: "first", "resend", "rebuild"
  reply,      \* the commands whose lines the holder has read so far
  due,        \* nextHeartbeat has passed
  (* C-Gate and the connection to it. *)
  cgate,      \* "up", "hung" (accepts, does not answer) or "down"
  pending,    \* the banner and the commands C-Gate has yet to answer, in order
  continued,  \* continuation lines already sent for the head of pending
  inbox,      \* the lines that arrived and are not read yet
  faults,     \* hangs and crashes so far
  (* History. *)
  outcome,    \* how send returned, per request
  answer,     \* the commands whose lines each request was answered with
  delivered,  \* copies of each request's command handed to C-Gate
  skewed      \* lines of this connection may answer an earlier command

session == <<lock, conn, commandUp>>
link    == <<pending, continued, inbox>>
history == <<outcome, answer, delivered>>
vars == <<lock, conn, commandUp, pc, site, reply, due, cgate, pending,
          continued, inbox, faults, outcome, answer, delivered, skewed>>

Critical     == {"dial", "drain", "write", "read"}
SenderStages == Critical \cup {"idle", "lock", "done"}
MaintStages  == Critical \cup {"poll", "lock", "relock"}
Outcomes == {"none", "ok", "dialErr", "writeErr", "readErr"}
Refusals == {"dialErr", "writeErr"}

Line == [of : Caller \cup {Banner}, last : BOOLEAN]

Init ==
  /\ lock = NoOwner
  /\ conn = "nil"
  /\ commandUp = FALSE
  /\ pc = [c \in Caller |-> IF c = Maintainer THEN "poll" ELSE "idle"]
  /\ site = "first"
  /\ reply = {}
  /\ due = FALSE
  /\ cgate \in {"up", "down"}
  /\ pending = <<>>
  /\ continued = 0
  /\ inbox = <<>>
  /\ faults = 0
  /\ outcome = [r \in Request |-> "none"]
  /\ answer = [r \in Request |-> {}]
  /\ delivered = [r \in Request |-> 0]
  /\ skewed = FALSE

-----------------------------------------------------------------------------
(* Pieces of the handlers. *)

Goto(c, stage) == pc' = [pc EXCEPT ![c] = stage]

\* No line is there to read and none comes before the read deadline: C-Gate is
\* not answering, its end is closed, or it owes nothing.
Silent ==
  /\ inbox = <<>>
  /\ \/ cgate # "up"
     \/ conn = "closed"
     \/ pending = <<>>

\* Mutant of Drop: the flag is left up over a closed connection.
DropKeepsFlag ==
  /\ commandUp' = commandUp
  /\ conn' = "nil"
  /\ pending' = <<>>
  /\ continued' = 0
  /\ inbox' = <<>>
  /\ skewed' = FALSE

\* drop(): whatever was still to come on the connection is gone with it.
Drop ==
  /\ commandUp' = FALSE
  /\ conn' = "nil"
  /\ pending' = <<>>
  /\ continued' = 0
  /\ inbox' = <<>>
  /\ skewed' = FALSE

\* Mutant of Return: the first noop ends the goroutine of maintain.
ReturnEndsMaintain(c, result, lines) ==
  /\ lock' = NoOwner
  /\ Goto(c, "done")
  /\ outcome' = [r \in Request |-> IF r = c THEN result ELSE outcome[r]]
  /\ answer' = [r \in Request |-> IF r = c THEN lines ELSE answer[r]]
  /\ due' = (due /\ c # Maintainer)

\* send returns to its caller and the deferred Unlock runs.  maintain resets
\* nextHeartbeat whether its noop succeeded or not.
Return(c, result, lines) ==
  /\ lock' = NoOwner
  /\ Goto(c, IF c = Maintainer THEN "poll" ELSE "done")
  /\ outcome' = [r \in Request |-> IF r = c THEN result ELSE outcome[r]]
  /\ answer' = [r \in Request |-> IF r = c THEN lines ELSE answer[r]]
  /\ due' = (due /\ c # Maintainer)

-----------------------------------------------------------------------------
(* maintain() *)

\* The flag is read without the mutex.
PollDown ==
  /\ pc[Maintainer] = "poll"
  /\ ~commandUp
  /\ Goto(Maintainer, "relock")
  /\ UNCHANGED <<session, site, reply, due, cgate, link, faults, history, skewed>>

\* Mutant of PollHeartbeat: the heartbeat trusts the flag and sends nothing.
PollTrustsFlag ==
  /\ pc[Maintainer] = "poll"
  /\ commandUp
  /\ due
  /\ due' = FALSE
  /\ UNCHANGED <<session, pc, site, reply, cgate, link, faults, history, skewed>>

PollHeartbeat ==
  /\ pc[Maintainer] = "poll"
  /\ commandUp
  /\ due
  /\ Goto(Maintainer, "lock")
  /\ UNCHANGED <<session, site, reply, due, cgate, link, faults, history, skewed>>

\* commandHeartbeat passes while maintain polls.
HeartbeatDue ==
  /\ pc[Maintainer] = "poll"
  /\ ~due
  /\ due' = TRUE
  /\ UNCHANGED <<session, pc, site, reply, cgate, link, faults, history, skewed>>

\* s.mu.Lock(); s.drop() -- whatever the session is by now.
BeginRebuild ==
  /\ pc[Maintainer] = "relock"
  /\ lock = NoOwner
  /\ lock' = Maintainer
  /\ Drop
  /\ Goto(Maintainer, "dial")
  /\ site' = "rebuild"
  /\ UNCHANGED <<reply, due, cgate, faults, history>>

-----------------------------------------------------------------------------
(* sendWithin() *)

\* A handler, or a cgateRun goroutine, calls send.
Ask(r) ==
  /\ pc[r] = "idle"
  /\ Goto(r, "lock")
  /\ UNCHANGED <<session, site, reply, due, cgate, link, faults, history, skewed>>

\* Mutant of Acquire: sendWithin does not take the mutex.
AcquireUnlocked(c) ==
  /\ pc[c] = "lock"
  /\ lock' = c
  /\ Goto(c, IF conn = "nil" THEN "dial" ELSE "write")
  /\ site' = "first"
  /\ reply' = {}
  /\ UNCHANGED <<conn, commandUp, due, cgate, link, faults, history, skewed>>

Acquire(c) ==
  /\ pc[c] = "lock"
  /\ lock = NoOwner
  /\ lock' = c
  /\ Goto(c, IF conn = "nil" THEN "dial" ELSE "write")
  /\ site' = "first"
  /\ reply' = {}
  /\ UNCHANGED <<conn, commandUp, due, cgate, link, faults, history, skewed>>

\* connect(): the dial succeeds, and C-Gate owes its banner.
DialSucceeds(c) ==
  /\ pc[c] = "dial"
  /\ cgate # "down"
  /\ conn' = "open"
  /\ pending' = <<Banner>>
  /\ continued' = 0
  /\ inbox' = <<>>
  /\ Goto(c, "drain")
  /\ UNCHANGED <<lock, commandUp, site, reply, due, cgate, faults, history, skewed>>

\* Mutant of DialFails: the dial is retried with the mutex held.
DialForever(c) ==
  /\ pc[c] = "dial"
  /\ cgate # "up"
  /\ UNCHANGED vars

\* connect() reports a dial that is refused or times out.  A sender returns
\* the error; maintain unlocks and sleeps until its next poll.
DialFails(c) ==
  /\ pc[c] = "dial"
  /\ cgate # "up"
  /\ \/ /\ site # "rebuild"
        /\ Return(c, "dialErr", {})
     \/ /\ site = "rebuild"
        /\ lock' = NoOwner
        /\ Goto(c, "poll")
        /\ UNCHANGED <<due, outcome, answer>>
  /\ UNCHANGED <<conn, commandUp, site, reply, cgate, link, faults, delivered, skewed>>

\* connect(): the drain reads lines until a read fails, at its two-second
\* deadline or because the far end closed; every error ends it alike, and the
\* session counts as up.  A banner still owed by then is left to the next read.
Drained(c) ==
  /\ pc[c] = "drain"
  /\ \/ pending = <<>>
     \/ cgate # "up"
     \/ conn = "closed"
  /\ inbox' = <<>>
  /\ skewed' = (pending # <<>>)
  /\ commandUp' = TRUE
  /\ \/ /\ site # "rebuild"
        /\ Goto(c, "write")
        /\ UNCHANGED <<lock, due>>
     \/ /\ site = "rebuild"
        /\ lock' = NoOwner
        /\ Goto(c, "poll")
        /\ due' = FALSE
  /\ UNCHANGED <<conn, site, reply, cgate, pending, continued, faults, history>>

\* Fprintf succeeds and the command reaches C-Gate.
WriteReaches(c) ==
  /\ pc[c] = "write"
  /\ conn = "open"
  /\ pending' = Append(pending, c)
  /\ delivered' = [r \in Request |-> IF r = c THEN delivered[r] + 1 ELSE delivered[r]]
  /\ Goto(c, "read")
  /\ UNCHANGED <<session, site, reply, due, cgate, continued, inbox, faults,
                 outcome, answer, skewed>>

\* Fprintf succeeds into the kernel's buffer although the far end is gone.
WriteIsLost(c) ==
  /\ pc[c] = "write"
  /\ conn = "closed"
  /\ Goto(c, "read")
  /\ UNCHANGED <<session, site, reply, due, cgate, link, faults, history, skewed>>

\* Fprintf fails: reconnect and resend once, then give up.
WriteFails(c) ==
  /\ pc[c] = "write"
  /\ conn = "closed"
  /\ Drop
  /\ \/ /\ site = "first"
        /\ site' = "resend"
        /\ Goto(c, "dial")
        /\ UNCHANGED <<lock, due, outcome, answer>>
     \/ /\ site = "resend"
        /\ Return(c, "writeErr", {})
        /\ UNCHANGED site
  /\ UNCHANGED <<reply, cgate, faults, delivered>>

\* Mutant of ReadContinuation: any line ends the reply.
ReadFirstLine(c) ==
  /\ pc[c] = "read"
  /\ inbox # <<>>
  /\ ~Head(inbox).last
  /\ reply' = reply \cup {Head(inbox).of}
  /\ inbox' = Tail(inbox)
  /\ Return(c, "ok", reply \cup {Head(inbox).of})
  /\ UNCHANGED <<conn, commandUp, site, cgate, pending, continued, faults,
                 delivered, skewed>>

ReadContinuation(c) ==
  /\ pc[c] = "read"
  /\ inbox # <<>>
  /\ ~Head(inbox).last
  /\ reply' = reply \cup {Head(inbox).of}
  /\ inbox' = Tail(inbox)
  /\ UNCHANGED <<session, pc, site, due, cgate, pending, continued, faults,
                 history, skewed>>

ReadLast(c) ==
  /\ pc[c] = "read"
  /\ inbox # <<>>
  /\ Head(inbox).last
  /\ reply' = reply \cup {Head(inbox).of}
  /\ inbox' = Tail(inbox)
  /\ Return(c, "ok", reply \cup {Head(inbox).of})
  /\ UNCHANGED <<conn, commandUp, site, cgate, pending, continued, faults,
                 delivered, skewed>>

\* The read fails after some lines: they are returned as the response and the
\* connection is kept.
ReadCutShort(c) ==
  /\ pc[c] = "read"
  /\ Silent
  /\ reply # {}
  /\ skewed' = (skewed \/ pending # <<>>)
  /\ Return(c, "ok", reply)
  /\ UNCHANGED <<conn, commandUp, site, reply, cgate, link, faults, delivered>>

\* Mutant of ReadFails: a command without an answer is resent once.
ReadFailsResends(c) ==
  /\ pc[c] = "read"
  /\ Silent
  /\ reply = {}
  /\ Drop
  /\ \/ /\ site = "first"
        /\ site' = "resend"
        /\ Goto(c, "dial")
        /\ UNCHANGED <<lock, due, outcome, answer>>
     \/ /\ site = "resend"
        /\ Return(c, "readErr", {})
        /\ UNCHANGED site
  /\ UNCHANGED <<reply, cgate, faults, delivered>>

\* The read fails before any line: drop the session, do not resend.
ReadFails(c) ==
  /\ pc[c] = "read"
  /\ Silent
  /\ reply = {}
  /\ Drop
  /\ Return(c, "readErr", {})
  /\ UNCHANGED <<site, reply, cgate, faults, delivered>>

-----------------------------------------------------------------------------
(* C-Gate, the environment. *)

\* The next line of the head of pending.  The banner is a single line.
Emit(last) ==
  /\ cgate = "up"
  /\ conn = "open"
  /\ pending # <<>>
  /\ inbox' = Append(inbox, [of |-> Head(pending), last |-> last])
  /\ \/ /\ last
        /\ pending' = Tail(pending)
        /\ continued' = 0
     \/ /\ ~last
        /\ Head(pending) # Banner
        /\ continued < MaxContinuation
        /\ continued' = continued + 1
        /\ UNCHANGED pending
  /\ UNCHANGED <<session, pc, site, reply, due, cgate, faults, history, skewed>>

Hang ==
  /\ cgate = "up"
  /\ faults < MaxFaults
  /\ faults' = faults + 1
  /\ cgate' = "hung"
  /\ UNCHANGED <<session, pc, site, reply, due, link, history, skewed>>

Resume ==
  /\ cgate = "hung"
  /\ cgate' = "up"
  /\ UNCHANGED <<session, pc, site, reply, due, link, faults, history, skewed>>

\* The process dies: commands it had not answered are never answered, and the
\* lines on their way arrive or are discarded by the reset.
Crash ==
  /\ cgate # "down"
  /\ faults < MaxFaults
  /\ faults' = faults + 1
  /\ cgate' = "down"
  /\ conn' = IF conn = "open" THEN "closed" ELSE conn
  /\ pending' = <<>>
  /\ continued' = 0
  /\ inbox' \in {inbox, <<>>}
  /\ UNCHANGED <<lock, commandUp, pc, site, reply, due, history, skewed>>

Start ==
  /\ cgate = "down"
  /\ cgate' = "up"
  /\ UNCHANGED <<session, pc, site, reply, due, link, faults, history, skewed>>

-----------------------------------------------------------------------------
\* What a caller does without waiting for the mutex.
Step(c) ==
  \/ DialSucceeds(c) \/ DialFails(c)
  \/ Drained(c)
  \/ WriteReaches(c) \/ WriteIsLost(c) \/ WriteFails(c)
  \/ ReadContinuation(c) \/ ReadLast(c) \/ ReadCutShort(c) \/ ReadFails(c)

Maintain == PollDown \/ PollHeartbeat \/ HeartbeatDue \/ BeginRebuild

CGate == (\E last \in BOOLEAN : Emit(last)) \/ Hang \/ Resume \/ Crash \/ Start

Next ==
  \/ \E r \in Request : Ask(r)
  \/ \E c \in Caller : Acquire(c) \/ Step(c)
  \/ Maintain
  \/ CGate

Spec == Init /\ [][Next]_vars

\* Goroutines are scheduled, deadlines fire, and a sync.Mutex hands over to a
\* waiter that has starved for a millisecond, so nobody waits for it forever
\* while it keeps being released.  C-Gate answers while it is up; that it
\* hangs, recovers, crashes or starts is never promised.
Fairness ==
  /\ \A c \in Caller : WF_vars(Step(c)) /\ SF_vars(Acquire(c))
  /\ SF_vars(BeginRebuild)
  /\ WF_vars(PollDown)
  /\ WF_vars(PollHeartbeat)
  /\ WF_vars(HeartbeatDue)
  /\ WF_vars(\E last \in BOOLEAN : Emit(last))

FairSpec == Spec /\ Fairness

-----------------------------------------------------------------------------
(* What a sender sees of the session. *)
Service == INSTANCE CommandService
             WITH asked <- {r \in Request : pc[r] # "idle"}

-----------------------------------------------------------------------------
(* Properties. *)

\* Every variable keeps to the values the code can give it.
TypeOK ==
  /\ lock \in Caller \cup {NoOwner}
  /\ conn \in {"nil", "open", "closed"}
  /\ commandUp \in BOOLEAN
  /\ pc \in [Caller -> SenderStages \cup MaintStages]
  /\ pc[Maintainer] \in MaintStages
  /\ \A r \in Request : pc[r] \in SenderStages
  /\ site \in {"first", "resend", "rebuild"}
  /\ reply \in SUBSET (Caller \cup {Banner})
  /\ due \in BOOLEAN
  /\ cgate \in {"up", "hung", "down"}
  /\ pending \in Seq(Caller \cup {Banner})
  /\ continued \in 0 .. MaxContinuation
  /\ inbox \in Seq(Line)
  /\ faults \in 0 .. MaxFaults
  /\ outcome \in [Request -> Outcomes]
  /\ answer \in [Request -> SUBSET (Caller \cup {Banner})]
  /\ delivered \in [Request -> Nat]
  /\ skewed \in BOOLEAN

\* The flag that /ready and cgateRun read without the mutex never claims a
\* session that has no connection, and whenever the mutex is free it says
\* exactly whether there is one (connect and drop, main.go 199-237).
FlagTellsSession ==
  /\ commandUp => conn # "nil"
  /\ lock = NoOwner => (commandUp <=> conn # "nil")

\* A command reaches C-Gate at most once, and one whose request was refused
\* with a dial or write error has not reached it at all: the resend after a
\* failed write never repeats a command C-Gate may have run (main.go 298-328).
AtMostOnce ==
  \A r \in Request :
    /\ delivered[r] <= 1
    /\ outcome[r] \in Refusals => delivered[r] = 0

\* A caller that reads from an open connection is owed a last line: it never
\* runs into the read deadline because somebody else took its reply
\* (main.go 314-338).
ReplyIsOwed ==
  \A c \in Caller :
    pc[c] = "read" /\ conn = "open" =>
      \/ pending # <<>>
      \/ \E i \in DOMAIN inbox : inbox[i].last

\* On a connection with no late banner and no reply cut short before, send
\* succeeds only with lines of its own command, which C-Gate got exactly once.
\* So those two events (main.go 206-212 and 319-321) are the only origins of a
\* response that belongs to another command.
CleanConnectionAnswersOwn ==
  [][\A r \in Request :
       outcome[r] = "none" /\ outcome'[r] = "ok" /\ ~skewed =>
         answer'[r] = {r} /\ delivered[r] = 1]_vars

\* The session, whatever its connections go through, is the command service of
\* module CommandService: in particular no command reaches C-Gate after its
\* request has been answered, and an answer is final (sendWithin, main.go
\* 284-341).
RefinesService == Service!Spec

\* The response a request gets is the response to its command (README.md 32).
ReplyMatches ==
  \A r \in Request : outcome[r] = "ok" => answer[r] = {r}

\* A request is always answered, whatever C-Gate does: none waits out an
\* outage behind the mutex (main.go 223-228, README.md 135-137).
RequestsAnswered ==
  \A r \in Request : pc[r] = "lock" ~> pc[r] = "done"

\* Once C-Gate stays up, the session is rebuilt and stays up, without a
\* request to trigger it, even if the flag was up over a dead connection
\* (main.go 239-275, README.md 135-137).
Recovers ==
  <>[](cgate = "up") => <>[](commandUp /\ conn = "open")
=============================================================================
