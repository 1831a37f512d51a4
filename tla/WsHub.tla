-------------------------------- MODULE WsHub --------------------------------
(***************************************************************************)
(* The hub that fans lines out to the browsers: type wsHub and handleWS of *)
(* src/web/main.go, with its sync.RWMutex, the goroutines that broadcast   *)
(* (the two streams and the /cgate handlers), the handler of each          *)
(* WebSocket and the goroutines that broadcast starts to remove a client.  *)
(*                                                                         *)
(* The RWMutex is modelled with the order of the Go implementation: one    *)
(* writer at a time announces itself, from then on readers queue, and its  *)
(* unlock lets the queued readers in before the next writer.               *)
(*                                                                         *)
(* A browser reads, stalls (its socket buffers are full and a write        *)
(* blocks) or is gone, which means that the bridge's kernel knows it: a    *)
(* read and a write fail.  Until it knows, the browser counts as reading.  *)
(***************************************************************************)
EXTENDS Naturals, FiniteSets

CONSTANTS
  Client,       \* the WebSocket connections
  Broadcaster,  \* the goroutines that call broadcast
  NoWriter,     \* value of announced when no writer holds or awaits h.mu
  NoClient,     \* value of writing between two writes
  MaxLines,     \* bound: lines each broadcaster sends
  MaxStalls     \* bound: times a browser stalls

ASSUME NoValuesAreDistinct ==
  /\ NoWriter \notin {"add", "remove"} \X Client
  /\ NoClient \notin Client
ASSUME BoundsAreNaturals == MaxLines \in Nat /\ MaxStalls \in Nat

VARIABLES
  clients,    \* h.clients
  announced,  \* the writer that holds h.mu's writer slot, as <<op, client>>
  caster,     \* per broadcaster: "idle", "queued" for RLock, or "sending"
  todo,       \* per broadcaster: clients its loop has not come to yet
  writing,    \* per broadcaster: the client it is in ws.Write for, or NoClient
  sent,       \* per broadcaster: lines broadcast so far
  handler,    \* per client: "new", "adding", "reading" or "ended"
  removers,   \* per client: goroutines inside remove that wait for h.mu
  closers,    \* per client: goroutines between remove's unlock and ws.Close
  closes,     \* per client: calls of ws.Close
  browser,    \* per client: "reads", "stalls" or "gone"
  stalls      \* stalls so far

vars == <<clients, announced, caster, todo, writing, sent, handler, removers, closers,
          closes, browser, stalls>>

Init ==
  /\ clients = {}
  /\ announced = NoWriter
  /\ caster = [b \in Broadcaster |-> "idle"]
  /\ todo = [b \in Broadcaster |-> {}]
  /\ writing = [b \in Broadcaster |-> NoClient]
  /\ sent = [b \in Broadcaster |-> 0]
  /\ handler = [c \in Client |-> "new"]
  /\ removers = [c \in Client |-> 0]
  /\ closers = [c \in Client |-> 0]
  /\ closes = [c \in Client |-> 0]
  /\ browser = [c \in Client |-> "reads"]
  /\ stalls = 0

-----------------------------------------------------------------------------
(* The RWMutex. *)

Readers == {b \in Broadcaster : caster[b] = "sending"}

\* The number of goroutines that want the writer side for op on c.
Wanting(op, c) ==
  IF op = "add" THEN IF handler[c] = "adding" THEN 1 ELSE 0 ELSE removers[c]

\* mu.Lock() of one of them: it takes the writer slot, and new readers queue.
Announce(op, c) ==
  /\ announced = NoWriter
  /\ Wanting(op, c) > 0
  /\ announced' = <<op, c>>
  /\ UNCHANGED <<clients, caster, todo, writing, sent, handler, removers, closers,
                 closes, browser, stalls>>

\* The announced writer has the lock: the last reader has left.
Exclusive(op, c) ==
  /\ announced = <<op, c>>
  /\ Readers = {}

\* mu.Unlock(): the queued readers come in, and range over what is there now.
Unlock ==
  /\ announced' = NoWriter
  /\ caster' = [b \in Broadcaster |->
                  IF caster[b] = "queued" THEN "sending" ELSE caster[b]]
  /\ todo' = [b \in Broadcaster |->
                IF caster[b] = "queued" THEN clients' ELSE todo[b]]

-----------------------------------------------------------------------------
(* handleWS, add and remove *)

Connect(c) ==
  /\ handler[c] = "new"
  /\ handler' = [handler EXCEPT ![c] = "adding"]
  /\ UNCHANGED <<clients, announced, caster, todo, writing, sent, removers, closers,
                 closes, browser, stalls>>

Add(c) ==
  /\ Exclusive("add", c)
  /\ clients' = clients \cup {c}
  /\ handler' = [handler EXCEPT ![c] = "reading"]
  /\ Unlock
  /\ UNCHANGED <<writing, sent, removers, closers, closes, browser, stalls>>

\* Mutant of ReadEnds: the deferred remove is missing.
ReadEndsKeepsClient(c) ==
  /\ handler[c] = "reading"
  /\ browser[c] = "gone" \/ closes[c] > 0
  /\ handler' = [handler EXCEPT ![c] = "ended"]
  /\ UNCHANGED <<clients, announced, caster, todo, writing, sent, removers, closers,
                 closes, browser, stalls>>

\* ws.Read fails, because the browser is gone or remove has closed ws; the
\* deferred hub.remove(ws) begins.
ReadEnds(c) ==
  /\ handler[c] = "reading"
  /\ browser[c] = "gone" \/ closes[c] > 0
  /\ handler' = [handler EXCEPT ![c] = "ended"]
  /\ removers' = [removers EXCEPT ![c] = @ + 1]
  /\ UNCHANGED <<clients, announced, caster, todo, writing, sent, closers, closes,
                 browser, stalls>>

\* Mutant of Remove: every caller of remove closes the connection.
RemoveClosesAlways(c) ==
  /\ Exclusive("remove", c)
  /\ clients' = clients \ {c}
  /\ removers' = [removers EXCEPT ![c] = @ - 1]
  /\ closers' = [closers EXCEPT ![c] = @ + 1]
  /\ Unlock
  /\ UNCHANGED <<writing, sent, handler, closes, browser, stalls>>

\* Mutant of Remove: the client leaves the map and is never closed.
RemoveForgetsClose(c) ==
  /\ Exclusive("remove", c)
  /\ clients' = clients \ {c}
  /\ removers' = [removers EXCEPT ![c] = @ - 1]
  /\ Unlock
  /\ UNCHANGED <<writing, sent, handler, closers, closes, browser, stalls>>

\* remove: only the one that finds ws in the map goes on to close it.
Remove(c) ==
  /\ Exclusive("remove", c)
  /\ clients' = clients \ {c}
  /\ removers' = [removers EXCEPT ![c] = @ - 1]
  /\ closers' = [closers EXCEPT ![c] = IF c \in clients THEN @ + 1 ELSE @]
  /\ Unlock
  /\ UNCHANGED <<writing, sent, handler, closes, browser, stalls>>

\* ws.Close(), after the unlock.
Close(c) ==
  /\ closers[c] > 0
  /\ closers' = [closers EXCEPT ![c] = @ - 1]
  /\ closes' = [closes EXCEPT ![c] = @ + 1]
  /\ UNCHANGED <<clients, announced, caster, todo, writing, sent, handler, removers,
                 browser, stalls>>

-----------------------------------------------------------------------------
(* broadcast *)

\* mu.RLock() succeeds at once, or queues behind the announced writer.
Broadcast(b) ==
  /\ caster[b] = "idle"
  /\ sent[b] < MaxLines
  /\ sent' = [sent EXCEPT ![b] = @ + 1]
  /\ \/ /\ announced = NoWriter
        /\ caster' = [caster EXCEPT ![b] = "sending"]
        /\ todo' = [todo EXCEPT ![b] = clients]
     \/ /\ announced # NoWriter
        /\ caster' = [caster EXCEPT ![b] = "queued"]
        /\ UNCHANGED todo
  /\ UNCHANGED <<clients, announced, writing, handler, removers, closers, closes,
                 browser, stalls>>

\* The loop comes to the next client, in no particular order.
WriteTo(b, c) ==
  /\ caster[b] = "sending"
  /\ writing[b] = NoClient
  /\ c \in todo[b]
  /\ todo' = [todo EXCEPT ![b] = @ \ {c}]
  /\ writing' = [writing EXCEPT ![b] = c]
  /\ UNCHANGED <<clients, announced, caster, sent, handler, removers, closers,
                 closes, browser, stalls>>

\* ws.Write succeeds.  It has no deadline: while the browser stalls, neither
\* this nor WriteFails can happen.
WriteSucceeds(b, c) ==
  /\ writing[b] = c
  /\ browser[c] = "reads"
  /\ closes[c] = 0
  /\ writing' = [writing EXCEPT ![b] = NoClient]
  /\ UNCHANGED <<clients, announced, caster, todo, sent, handler, removers, closers,
                 closes, browser, stalls>>

\* Mutant of WriteFails: remove is called on the broadcasting goroutine, which
\* then waits for its own RLock to be released.
WriteFailsRemovesInline(b, c) ==
  /\ writing[b] = c
  /\ browser[c] = "gone" \/ closes[c] > 0
  /\ Exclusive("remove", c)
  /\ writing' = [writing EXCEPT ![b] = NoClient]
  /\ UNCHANGED <<clients, announced, caster, todo, sent, handler, removers, closers,
                 closes, browser, stalls>>

\* Mutant of WriteFails: the connection is closed on the spot.
WriteFailsCloses(b, c) ==
  /\ writing[b] = c
  /\ browser[c] = "gone" \/ closes[c] > 0
  /\ writing' = [writing EXCEPT ![b] = NoClient]
  /\ closers' = [closers EXCEPT ![c] = @ + 1]
  /\ UNCHANGED <<clients, announced, caster, todo, sent, handler, removers, closes,
                 browser, stalls>>

\* ws.Write fails: go h.remove(ws), and on to the next client.
WriteFails(b, c) ==
  /\ writing[b] = c
  /\ browser[c] = "gone" \/ closes[c] > 0
  /\ writing' = [writing EXCEPT ![b] = NoClient]
  /\ removers' = [removers EXCEPT ![c] = @ + 1]
  /\ UNCHANGED <<clients, announced, caster, todo, sent, handler, closers, closes,
                 browser, stalls>>

\* Mutant of Sent: the mutex is released inside the loop.
SentEarly(b) ==
  /\ caster[b] = "sending"
  /\ writing[b] = NoClient
  /\ caster' = [caster EXCEPT ![b] = "idle"]
  /\ UNCHANGED <<clients, announced, todo, writing, sent, handler, removers, closers,
                 closes, browser, stalls>>

\* The deferred RUnlock.
Sent(b) ==
  /\ caster[b] = "sending"
  /\ todo[b] = {}
  /\ writing[b] = NoClient
  /\ caster' = [caster EXCEPT ![b] = "idle"]
  /\ UNCHANGED <<clients, announced, todo, writing, sent, handler, removers, closers,
                 closes, browser, stalls>>

-----------------------------------------------------------------------------
(* The browsers, the environment. *)

Stall(c) ==
  /\ browser[c] = "reads"
  /\ stalls < MaxStalls
  /\ stalls' = stalls + 1
  /\ browser' = [browser EXCEPT ![c] = "stalls"]
  /\ UNCHANGED <<clients, announced, caster, todo, writing, sent, handler, removers,
                 closers, closes>>

Recover(c) ==
  /\ browser[c] = "stalls"
  /\ browser' = [browser EXCEPT ![c] = "reads"]
  /\ UNCHANGED <<clients, announced, caster, todo, writing, sent, handler, removers,
                 closers, closes, stalls>>

Leave(c) ==
  /\ browser[c] # "gone"
  /\ browser' = [browser EXCEPT ![c] = "gone"]
  /\ UNCHANGED <<clients, announced, caster, todo, writing, sent, handler, removers,
                 closers, closes, stalls>>

-----------------------------------------------------------------------------
Writer(c) == Add(c) \/ Remove(c) \/ Close(c) \/ ReadEnds(c)

Casting(b) ==
  \/ Sent(b)
  \/ \E c \in Client : WriteTo(b, c) \/ WriteSucceeds(b, c) \/ WriteFails(b, c)

Next ==
  \/ \E c \in Client : Connect(c) \/ Writer(c)
  \/ \E c \in Client, op \in {"add", "remove"} : Announce(op, c)
  \/ \E b \in Broadcaster : Broadcast(b) \/ Casting(b)
  \/ \E c \in Client : Stall(c) \/ Recover(c) \/ Leave(c)

Spec == Init /\ [][Next]_vars

\* Goroutines are scheduled and the mutex starves nobody.
CodeFairness ==
  /\ \A c \in Client :
       /\ WF_vars(Add(c)) /\ WF_vars(Remove(c))
       /\ WF_vars(Close(c)) /\ WF_vars(ReadEnds(c))
       /\ \A op \in {"add", "remove"} : SF_vars(Announce(op, c))
  /\ \A b \in Broadcaster : WF_vars(Casting(b)) /\ WF_vars(Broadcast(b))

\* A stalled browser reads on or goes away: TCP gives up on it in the end.
StallsEnd == \A c \in Client : WF_vars(Recover(c) \/ (browser[c] = "stalls" /\ Leave(c)))

FairSpec == Spec /\ CodeFairness /\ StallsEnd
StallSpec == Spec /\ CodeFairness

-----------------------------------------------------------------------------
(* Properties. *)

\* Every variable keeps to the values the code can give it.
TypeOK ==
  /\ clients \subseteq Client
  /\ announced \in ({"add", "remove"} \X Client) \cup {NoWriter}
  /\ caster \in [Broadcaster -> {"idle", "queued", "sending"}]
  /\ todo \in [Broadcaster -> SUBSET Client]
  /\ writing \in [Broadcaster -> Client \cup {NoClient}]
  /\ \A b \in Broadcaster :
       caster[b] # "sending" => todo[b] = {} /\ writing[b] = NoClient
  /\ sent \in [Broadcaster -> 0 .. MaxLines]
  /\ handler \in [Client -> {"new", "adding", "reading", "ended"}]
  /\ removers \in [Client -> Nat]
  /\ closers \in [Client -> Nat]
  /\ closes \in [Client -> Nat]
  /\ browser \in [Client -> {"reads", "stalls", "gone"}]
  /\ stalls \in 0 .. MaxStalls

\* No broadcast has a connection before it that the hub has closed: remove
\* takes a client out of the map, which needs every broadcast to have left its
\* loop, before it closes it (main.go 79-98).
NoWriteAfterClose ==
  \A b \in Broadcaster, c \in Client :
    c \in todo[b] \/ c = writing[b] => closes[c] + closers[c] = 0

\* However many goroutines remove a client, one of them closes it
\* (main.go 79-87).
ClosedOnce == \A c \in Client : closes[c] + closers[c] <= 1

\* A registered client always has someone who will remove it once it is gone:
\* its handler, or a goroutine already inside remove (main.go 94-95, 1189-1199).
RegisteredIsWatched ==
  \A c \in clients : handler[c] = "reading" \/ removers[c] > 0

\* A broadcast comes to its end and releases the mutex, whatever clients come,
\* go and fail meanwhile: remove runs on a goroutine of its own (main.go 94-95).
BroadcastEnds ==
  \A b \in Broadcaster : caster[b] # "idle" ~> caster[b] = "idle"

\* A browser that has connected and is gone is taken out of the map and its
\* connection is closed.
GoneIsClosed ==
  \A c \in Client :
    handler[c] # "new" /\ browser[c] = "gone" ~> c \notin clients /\ closes[c] = 1

\* The line of broadcast b is still to be written to c.
Owes(b, c) ==
  /\ c \in clients
  /\ caster[b] = "queued" \/ c \in todo[b] \/ c = writing[b]

\* Lines reach a browser in real time (README.md 33): one that reads is given
\* every line broadcast while it is registered, whatever other browsers do.
StreamsInRealTime ==
  \A b \in Broadcaster, c \in Client :
    Owes(b, c) /\ browser[c] = "reads" ~> ~Owes(b, c) \/ browser[c] # "reads"
=============================================================================
