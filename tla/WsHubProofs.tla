----------------------------- MODULE WsHubProofs -----------------------------
(***************************************************************************)
(* Theorems of WsHub, for any set of clients and of broadcasters.          *)
(***************************************************************************)
EXTENDS WsHub, TLAPS

(* The inductive invariant, part by part. *)

\* What a writer that is announced has come for is still to be done.
SlotInv ==
  \A c \in Client :
    /\ announced = <<"add", c>> => handler[c] = "adding"
    /\ announced = <<"remove", c>> => removers[c] > 0

\* Before a client has been added, nobody knows it.
FreshInv ==
  \A c \in Client :
    handler[c] \in {"new", "adding"} =>
      c \notin clients /\ closes[c] = 0 /\ closers[c] = 0

\* A client in the map has not been closed and will not be by anyone who is
\* past the lock.
OpenInv == \A c \in clients : closes[c] = 0 /\ closers[c] = 0

\* A broadcast only has registered clients before it: the read lock keeps them
\* in the map.
RangeInv ==
  \A b \in Broadcaster : todo[b] \subseteq clients /\ writing[b] \in clients \cup {NoClient}

IInv == TypeOK /\ SlotInv /\ FreshInv /\ OpenInv /\ RangeInv /\ ClosedOnce /\ RegisteredIsWatched

-----------------------------------------------------------------------------
LEMMA InitInv == Init => IInv
BY NoValuesAreDistinct, BoundsAreNaturals
   DEF Init, IInv, TypeOK, SlotInv, FreshInv, OpenInv, RangeInv, ClosedOnce, RegisteredIsWatched

\* A writer that has the lock is the only one inside: no broadcast is sending.
LEMMA AloneInside ==
  ASSUME TypeOK, NEW op, NEW c \in Client, Exclusive(op, c)
  PROVE  \A b \in Broadcaster : caster[b] # "sending" /\ todo[b] = {} /\ writing[b] = NoClient
BY DEF TypeOK, Exclusive, Readers

LEMMA StepType ==
  ASSUME IInv, [Next]_vars
  PROVE  TypeOK'
<1> USE NoValuesAreDistinct, BoundsAreNaturals DEF IInv, TypeOK
<1>1. CASE UNCHANGED vars
  BY <1>1 DEF vars
<1>2. ASSUME NEW c \in Client, Connect(c)
      PROVE  TypeOK'
  BY <1>2 DEF Connect
<1>3. ASSUME NEW c \in Client, Add(c)
      PROVE  TypeOK'
  BY <1>3 DEF Add, Unlock, Exclusive
<1>4. ASSUME NEW c \in Client, Remove(c)
      PROVE  TypeOK'
  <2>1. removers[c] > 0
    BY <1>4 DEF Remove, Exclusive, SlotInv
  <2>2. removers' \in [Client -> Nat] /\ closers' \in [Client -> Nat]
    BY <1>4, <2>1 DEF Remove
  <2> QED
    BY <1>4, <2>2 DEF Remove, Unlock, Exclusive
<1>5. ASSUME NEW c \in Client, Close(c)
      PROVE  TypeOK'
  BY <1>5 DEF Close
<1>6. ASSUME NEW c \in Client, ReadEnds(c)
      PROVE  TypeOK'
  BY <1>6 DEF ReadEnds
<1>7. ASSUME NEW c \in Client, NEW op \in {"add", "remove"}, Announce(op, c)
      PROVE  TypeOK'
  BY <1>7 DEF Announce
<1>8. ASSUME NEW b \in Broadcaster, Broadcast(b)
      PROVE  TypeOK'
  BY <1>8 DEF Broadcast
<1>9. ASSUME NEW b \in Broadcaster, Sent(b)
      PROVE  TypeOK'
  BY <1>9 DEF Sent
<1>10. ASSUME NEW b \in Broadcaster, NEW c \in Client,
              WriteTo(b, c) \/ WriteSucceeds(b, c) \/ WriteFails(b, c)
       PROVE  TypeOK'
  BY <1>10 DEF WriteTo, WriteSucceeds, WriteFails
<1>11. ASSUME NEW c \in Client, Stall(c) \/ Recover(c) \/ Leave(c)
       PROVE  TypeOK'
  BY <1>11 DEF Stall, Recover, Leave
<1> QED
  BY <1>1, <1>2, <1>3, <1>4, <1>5, <1>6, <1>7, <1>8, <1>9, <1>10, <1>11 DEF Next, Writer, Casting
LEMMA StepSlot ==
  ASSUME IInv, [Next]_vars
  PROVE  SlotInv'
<1> USE NoValuesAreDistinct DEF IInv, TypeOK, SlotInv
<1>1. CASE UNCHANGED vars
  BY <1>1 DEF vars
<1>2. ASSUME NEW c \in Client, Connect(c)
      PROVE  SlotInv'
  BY <1>2 DEF Connect
<1>3. ASSUME NEW c \in Client, Add(c) \/ Remove(c)
      PROVE  SlotInv'
  BY <1>3 DEF Add, Remove, Unlock
<1>4. ASSUME NEW c \in Client, Close(c)
      PROVE  SlotInv'
  BY <1>4 DEF Close
<1>5. ASSUME NEW c \in Client, ReadEnds(c)
      PROVE  SlotInv'
  BY <1>5 DEF ReadEnds
<1>6. ASSUME NEW c \in Client, NEW op \in {"add", "remove"}, Announce(op, c)
      PROVE  SlotInv'
  BY <1>6 DEF Announce, Wanting
<1>7. ASSUME NEW b \in Broadcaster, Broadcast(b) \/ Sent(b)
      PROVE  SlotInv'
  BY <1>7 DEF Broadcast, Sent
<1>8. ASSUME NEW b \in Broadcaster, NEW c \in Client,
             WriteTo(b, c) \/ WriteSucceeds(b, c) \/ WriteFails(b, c)
      PROVE  SlotInv'
  BY <1>8 DEF WriteTo, WriteSucceeds, WriteFails
<1>9. ASSUME NEW c \in Client, Stall(c) \/ Recover(c) \/ Leave(c)
      PROVE  SlotInv'
  BY <1>9 DEF Stall, Recover, Leave
<1> QED
  BY <1>1, <1>2, <1>3, <1>4, <1>5, <1>6, <1>7, <1>8, <1>9 DEF Next, Writer, Casting

LEMMA StepFresh ==
  ASSUME IInv, [Next]_vars
  PROVE  FreshInv'
<1> USE NoValuesAreDistinct DEF IInv, TypeOK, FreshInv, OpenInv, ClosedOnce
<1>1. CASE UNCHANGED vars
  BY <1>1 DEF vars
<1>2. ASSUME NEW c \in Client, Connect(c)
      PROVE  FreshInv'
  BY <1>2 DEF Connect
<1>3. ASSUME NEW c \in Client, Add(c)
      PROVE  FreshInv'
  BY <1>3 DEF Add, Exclusive, SlotInv
<1>4. ASSUME NEW c \in Client, Remove(c)
      PROVE  FreshInv'
  BY <1>4 DEF Remove
<1>5. ASSUME NEW c \in Client, Close(c)
      PROVE  FreshInv'
  BY <1>5 DEF Close
<1>6. ASSUME NEW c \in Client, ReadEnds(c)
      PROVE  FreshInv'
  BY <1>6 DEF ReadEnds
<1>7. ASSUME NEW c \in Client, NEW op \in {"add", "remove"}, Announce(op, c)
      PROVE  FreshInv'
  BY <1>7 DEF Announce
<1>8. ASSUME NEW b \in Broadcaster, Broadcast(b) \/ Sent(b)
      PROVE  FreshInv'
  BY <1>8 DEF Broadcast, Sent
<1>9. ASSUME NEW b \in Broadcaster, NEW c \in Client,
             WriteTo(b, c) \/ WriteSucceeds(b, c) \/ WriteFails(b, c)
      PROVE  FreshInv'
  BY <1>9 DEF WriteTo, WriteSucceeds, WriteFails
<1>10. ASSUME NEW c \in Client, Stall(c) \/ Recover(c) \/ Leave(c)
       PROVE  FreshInv'
  BY <1>10 DEF Stall, Recover, Leave
<1> QED
  BY <1>1, <1>2, <1>3, <1>4, <1>5, <1>6, <1>7, <1>8, <1>9, <1>10 DEF Next, Writer, Casting

LEMMA StepOpen ==
  ASSUME IInv, [Next]_vars
  PROVE  OpenInv'
<1> USE NoValuesAreDistinct DEF IInv, TypeOK, FreshInv, OpenInv, ClosedOnce
<1>1. CASE UNCHANGED vars
  BY <1>1 DEF vars
<1>2. ASSUME NEW c \in Client, Connect(c)
      PROVE  OpenInv'
  BY <1>2 DEF Connect
<1>3. ASSUME NEW c \in Client, Add(c)
      PROVE  OpenInv'
  BY <1>3 DEF Add, Exclusive, SlotInv
<1>4. ASSUME NEW c \in Client, Remove(c)
      PROVE  OpenInv'
  BY <1>4 DEF Remove
<1>5. ASSUME NEW c \in Client, Close(c)
      PROVE  OpenInv'
  BY <1>5 DEF Close
<1>6. ASSUME NEW c \in Client, ReadEnds(c)
      PROVE  OpenInv'
  BY <1>6 DEF ReadEnds
<1>7. ASSUME NEW c \in Client, NEW op \in {"add", "remove"}, Announce(op, c)
      PROVE  OpenInv'
  BY <1>7 DEF Announce
<1>8. ASSUME NEW b \in Broadcaster, Broadcast(b) \/ Sent(b)
      PROVE  OpenInv'
  BY <1>8 DEF Broadcast, Sent
<1>9. ASSUME NEW b \in Broadcaster, NEW c \in Client,
             WriteTo(b, c) \/ WriteSucceeds(b, c) \/ WriteFails(b, c)
      PROVE  OpenInv'
  BY <1>9 DEF WriteTo, WriteSucceeds, WriteFails
<1>10. ASSUME NEW c \in Client, Stall(c) \/ Recover(c) \/ Leave(c)
       PROVE  OpenInv'
  BY <1>10 DEF Stall, Recover, Leave
<1> QED
  BY <1>1, <1>2, <1>3, <1>4, <1>5, <1>6, <1>7, <1>8, <1>9, <1>10 DEF Next, Writer, Casting

LEMMA StepClosedOnce ==
  ASSUME IInv, [Next]_vars
  PROVE  ClosedOnce'
<1> USE NoValuesAreDistinct DEF IInv, TypeOK, FreshInv, OpenInv, ClosedOnce
<1>1. CASE UNCHANGED vars
  BY <1>1 DEF vars
<1>2. ASSUME NEW c \in Client, Connect(c)
      PROVE  ClosedOnce'
  BY <1>2 DEF Connect
<1>3. ASSUME NEW c \in Client, Add(c)
      PROVE  ClosedOnce'
  BY <1>3 DEF Add, Exclusive, SlotInv
<1>4. ASSUME NEW c \in Client, Remove(c)
      PROVE  ClosedOnce'
  BY <1>4 DEF Remove
<1>5. ASSUME NEW c \in Client, Close(c)
      PROVE  ClosedOnce'
  BY <1>5 DEF Close
<1>6. ASSUME NEW c \in Client, ReadEnds(c)
      PROVE  ClosedOnce'
  BY <1>6 DEF ReadEnds
<1>7. ASSUME NEW c \in Client, NEW op \in {"add", "remove"}, Announce(op, c)
      PROVE  ClosedOnce'
  BY <1>7 DEF Announce
<1>8. ASSUME NEW b \in Broadcaster, Broadcast(b) \/ Sent(b)
      PROVE  ClosedOnce'
  BY <1>8 DEF Broadcast, Sent
<1>9. ASSUME NEW b \in Broadcaster, NEW c \in Client,
             WriteTo(b, c) \/ WriteSucceeds(b, c) \/ WriteFails(b, c)
      PROVE  ClosedOnce'
  BY <1>9 DEF WriteTo, WriteSucceeds, WriteFails
<1>10. ASSUME NEW c \in Client, Stall(c) \/ Recover(c) \/ Leave(c)
       PROVE  ClosedOnce'
  BY <1>10 DEF Stall, Recover, Leave
<1> QED
  BY <1>1, <1>2, <1>3, <1>4, <1>5, <1>6, <1>7, <1>8, <1>9, <1>10 DEF Next, Writer, Casting

LEMMA StepWatched ==
  ASSUME IInv, [Next]_vars
  PROVE  RegisteredIsWatched'
<1> USE NoValuesAreDistinct DEF IInv, TypeOK, FreshInv, RegisteredIsWatched
<1>1. CASE UNCHANGED vars
  BY <1>1 DEF vars
<1>2. ASSUME NEW c \in Client, Connect(c)
      PROVE  RegisteredIsWatched'
  BY <1>2 DEF Connect
<1>3. ASSUME NEW c \in Client, Add(c)
      PROVE  RegisteredIsWatched'
  BY <1>3 DEF Add, Exclusive, SlotInv
<1>4. ASSUME NEW c \in Client, Remove(c)
      PROVE  RegisteredIsWatched'
  BY <1>4 DEF Remove
<1>5. ASSUME NEW c \in Client, Close(c)
      PROVE  RegisteredIsWatched'
  BY <1>5 DEF Close
<1>6. ASSUME NEW c \in Client, ReadEnds(c)
      PROVE  RegisteredIsWatched'
  BY <1>6 DEF ReadEnds
<1>7. ASSUME NEW c \in Client, NEW op \in {"add", "remove"}, Announce(op, c)
      PROVE  RegisteredIsWatched'
  BY <1>7 DEF Announce
<1>8. ASSUME NEW b \in Broadcaster, Broadcast(b) \/ Sent(b)
      PROVE  RegisteredIsWatched'
  BY <1>8 DEF Broadcast, Sent
<1>9. ASSUME NEW b \in Broadcaster, NEW c \in Client,
             WriteTo(b, c) \/ WriteSucceeds(b, c) \/ WriteFails(b, c)
      PROVE  RegisteredIsWatched'
  BY <1>9 DEF WriteTo, WriteSucceeds, WriteFails
<1>10. ASSUME NEW c \in Client, Stall(c) \/ Recover(c) \/ Leave(c)
       PROVE  RegisteredIsWatched'
  BY <1>10 DEF Stall, Recover, Leave
<1> QED
  BY <1>1, <1>2, <1>3, <1>4, <1>5, <1>6, <1>7, <1>8, <1>9, <1>10 DEF Next, Writer, Casting

LEMMA StepRange ==
  ASSUME IInv, [Next]_vars
  PROVE  RangeInv'
<1> USE NoValuesAreDistinct DEF IInv, TypeOK, RangeInv
<1>1. CASE UNCHANGED vars
  BY <1>1 DEF vars
<1>2. ASSUME NEW c \in Client, Connect(c)
      PROVE  RangeInv'
  BY <1>2 DEF Connect
<1>3. ASSUME NEW c \in Client, Add(c)
      PROVE  RangeInv'
  BY <1>3 DEF Add, Unlock
<1>4. ASSUME NEW c \in Client, Remove(c)
      PROVE  RangeInv'
  BY <1>4, AloneInside DEF Remove, Unlock
<1>5. ASSUME NEW c \in Client, Close(c)
      PROVE  RangeInv'
  BY <1>5 DEF Close
<1>6. ASSUME NEW c \in Client, ReadEnds(c)
      PROVE  RangeInv'
  BY <1>6 DEF ReadEnds
<1>7. ASSUME NEW c \in Client, NEW op \in {"add", "remove"}, Announce(op, c)
      PROVE  RangeInv'
  BY <1>7 DEF Announce
<1>8. ASSUME NEW b \in Broadcaster, Broadcast(b) \/ Sent(b)
      PROVE  RangeInv'
  BY <1>8 DEF Broadcast, Sent
<1>9. ASSUME NEW b \in Broadcaster, NEW c \in Client,
             WriteTo(b, c) \/ WriteSucceeds(b, c) \/ WriteFails(b, c)
      PROVE  RangeInv'
  BY <1>9 DEF WriteTo, WriteSucceeds, WriteFails
<1>10. ASSUME NEW c \in Client, Stall(c) \/ Recover(c) \/ Leave(c)
       PROVE  RangeInv'
  BY <1>10 DEF Stall, Recover, Leave
<1> QED
  BY <1>1, <1>2, <1>3, <1>4, <1>5, <1>6, <1>7, <1>8, <1>9, <1>10 DEF Next, Writer, Casting

-----------------------------------------------------------------------------
THEOREM Invariance == Spec => []IInv
<1>1. IInv /\ [Next]_vars => IInv'
  <2> SUFFICES ASSUME IInv, [Next]_vars
               PROVE  IInv'
    OBVIOUS
  <2>1. TypeOK'
    BY StepType
  <2>2. SlotInv' /\ FreshInv'
    BY StepSlot, StepFresh
  <2>3. OpenInv' /\ RangeInv'
    BY StepOpen, StepRange
  <2>4. ClosedOnce' /\ RegisteredIsWatched'
    BY StepClosedOnce, StepWatched
  <2> QED
    BY <2>1, <2>2, <2>3, <2>4 DEF IInv
<1> QED
  BY InitInv, <1>1, PTL DEF Spec

\* Every variable of the hub keeps to the values the code can give it.
THEOREM TypeCorrect == Spec => []TypeOK
<1>1. IInv => TypeOK
  BY DEF IInv
<1> QED
  BY <1>1, Invariance, PTL

\* No broadcast ever writes to a connection that the hub has closed: what it
\* has before it is in the map, and nothing in the map is closed.
THEOREM WritesOnlyToOpen == Spec => []NoWriteAfterClose
<1>1. IInv => NoWriteAfterClose
  BY NoValuesAreDistinct DEF IInv, RangeInv, OpenInv, NoWriteAfterClose
<1> QED
  BY <1>1, Invariance, PTL

\* However many goroutines remove a client, at most one of them closes it.
THEOREM ClosesOnce == Spec => []ClosedOnce
<1>1. IInv => ClosedOnce
  BY DEF IInv
<1> QED
  BY <1>1, Invariance, PTL

\* A client in the map has a handler that reads from it, or a goroutine that is
\* removing it.
THEOREM NobodyIsForgotten == Spec => []RegisteredIsWatched
<1>1. IInv => RegisteredIsWatched
  BY DEF IInv
<1> QED
  BY <1>1, Invariance, PTL
=============================================================================
