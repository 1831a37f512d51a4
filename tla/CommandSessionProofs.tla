------------------------ MODULE CommandSessionProofs ------------------------
(***************************************************************************)
(* Theorems of CommandSession, for any set of requests, any number of      *)
(* faults and replies of any length.                                       *)
(***************************************************************************)
EXTENDS CommandSession, SequenceTheorems, TLAPS

(* The inductive invariant, part by part. *)

\* Exactly the holder of the mutex is inside sendWithin or the rebuild.
MutexInv ==
  \A c \in Caller : pc[c] \in Critical <=> lock = c

\* Only maintain rebuilds.
SiteInv == lock \in Request => site # "rebuild"

\* Where the connection and the flag stand at each stage of the holder.
FlagInv ==
  /\ lock = NoOwner => (commandUp <=> conn # "nil")
  /\ \A c \in Caller :
       /\ pc[c] = "dial" => conn = "nil" /\ ~commandUp
       /\ pc[c] = "drain" => conn # "nil" /\ ~commandUp
       /\ pc[c] \in {"write", "read"} => conn # "nil" /\ commandUp

\* Nothing is in flight without a connection.
LinkInv == conn = "nil" => pending = <<>> /\ inbox = <<>>

\* What is settled about a request at each stage.
DeliveryInv ==
  \A r \in Request :
    /\ pc[r] \in {"idle", "lock", "dial", "drain", "write"} => delivered[r] = 0
    /\ delivered[r] \in {0, 1}
    /\ pc[r] = "done" <=> outcome[r] # "none"
    /\ outcome[r] \in Refusals => delivered[r] = 0

\* The lines read so far belong to this call of send.
FreshReplyInv ==
  \A c \in Caller :
    /\ pc[c] \in {"dial", "drain"} /\ site # "rebuild" => reply = {}
    /\ pc[c] = "write" => reply = {}

\* A connection that is not skewed carries nothing between two commands, and
\* while a reply is read, that reply alone, with its last line at the end.
CleanInv ==
  ~skewed =>
    /\ lock = NoOwner => pending = <<>> /\ inbox = <<>>
    /\ \A c \in Caller :
         /\ pc[c] = "write" => pending = <<>> /\ inbox = <<>>
         /\ pc[c] = "read" =>
              /\ reply \subseteq {c}
              /\ pending \in {<<>>, <<c>>}
              /\ \A i \in 1 .. Len(inbox) :
                   /\ inbox[i].of = c
                   /\ inbox[i].last => i = Len(inbox) /\ pending = <<>>
              /\ (c \in Request /\ delivered[c] = 0) =>
                   pending = <<>> /\ inbox = <<>> /\ reply = {}

IInv ==
  /\ TypeOK
  /\ MutexInv
  /\ SiteInv
  /\ FlagInv
  /\ LinkInv
  /\ DeliveryInv
  /\ FreshReplyInv
  /\ CleanInv
  /\ ReplyIsOwed

-----------------------------------------------------------------------------
(* Types. *)

LEMMA NothingSent ==
  /\ <<>> \in Seq(Caller \cup {Banner})
  /\ <<>> \in Seq(Line)
  /\ 0 \in 0 .. MaxContinuation
  /\ 0 \in 0 .. MaxFaults
BY EmptySeq, BoundsAreNaturals

LEMMA InitType == Init => TypeOK
<1> SUFFICES ASSUME Init PROVE TypeOK
  OBVIOUS
<1>1. /\ lock \in Caller \cup {NoOwner}
      /\ pc \in [Caller -> SenderStages \cup MaintStages]
      /\ pc[Maintainer] \in MaintStages
      /\ \A r \in Request : pc[r] \in SenderStages
  BY CallersDistinct DEF Init, Caller, SenderStages, MaintStages, Critical
<1> QED
  BY <1>1, NothingSent DEF Init, TypeOK, Outcomes

\* A dropped connection leaves well-typed variables behind.
LEMMA DropType ==
  ASSUME Drop
  PROVE  /\ conn' \in {"nil", "open", "closed"}
         /\ commandUp' \in BOOLEAN
         /\ pending' \in Seq(Caller \cup {Banner})
         /\ continued' \in 0 .. MaxContinuation
         /\ inbox' \in Seq(Line)
         /\ skewed' \in BOOLEAN
BY NothingSent DEF Drop

\* So does a return from send.
LEMMA ReturnType ==
  ASSUME TypeOK, NEW c \in Caller, NEW result \in Outcomes,
         NEW lines \in SUBSET (Caller \cup {Banner}), Return(c, result, lines)
  PROVE  /\ lock' \in Caller \cup {NoOwner}
         /\ pc' \in [Caller -> SenderStages \cup MaintStages]
         /\ pc'[Maintainer] \in MaintStages
         /\ \A r \in Request : pc'[r] \in SenderStages
         /\ outcome' \in [Request -> Outcomes]
         /\ answer' \in [Request -> SUBSET (Caller \cup {Banner})]
         /\ due' \in BOOLEAN
<1>1. pc' \in [Caller -> SenderStages \cup MaintStages]
  BY DEF Return, Goto, TypeOK, SenderStages, MaintStages
<1>2. pc'[Maintainer] \in MaintStages /\ \A r \in Request : pc'[r] \in SenderStages
  BY CallersDistinct DEF Return, Goto, TypeOK, Caller, SenderStages, MaintStages
<1>3. outcome' \in [Request -> Outcomes]
  BY DEF Return, TypeOK
<1>4. answer' \in [Request -> SUBSET (Caller \cup {Banner})]
  BY DEF Return, TypeOK
<1> QED
  BY <1>1, <1>2, <1>3, <1>4 DEF Return, TypeOK

LEMMA RebuilderIsMaintainer ==
  ASSUME MutexInv, SiteInv, NEW c \in Caller, pc[c] \in Critical, site = "rebuild"
  PROVE  c = Maintainer
BY DEF MutexInv, SiteInv, Caller

LEMMA StepType == TypeOK /\ MutexInv /\ SiteInv /\ [Next]_vars => TypeOK'
<1> SUFFICES ASSUME TypeOK, MutexInv, SiteInv, [Next]_vars
             PROVE  TypeOK'
  OBVIOUS
<1> USE CallersDistinct
    DEF TypeOK, Caller, SenderStages, MaintStages, Critical, Goto,
        session, link, history
<1>1. ASSUME PollDown PROVE TypeOK'
  BY <1>1 DEF PollDown
<1>2. ASSUME PollHeartbeat PROVE TypeOK'
  BY <1>2 DEF PollHeartbeat
<1>3. ASSUME HeartbeatDue PROVE TypeOK'
  BY <1>3 DEF HeartbeatDue
<1>4. ASSUME BeginRebuild PROVE TypeOK'
  <2>1. Drop
    BY <1>4 DEF BeginRebuild
  <2> QED
    BY <1>4, <2>1, DropType DEF BeginRebuild
<1>5. ASSUME NEW r \in Request, Ask(r) PROVE TypeOK'
  BY <1>5 DEF Ask
<1>6. ASSUME NEW c \in Caller, Acquire(c) PROVE TypeOK'
  BY <1>6 DEF Acquire
<1>7. ASSUME NEW c \in Caller, DialSucceeds(c) PROVE TypeOK'
  BY <1>7, NothingSent DEF DialSucceeds
<1>8. ASSUME NEW c \in Caller, DialFails(c) PROVE TypeOK'
  <2>1. CASE site # "rebuild"
    <3>1. Return(c, "dialErr", {})
      BY <1>8, <2>1 DEF DialFails
    <3> QED
      BY <1>8, <3>1, ReturnType DEF DialFails, Outcomes
  <2>2. CASE site = "rebuild"
    BY <1>8, <2>2, RebuilderIsMaintainer DEF DialFails
  <2> QED
    BY <2>1, <2>2
<1>9. ASSUME NEW c \in Caller, Drained(c) PROVE TypeOK'
  BY <1>9, RebuilderIsMaintainer, NothingSent DEF Drained
<1>10. ASSUME NEW c \in Caller, WriteReaches(c) PROVE TypeOK'
  BY <1>10 DEF WriteReaches
<1>11. ASSUME NEW c \in Caller, WriteIsLost(c) PROVE TypeOK'
  BY <1>11 DEF WriteIsLost
<1>12. ASSUME NEW c \in Caller, WriteFails(c) PROVE TypeOK'
  <2>1. Drop
    BY <1>12 DEF WriteFails
  <2>2. CASE site = "resend"
    <3>1. Return(c, "writeErr", {})
      BY <1>12, <2>2 DEF WriteFails
    <3> QED
      BY <1>12, <2>1, <2>2, <3>1, DropType, ReturnType DEF WriteFails, Outcomes
  <2>3. CASE site = "first"
    BY <1>12, <2>1, <2>3, DropType DEF WriteFails
  <2> QED
    BY <1>12, <2>2, <2>3 DEF WriteFails
<1>13. ASSUME NEW c \in Caller, ReadContinuation(c) PROVE TypeOK'
  <2>1. Head(inbox) \in Line /\ Tail(inbox) \in Seq(Line)
    BY <1>13, HeadTailProperties DEF ReadContinuation
  <2> QED
    BY <1>13, <2>1 DEF ReadContinuation, Line
<1>14. ASSUME NEW c \in Caller, ReadLast(c) PROVE TypeOK'
  <2>1. Head(inbox) \in Line /\ Tail(inbox) \in Seq(Line)
    BY <1>14, HeadTailProperties DEF ReadLast
  <2>2. reply \cup {Head(inbox).of} \in SUBSET (Caller \cup {Banner})
    BY <2>1 DEF Line
  <2>3. Return(c, "ok", reply \cup {Head(inbox).of})
    BY <1>14 DEF ReadLast
  <2> QED
    BY <1>14, <2>1, <2>2, <2>3, ReturnType DEF ReadLast, Outcomes
<1>15. ASSUME NEW c \in Caller, ReadCutShort(c) PROVE TypeOK'
  <2>1. Return(c, "ok", reply)
    BY <1>15 DEF ReadCutShort
  <2> QED
    BY <1>15, <2>1, ReturnType DEF ReadCutShort, Outcomes
<1>16. ASSUME NEW c \in Caller, ReadFails(c) PROVE TypeOK'
  <2>1. Drop /\ Return(c, "readErr", {})
    BY <1>16 DEF ReadFails
  <2> QED
    BY <1>16, <2>1, DropType, ReturnType DEF ReadFails, Outcomes
<1>17. ASSUME NEW last \in BOOLEAN, Emit(last) PROVE TypeOK'
  <2>1. Head(pending) \in Caller \cup {Banner} /\ Tail(pending) \in Seq(Caller \cup {Banner})
    BY <1>17, HeadTailProperties DEF Emit
  <2>2. [of |-> Head(pending), last |-> last] \in Line
    BY <2>1 DEF Line
  <2>3. inbox' \in Seq(Line)
    BY <1>17, <2>2 DEF Emit
  <2>4. pending' \in Seq(Caller \cup {Banner})
    BY <1>17, <2>1 DEF Emit
  <2>5. continued' \in 0 .. MaxContinuation
    BY <1>17, BoundsAreNaturals DEF Emit
  <2> QED
    BY <1>17, <2>3, <2>4, <2>5 DEF Emit
<1>18. ASSUME Hang PROVE TypeOK'
  BY <1>18, BoundsAreNaturals DEF Hang
<1>19. ASSUME Resume PROVE TypeOK'
  BY <1>19 DEF Resume
<1>20. ASSUME Crash PROVE TypeOK'
  <2>1. inbox' \in Seq(Line) /\ pending' \in Seq(Caller \cup {Banner})
    BY <1>20, NothingSent DEF Crash
  <2>2. continued' \in 0 .. MaxContinuation /\ faults' \in 0 .. MaxFaults
    BY <1>20, BoundsAreNaturals, NothingSent DEF Crash
  <2> QED
    BY <1>20, <2>1, <2>2 DEF Crash
<1>21. ASSUME Start PROVE TypeOK'
  BY <1>21 DEF Start
<1>22. ASSUME UNCHANGED vars PROVE TypeOK'
  BY <1>22 DEF vars
<1> QED
  BY <1>1, <1>2, <1>3, <1>4, <1>5, <1>6, <1>7, <1>8, <1>9, <1>10, <1>11, <1>12,
     <1>13, <1>14, <1>15, <1>16, <1>17, <1>18, <1>19, <1>20, <1>21, <1>22
  DEF Next, Step, Maintain, CGate

-----------------------------------------------------------------------------
(* The steps, one lemma for each part of the invariant. *)

\* The mutex admits one caller at a time to the stages it guards.
LEMMA StepMutex == TypeOK /\ MutexInv /\ [Next]_vars => MutexInv'
<1> SUFFICES ASSUME TypeOK, MutexInv, [Next]_vars
             PROVE  MutexInv'
  OBVIOUS
<1> USE CallersDistinct DEF TypeOK, MutexInv, Caller, Critical, Goto, session
<1>1. ASSUME PollDown PROVE MutexInv'
  BY <1>1 DEF PollDown
<1>2. ASSUME PollHeartbeat PROVE MutexInv'
  BY <1>2 DEF PollHeartbeat
<1>3. ASSUME HeartbeatDue PROVE MutexInv'
  BY <1>3 DEF HeartbeatDue
<1>4. ASSUME BeginRebuild PROVE MutexInv'
  BY <1>4 DEF BeginRebuild, Drop
<1>5. ASSUME NEW r \in Request, Ask(r) PROVE MutexInv'
  BY <1>5 DEF Ask
<1>6. ASSUME NEW c \in Caller, Acquire(c) PROVE MutexInv'
  BY <1>6 DEF Acquire
<1>7. ASSUME NEW c \in Caller, DialSucceeds(c) PROVE MutexInv'
  BY <1>7 DEF DialSucceeds
<1>8. ASSUME NEW c \in Caller, DialFails(c) PROVE MutexInv'
  BY <1>8 DEF DialFails, Return
<1>9. ASSUME NEW c \in Caller, Drained(c) PROVE MutexInv'
  BY <1>9 DEF Drained
<1>10. ASSUME NEW c \in Caller, WriteReaches(c) PROVE MutexInv'
  BY <1>10 DEF WriteReaches
<1>11. ASSUME NEW c \in Caller, WriteIsLost(c) PROVE MutexInv'
  BY <1>11 DEF WriteIsLost
<1>12. ASSUME NEW c \in Caller, WriteFails(c) PROVE MutexInv'
  BY <1>12 DEF WriteFails, Drop, Return
<1>13. ASSUME NEW c \in Caller, ReadContinuation(c) PROVE MutexInv'
  BY <1>13 DEF ReadContinuation
<1>14. ASSUME NEW c \in Caller, ReadLast(c) PROVE MutexInv'
  BY <1>14 DEF ReadLast, Return
<1>15. ASSUME NEW c \in Caller, ReadCutShort(c) PROVE MutexInv'
  BY <1>15 DEF ReadCutShort, Return
<1>16. ASSUME NEW c \in Caller, ReadFails(c) PROVE MutexInv'
  BY <1>16 DEF ReadFails, Drop, Return
<1>17. ASSUME NEW last \in BOOLEAN, Emit(last) PROVE MutexInv'
  BY <1>17 DEF Emit
<1>18. ASSUME Hang PROVE MutexInv'
  BY <1>18 DEF Hang
<1>19. ASSUME Resume PROVE MutexInv'
  BY <1>19 DEF Resume
<1>20. ASSUME Crash PROVE MutexInv'
  BY <1>20 DEF Crash
<1>21. ASSUME Start PROVE MutexInv'
  BY <1>21 DEF Start
<1>22. ASSUME UNCHANGED vars PROVE MutexInv'
  BY <1>22 DEF vars
<1> QED
  BY <1>1, <1>2, <1>3, <1>4, <1>5, <1>6, <1>7, <1>8, <1>9, <1>10, <1>11, <1>12,
     <1>13, <1>14, <1>15, <1>16, <1>17, <1>18, <1>19, <1>20, <1>21, <1>22
  DEF Next, Step, Maintain, CGate

\* No sender is ever at the call site of maintain.
LEMMA StepSite == TypeOK /\ MutexInv /\ SiteInv /\ [Next]_vars => SiteInv'
<1> SUFFICES ASSUME TypeOK, MutexInv, SiteInv, [Next]_vars
             PROVE  SiteInv'
  OBVIOUS
<1> USE CallersDistinct DEF TypeOK, MutexInv, Caller, Critical, Goto, session, link, history, SiteInv
<1>1. ASSUME PollDown PROVE SiteInv'
  BY <1>1 DEF PollDown
<1>2. ASSUME PollHeartbeat PROVE SiteInv'
  BY <1>2 DEF PollHeartbeat
<1>3. ASSUME HeartbeatDue PROVE SiteInv'
  BY <1>3 DEF HeartbeatDue
<1>4. ASSUME BeginRebuild PROVE SiteInv'
  BY <1>4 DEF BeginRebuild, Drop
<1>5. ASSUME NEW r \in Request, Ask(r) PROVE SiteInv'
  BY <1>5 DEF Ask
<1>6. ASSUME NEW c \in Caller, Acquire(c) PROVE SiteInv'
  BY <1>6 DEF Acquire
<1>7. ASSUME NEW c \in Caller, DialSucceeds(c) PROVE SiteInv'
  BY <1>7 DEF DialSucceeds
<1>8. ASSUME NEW c \in Caller, DialFails(c) PROVE SiteInv'
  BY <1>8 DEF DialFails, Return
<1>9. ASSUME NEW c \in Caller, Drained(c) PROVE SiteInv'
  BY <1>9 DEF Drained
<1>10. ASSUME NEW c \in Caller, WriteReaches(c) PROVE SiteInv'
  BY <1>10 DEF WriteReaches
<1>11. ASSUME NEW c \in Caller, WriteIsLost(c) PROVE SiteInv'
  BY <1>11 DEF WriteIsLost
<1>12. ASSUME NEW c \in Caller, WriteFails(c) PROVE SiteInv'
  BY <1>12 DEF WriteFails, Drop, Return
<1>13. ASSUME NEW c \in Caller, ReadContinuation(c) PROVE SiteInv'
  BY <1>13 DEF ReadContinuation
<1>14. ASSUME NEW c \in Caller, ReadLast(c) PROVE SiteInv'
  BY <1>14 DEF ReadLast, Return
<1>15. ASSUME NEW c \in Caller, ReadCutShort(c) PROVE SiteInv'
  BY <1>15 DEF ReadCutShort, Return
<1>16. ASSUME NEW c \in Caller, ReadFails(c) PROVE SiteInv'
  BY <1>16 DEF ReadFails, Drop, Return
<1>17. ASSUME NEW last \in BOOLEAN, Emit(last) PROVE SiteInv'
  BY <1>17 DEF Emit
<1>18. ASSUME Hang PROVE SiteInv'
  BY <1>18 DEF Hang
<1>19. ASSUME Resume PROVE SiteInv'
  BY <1>19 DEF Resume
<1>20. ASSUME Crash PROVE SiteInv'
  BY <1>20 DEF Crash
<1>21. ASSUME Start PROVE SiteInv'
  BY <1>21 DEF Start
<1>22. ASSUME UNCHANGED vars PROVE SiteInv'
  BY <1>22 DEF vars
<1> QED
  BY <1>1, <1>2, <1>3, <1>4, <1>5, <1>6, <1>7, <1>8, <1>9, <1>10, <1>11, <1>12,
     <1>13, <1>14, <1>15, <1>16, <1>17, <1>18, <1>19, <1>20, <1>21, <1>22
  DEF Next, Step, Maintain, CGate

\* connect and drop keep the flag in step with the connection.
LEMMA StepFlag == TypeOK /\ MutexInv /\ FlagInv /\ [Next]_vars => FlagInv'
<1> SUFFICES ASSUME TypeOK, MutexInv, FlagInv, [Next]_vars
             PROVE  FlagInv'
  OBVIOUS
<1> USE CallersDistinct DEF TypeOK, MutexInv, Caller, Critical, Goto, session, link, history, FlagInv
<1>1. ASSUME PollDown PROVE FlagInv'
  BY <1>1 DEF PollDown
<1>2. ASSUME PollHeartbeat PROVE FlagInv'
  BY <1>2 DEF PollHeartbeat
<1>3. ASSUME HeartbeatDue PROVE FlagInv'
  BY <1>3 DEF HeartbeatDue
<1>4. ASSUME BeginRebuild PROVE FlagInv'
  BY <1>4 DEF BeginRebuild, Drop
<1>5. ASSUME NEW r \in Request, Ask(r) PROVE FlagInv'
  BY <1>5 DEF Ask
<1>6. ASSUME NEW c \in Caller, Acquire(c) PROVE FlagInv'
  BY <1>6 DEF Acquire
<1>7. ASSUME NEW c \in Caller, DialSucceeds(c) PROVE FlagInv'
  BY <1>7 DEF DialSucceeds
<1>8. ASSUME NEW c \in Caller, DialFails(c) PROVE FlagInv'
  BY <1>8 DEF DialFails, Return
<1>9. ASSUME NEW c \in Caller, Drained(c) PROVE FlagInv'
  BY <1>9 DEF Drained
<1>10. ASSUME NEW c \in Caller, WriteReaches(c) PROVE FlagInv'
  BY <1>10 DEF WriteReaches
<1>11. ASSUME NEW c \in Caller, WriteIsLost(c) PROVE FlagInv'
  BY <1>11 DEF WriteIsLost
<1>12. ASSUME NEW c \in Caller, WriteFails(c) PROVE FlagInv'
  BY <1>12 DEF WriteFails, Drop, Return
<1>13. ASSUME NEW c \in Caller, ReadContinuation(c) PROVE FlagInv'
  BY <1>13 DEF ReadContinuation
<1>14. ASSUME NEW c \in Caller, ReadLast(c) PROVE FlagInv'
  BY <1>14 DEF ReadLast, Return
<1>15. ASSUME NEW c \in Caller, ReadCutShort(c) PROVE FlagInv'
  BY <1>15 DEF ReadCutShort, Return
<1>16. ASSUME NEW c \in Caller, ReadFails(c) PROVE FlagInv'
  BY <1>16 DEF ReadFails, Drop, Return
<1>17. ASSUME NEW last \in BOOLEAN, Emit(last) PROVE FlagInv'
  BY <1>17 DEF Emit
<1>18. ASSUME Hang PROVE FlagInv'
  BY <1>18 DEF Hang
<1>19. ASSUME Resume PROVE FlagInv'
  BY <1>19 DEF Resume
<1>20. ASSUME Crash PROVE FlagInv'
  BY <1>20 DEF Crash
<1>21. ASSUME Start PROVE FlagInv'
  BY <1>21 DEF Start
<1>22. ASSUME UNCHANGED vars PROVE FlagInv'
  BY <1>22 DEF vars
<1> QED
  BY <1>1, <1>2, <1>3, <1>4, <1>5, <1>6, <1>7, <1>8, <1>9, <1>10, <1>11, <1>12,
     <1>13, <1>14, <1>15, <1>16, <1>17, <1>18, <1>19, <1>20, <1>21, <1>22
  DEF Next, Step, Maintain, CGate

\* Nothing is in flight without a connection.
LEMMA StepLink == TypeOK /\ MutexInv /\ FlagInv /\ LinkInv /\ [Next]_vars => LinkInv'
<1> SUFFICES ASSUME TypeOK, MutexInv, FlagInv, LinkInv, [Next]_vars
             PROVE  LinkInv'
  OBVIOUS
<1> USE CallersDistinct DEF TypeOK, MutexInv, Caller, Critical, Goto, session, link, history, FlagInv, LinkInv
<1>1. ASSUME PollDown PROVE LinkInv'
  BY <1>1 DEF PollDown
<1>2. ASSUME PollHeartbeat PROVE LinkInv'
  BY <1>2 DEF PollHeartbeat
<1>3. ASSUME HeartbeatDue PROVE LinkInv'
  BY <1>3 DEF HeartbeatDue
<1>4. ASSUME BeginRebuild PROVE LinkInv'
  BY <1>4 DEF BeginRebuild, Drop
<1>5. ASSUME NEW r \in Request, Ask(r) PROVE LinkInv'
  BY <1>5 DEF Ask
<1>6. ASSUME NEW c \in Caller, Acquire(c) PROVE LinkInv'
  BY <1>6 DEF Acquire
<1>7. ASSUME NEW c \in Caller, DialSucceeds(c) PROVE LinkInv'
  BY <1>7 DEF DialSucceeds
<1>8. ASSUME NEW c \in Caller, DialFails(c) PROVE LinkInv'
  BY <1>8 DEF DialFails, Return
<1>9. ASSUME NEW c \in Caller, Drained(c) PROVE LinkInv'
  BY <1>9 DEF Drained
<1>10. ASSUME NEW c \in Caller, WriteReaches(c) PROVE LinkInv'
  BY <1>10 DEF WriteReaches
<1>11. ASSUME NEW c \in Caller, WriteIsLost(c) PROVE LinkInv'
  BY <1>11 DEF WriteIsLost
<1>12. ASSUME NEW c \in Caller, WriteFails(c) PROVE LinkInv'
  BY <1>12 DEF WriteFails, Drop, Return
<1>13. ASSUME NEW c \in Caller, ReadContinuation(c) PROVE LinkInv'
  BY <1>13 DEF ReadContinuation
<1>14. ASSUME NEW c \in Caller, ReadLast(c) PROVE LinkInv'
  BY <1>14 DEF ReadLast, Return
<1>15. ASSUME NEW c \in Caller, ReadCutShort(c) PROVE LinkInv'
  BY <1>15 DEF ReadCutShort, Return
<1>16. ASSUME NEW c \in Caller, ReadFails(c) PROVE LinkInv'
  BY <1>16 DEF ReadFails, Drop, Return
<1>17. ASSUME NEW last \in BOOLEAN, Emit(last) PROVE LinkInv'
  BY <1>17 DEF Emit
<1>18. ASSUME Hang PROVE LinkInv'
  BY <1>18 DEF Hang
<1>19. ASSUME Resume PROVE LinkInv'
  BY <1>19 DEF Resume
<1>20. ASSUME Crash PROVE LinkInv'
  BY <1>20 DEF Crash
<1>21. ASSUME Start PROVE LinkInv'
  BY <1>21 DEF Start
<1>22. ASSUME UNCHANGED vars PROVE LinkInv'
  BY <1>22 DEF vars
<1> QED
  BY <1>1, <1>2, <1>3, <1>4, <1>5, <1>6, <1>7, <1>8, <1>9, <1>10, <1>11, <1>12,
     <1>13, <1>14, <1>15, <1>16, <1>17, <1>18, <1>19, <1>20, <1>21, <1>22
  DEF Next, Step, Maintain, CGate

\* Only the write that leads to the read delivers, and it happens once.
LEMMA StepDelivery == TypeOK /\ MutexInv /\ SiteInv /\ DeliveryInv /\ [Next]_vars => DeliveryInv'
<1> SUFFICES ASSUME TypeOK, MutexInv, SiteInv, DeliveryInv, [Next]_vars
             PROVE  DeliveryInv'
  OBVIOUS
<1> USE CallersDistinct DEF TypeOK, MutexInv, Caller, Critical, Goto, session, link, history, SiteInv, DeliveryInv, Refusals
<1>1. ASSUME PollDown PROVE DeliveryInv'
  BY <1>1 DEF PollDown
<1>2. ASSUME PollHeartbeat PROVE DeliveryInv'
  BY <1>2 DEF PollHeartbeat
<1>3. ASSUME HeartbeatDue PROVE DeliveryInv'
  BY <1>3 DEF HeartbeatDue
<1>4. ASSUME BeginRebuild PROVE DeliveryInv'
  BY <1>4 DEF BeginRebuild, Drop
<1>5. ASSUME NEW r \in Request, Ask(r) PROVE DeliveryInv'
  BY <1>5 DEF Ask
<1>6. ASSUME NEW c \in Caller, Acquire(c) PROVE DeliveryInv'
  BY <1>6 DEF Acquire
<1>7. ASSUME NEW c \in Caller, DialSucceeds(c) PROVE DeliveryInv'
  BY <1>7 DEF DialSucceeds
<1>8. ASSUME NEW c \in Caller, DialFails(c) PROVE DeliveryInv'
  BY <1>8 DEF DialFails, Return
<1>9. ASSUME NEW c \in Caller, Drained(c) PROVE DeliveryInv'
  BY <1>9 DEF Drained
<1>10. ASSUME NEW c \in Caller, WriteReaches(c) PROVE DeliveryInv'
  BY <1>10 DEF WriteReaches
<1>11. ASSUME NEW c \in Caller, WriteIsLost(c) PROVE DeliveryInv'
  BY <1>11 DEF WriteIsLost
<1>12. ASSUME NEW c \in Caller, WriteFails(c) PROVE DeliveryInv'
  BY <1>12 DEF WriteFails, Drop, Return
<1>13. ASSUME NEW c \in Caller, ReadContinuation(c) PROVE DeliveryInv'
  BY <1>13 DEF ReadContinuation
<1>14. ASSUME NEW c \in Caller, ReadLast(c) PROVE DeliveryInv'
  BY <1>14 DEF ReadLast, Return
<1>15. ASSUME NEW c \in Caller, ReadCutShort(c) PROVE DeliveryInv'
  BY <1>15 DEF ReadCutShort, Return
<1>16. ASSUME NEW c \in Caller, ReadFails(c) PROVE DeliveryInv'
  BY <1>16 DEF ReadFails, Drop, Return
<1>17. ASSUME NEW last \in BOOLEAN, Emit(last) PROVE DeliveryInv'
  BY <1>17 DEF Emit
<1>18. ASSUME Hang PROVE DeliveryInv'
  BY <1>18 DEF Hang
<1>19. ASSUME Resume PROVE DeliveryInv'
  BY <1>19 DEF Resume
<1>20. ASSUME Crash PROVE DeliveryInv'
  BY <1>20 DEF Crash
<1>21. ASSUME Start PROVE DeliveryInv'
  BY <1>21 DEF Start
<1>22. ASSUME UNCHANGED vars PROVE DeliveryInv'
  BY <1>22 DEF vars
<1> QED
  BY <1>1, <1>2, <1>3, <1>4, <1>5, <1>6, <1>7, <1>8, <1>9, <1>10, <1>11, <1>12,
     <1>13, <1>14, <1>15, <1>16, <1>17, <1>18, <1>19, <1>20, <1>21, <1>22
  DEF Next, Step, Maintain, CGate

\* The reply is empty until the command has been written.
LEMMA StepFreshReply == TypeOK /\ MutexInv /\ FreshReplyInv /\ [Next]_vars => FreshReplyInv'
<1> SUFFICES ASSUME TypeOK, MutexInv, FreshReplyInv, [Next]_vars
             PROVE  FreshReplyInv'
  OBVIOUS
<1> USE CallersDistinct DEF TypeOK, MutexInv, Caller, Critical, Goto, session, link, history, FreshReplyInv
<1>1. ASSUME PollDown PROVE FreshReplyInv'
  BY <1>1 DEF PollDown
<1>2. ASSUME PollHeartbeat PROVE FreshReplyInv'
  BY <1>2 DEF PollHeartbeat
<1>3. ASSUME HeartbeatDue PROVE FreshReplyInv'
  BY <1>3 DEF HeartbeatDue
<1>4. ASSUME BeginRebuild PROVE FreshReplyInv'
  BY <1>4 DEF BeginRebuild, Drop
<1>5. ASSUME NEW r \in Request, Ask(r) PROVE FreshReplyInv'
  BY <1>5 DEF Ask
<1>6. ASSUME NEW c \in Caller, Acquire(c) PROVE FreshReplyInv'
  BY <1>6 DEF Acquire
<1>7. ASSUME NEW c \in Caller, DialSucceeds(c) PROVE FreshReplyInv'
  BY <1>7 DEF DialSucceeds
<1>8. ASSUME NEW c \in Caller, DialFails(c) PROVE FreshReplyInv'
  BY <1>8 DEF DialFails, Return
<1>9. ASSUME NEW c \in Caller, Drained(c) PROVE FreshReplyInv'
  BY <1>9 DEF Drained
<1>10. ASSUME NEW c \in Caller, WriteReaches(c) PROVE FreshReplyInv'
  BY <1>10 DEF WriteReaches
<1>11. ASSUME NEW c \in Caller, WriteIsLost(c) PROVE FreshReplyInv'
  BY <1>11 DEF WriteIsLost
<1>12. ASSUME NEW c \in Caller, WriteFails(c) PROVE FreshReplyInv'
  BY <1>12 DEF WriteFails, Drop, Return
<1>13. ASSUME NEW c \in Caller, ReadContinuation(c) PROVE FreshReplyInv'
  BY <1>13 DEF ReadContinuation
<1>14. ASSUME NEW c \in Caller, ReadLast(c) PROVE FreshReplyInv'
  BY <1>14 DEF ReadLast, Return
<1>15. ASSUME NEW c \in Caller, ReadCutShort(c) PROVE FreshReplyInv'
  BY <1>15 DEF ReadCutShort, Return
<1>16. ASSUME NEW c \in Caller, ReadFails(c) PROVE FreshReplyInv'
  BY <1>16 DEF ReadFails, Drop, Return
<1>17. ASSUME NEW last \in BOOLEAN, Emit(last) PROVE FreshReplyInv'
  BY <1>17 DEF Emit
<1>18. ASSUME Hang PROVE FreshReplyInv'
  BY <1>18 DEF Hang
<1>19. ASSUME Resume PROVE FreshReplyInv'
  BY <1>19 DEF Resume
<1>20. ASSUME Crash PROVE FreshReplyInv'
  BY <1>20 DEF Crash
<1>21. ASSUME Start PROVE FreshReplyInv'
  BY <1>21 DEF Start
<1>22. ASSUME UNCHANGED vars PROVE FreshReplyInv'
  BY <1>22 DEF vars
<1> QED
  BY <1>1, <1>2, <1>3, <1>4, <1>5, <1>6, <1>7, <1>8, <1>9, <1>10, <1>11, <1>12,
     <1>13, <1>14, <1>15, <1>16, <1>17, <1>18, <1>19, <1>20, <1>21, <1>22
  DEF Next, Step, Maintain, CGate

\* A last line is taken only by the caller whose read it ends.
LEMMA StepReplyIsOwed == TypeOK /\ MutexInv /\ ReplyIsOwed /\ [Next]_vars => ReplyIsOwed'
<1> SUFFICES ASSUME TypeOK, MutexInv, ReplyIsOwed, [Next]_vars
             PROVE  ReplyIsOwed'
  OBVIOUS
<1> USE CallersDistinct DEF TypeOK, MutexInv, Caller, Critical, Goto, session, link, history, ReplyIsOwed
<1>1. ASSUME PollDown PROVE ReplyIsOwed'
  BY <1>1 DEF PollDown
<1>2. ASSUME PollHeartbeat PROVE ReplyIsOwed'
  BY <1>2 DEF PollHeartbeat
<1>3. ASSUME HeartbeatDue PROVE ReplyIsOwed'
  BY <1>3 DEF HeartbeatDue
<1>4. ASSUME BeginRebuild PROVE ReplyIsOwed'
  BY <1>4 DEF BeginRebuild, Drop
<1>5. ASSUME NEW r \in Request, Ask(r) PROVE ReplyIsOwed'
  BY <1>5 DEF Ask
<1>6. ASSUME NEW c \in Caller, Acquire(c) PROVE ReplyIsOwed'
  BY <1>6 DEF Acquire
<1>7. ASSUME NEW c \in Caller, DialSucceeds(c) PROVE ReplyIsOwed'
  BY <1>7 DEF DialSucceeds
<1>8. ASSUME NEW c \in Caller, DialFails(c) PROVE ReplyIsOwed'
  BY <1>8 DEF DialFails, Return
<1>9. ASSUME NEW c \in Caller, Drained(c) PROVE ReplyIsOwed'
  BY <1>9 DEF Drained
<1>10. ASSUME NEW c \in Caller, WriteReaches(c) PROVE ReplyIsOwed'
  <2>1. pending' = Append(pending, c) /\ c \in Caller \cup {Banner}
    BY <1>10 DEF WriteReaches
  <2>2. Len(pending') = Len(pending) + 1 /\ Len(pending) \in Nat
    BY <2>1, AppendProperties, LenProperties
  <2>3. pending' # <<>>
    BY <2>2, EmptySeq
  <2> QED
    BY <1>10, <2>3 DEF WriteReaches
<1>11. ASSUME NEW c \in Caller, WriteIsLost(c) PROVE ReplyIsOwed'
  BY <1>11 DEF WriteIsLost
<1>12. ASSUME NEW c \in Caller, WriteFails(c) PROVE ReplyIsOwed'
  BY <1>12 DEF WriteFails, Drop, Return
<1>13. ASSUME NEW c \in Caller, ReadContinuation(c) PROVE ReplyIsOwed'
  <2> SUFFICES ASSUME NEW d \in Caller, pc[d] = "read", conn = "open", pending = <<>>
               PROVE  \E i \in DOMAIN inbox' : inbox'[i].last
    BY <1>13 DEF ReadContinuation
  <2>1. PICK i \in 1 .. Len(inbox) : inbox[i].last
    BY LenProperties
  <2>2. i # 1
    BY <1>13, <2>1 DEF ReadContinuation
  <2>3. /\ inbox' \in Seq(Line)
        /\ i - 1 \in 1 .. Len(inbox')
        /\ inbox'[i - 1] = inbox[i]
    BY <1>13, <2>2, HeadTailProperties, LenProperties DEF ReadContinuation
  <2> QED
    BY <2>1, <2>3, LenProperties
<1>14. ASSUME NEW c \in Caller, ReadLast(c) PROVE ReplyIsOwed'
  BY <1>14 DEF ReadLast, Return
<1>15. ASSUME NEW c \in Caller, ReadCutShort(c) PROVE ReplyIsOwed'
  BY <1>15 DEF ReadCutShort, Return
<1>16. ASSUME NEW c \in Caller, ReadFails(c) PROVE ReplyIsOwed'
  BY <1>16 DEF ReadFails, Drop, Return
<1>17. ASSUME NEW last \in BOOLEAN, Emit(last) PROVE ReplyIsOwed'
  <2>1. CASE ~last
    BY <1>17, <2>1 DEF Emit
  <2>2. CASE last
    <3> DEFINE line == [of |-> Head(pending), last |-> last]
    <3>1. line \in Line /\ line.last
      BY <1>17, <2>2, HeadTailProperties DEF Emit, Line
    <3>2. inbox' \in Seq(Line) /\ Len(inbox') \in DOMAIN inbox' /\ inbox'[Len(inbox')] = line
      BY <1>17, <3>1, AppendProperties, LenProperties DEF Emit
    <3> QED
      BY <3>1, <3>2
  <2> QED
    BY <2>1, <2>2
<1>18. ASSUME Hang PROVE ReplyIsOwed'
  BY <1>18 DEF Hang
<1>19. ASSUME Resume PROVE ReplyIsOwed'
  BY <1>19 DEF Resume
<1>20. ASSUME Crash PROVE ReplyIsOwed'
  BY <1>20 DEF Crash
<1>21. ASSUME Start PROVE ReplyIsOwed'
  BY <1>21 DEF Start
<1>22. ASSUME UNCHANGED vars PROVE ReplyIsOwed'
  BY <1>22 DEF vars
<1> QED
  BY <1>1, <1>2, <1>3, <1>4, <1>5, <1>6, <1>7, <1>8, <1>9, <1>10, <1>11, <1>12,
     <1>13, <1>14, <1>15, <1>16, <1>17, <1>18, <1>19, <1>20, <1>21, <1>22
  DEF Next, Step, Maintain, CGate

\* Between two commands a clean connection is empty.
LEMMA StepClean == TypeOK /\ MutexInv /\ FlagInv /\ LinkInv /\ DeliveryInv /\ FreshReplyInv /\ CleanInv /\ [Next]_vars => CleanInv'
<1> SUFFICES ASSUME TypeOK, MutexInv, FlagInv, LinkInv, DeliveryInv, FreshReplyInv, CleanInv, [Next]_vars
             PROVE  CleanInv'
  OBVIOUS
<1> USE CallersDistinct DEF TypeOK, MutexInv, Caller, Critical, Goto, session, link, history, CleanInv
<1>1. ASSUME PollDown PROVE CleanInv'
  BY <1>1 DEF PollDown
<1>2. ASSUME PollHeartbeat PROVE CleanInv'
  BY <1>2 DEF PollHeartbeat
<1>3. ASSUME HeartbeatDue PROVE CleanInv'
  BY <1>3 DEF HeartbeatDue
<1>4. ASSUME BeginRebuild PROVE CleanInv'
  BY <1>4 DEF BeginRebuild, Drop
<1>5. ASSUME NEW r \in Request, Ask(r) PROVE CleanInv'
  BY <1>5 DEF Ask
<1>6. ASSUME NEW c \in Caller, Acquire(c) PROVE CleanInv'
  BY <1>6 DEF Acquire
<1>7. ASSUME NEW c \in Caller, DialSucceeds(c) PROVE CleanInv'
  BY <1>7 DEF DialSucceeds
<1>8. ASSUME NEW c \in Caller, DialFails(c) PROVE CleanInv'
  <2>1. pending = <<>> /\ inbox = <<>>
    BY <1>8 DEF DialFails, FlagInv, LinkInv
  <2> QED
    BY <1>8, <2>1 DEF DialFails, Return
<1>9. ASSUME NEW c \in Caller, Drained(c) PROVE CleanInv'
  <2>1. CASE pending = <<>>
    BY <1>9, <2>1 DEF Drained
  <2>2. CASE pending # <<>>
    BY <1>9, <2>2 DEF Drained
  <2> QED
    BY <2>1, <2>2
<1>10. ASSUME NEW c \in Caller, WriteReaches(c) PROVE CleanInv'
  <2>1. Append(<<>>, c) = <<c>>
    OBVIOUS
  <2>2. c \in Request => delivered'[c] # 0
    BY <1>10 DEF WriteReaches, DeliveryInv
  <2>3. reply = {}
    BY <1>10 DEF WriteReaches, FreshReplyInv
  <2>4. ~skewed => inbox = <<>> /\ pending' = <<c>>
    BY <1>10, <2>1 DEF WriteReaches
  <2>5. inbox = <<>> => 1 .. Len(inbox) = {}
    OBVIOUS
  <2> QED
    BY <1>10, <2>2, <2>3, <2>4, <2>5 DEF WriteReaches
<1>11. ASSUME NEW c \in Caller, WriteIsLost(c) PROVE CleanInv'
  <2>1. reply = {}
    BY <1>11 DEF WriteIsLost, FreshReplyInv
  <2>2. ~skewed => inbox = <<>> /\ pending = <<>>
    BY <1>11 DEF WriteIsLost
  <2>3. inbox = <<>> => 1 .. Len(inbox) = {}
    OBVIOUS
  <2> QED
    BY <1>11, <2>1, <2>2, <2>3 DEF WriteIsLost
<1>12. ASSUME NEW c \in Caller, WriteFails(c) PROVE CleanInv'
  BY <1>12 DEF WriteFails, Drop, Return
<1>13. ASSUME NEW c \in Caller, ReadContinuation(c) PROVE CleanInv'
  BY <1>13 DEF ReadContinuation
<1>14. ASSUME NEW c \in Caller, ReadLast(c) PROVE CleanInv'
  BY <1>14 DEF ReadLast, Return
<1>15. ASSUME NEW c \in Caller, ReadCutShort(c) PROVE CleanInv'
  BY <1>15 DEF ReadCutShort, Return, Silent
<1>16. ASSUME NEW c \in Caller, ReadFails(c) PROVE CleanInv'
  BY <1>16 DEF ReadFails, Drop, Return, Silent
<1>17. ASSUME NEW last \in BOOLEAN, Emit(last) PROVE CleanInv'
  <2> SUFFICES ASSUME ~skewed PROVE CleanInv'
    BY <1>17 DEF Emit
  <2>1. PICK c \in Caller : lock = c
    BY <1>17 DEF Emit
  <2>2. pc[c] # "write"
    BY <1>17, <2>1 DEF Emit
  <2>3. CASE pc[c] = "read"
    <3>0. pending = <<c>>
      BY <1>17, <2>3 DEF Emit
    <3>1. pending = <<c>> /\ Head(pending) = c /\ Tail(pending) = <<>>
      BY <3>0
    <3>2. \A i \in 1 .. Len(inbox) : inbox[i].of = c /\ ~inbox[i].last
      BY <2>3, <3>1
    <3>3. [of |-> c, last |-> last] \in Line
      BY DEF Line
    <3>4. /\ Len(inbox') = Len(inbox) + 1
          /\ \A i \in 1 .. Len(inbox) : inbox'[i] = inbox[i]
          /\ inbox'[Len(inbox) + 1] = [of |-> c, last |-> last]
      BY <1>17, <3>1, <3>3, AppendProperties, LenProperties DEF Emit
    <3>5. \A i \in 1 .. Len(inbox') : i \in 1 .. Len(inbox) \/ i = Len(inbox) + 1
      BY <3>4, LenProperties
    <3>6. pending' = <<c>> \/ (pending' = <<>> /\ last)
      BY <1>17, <3>1 DEF Emit
    <3>7. last => pending' = <<>>
      BY <1>17, <3>1 DEF Emit
    <3>8. \A i \in 1 .. Len(inbox') :
            /\ inbox'[i].of = c
            /\ inbox'[i].last => i = Len(inbox') /\ pending' = <<>>
      BY <3>2, <3>4, <3>5, <3>7
    <3> QED
      BY <1>17, <2>1, <2>3, <3>1, <3>6, <3>8 DEF Emit
  <2>4. CASE pc[c] # "read"
    BY <1>17, <2>1, <2>2, <2>4 DEF Emit
  <2> QED
    BY <2>3, <2>4
<1>18. ASSUME Hang PROVE CleanInv'
  BY <1>18 DEF Hang
<1>19. ASSUME Resume PROVE CleanInv'
  BY <1>19 DEF Resume
<1>20. ASSUME Crash PROVE CleanInv'
  BY <1>20 DEF Crash
<1>21. ASSUME Start PROVE CleanInv'
  BY <1>21 DEF Start
<1>22. ASSUME UNCHANGED vars PROVE CleanInv'
  BY <1>22 DEF vars
<1> QED
  BY <1>1, <1>2, <1>3, <1>4, <1>5, <1>6, <1>7, <1>8, <1>9, <1>10, <1>11, <1>12,
     <1>13, <1>14, <1>15, <1>16, <1>17, <1>18, <1>19, <1>20, <1>21, <1>22
  DEF Next, Step, Maintain, CGate
-----------------------------------------------------------------------------
(* The invariant as a whole. *)

LEMMA InitInv == Init => IInv
<1> SUFFICES ASSUME Init PROVE IInv
  OBVIOUS
<1> USE CallersDistinct DEF Init, Caller, Critical
<1>1. TypeOK
  BY InitType
<1>2. MutexInv /\ SiteInv
  BY DEF MutexInv, SiteInv
<1>3. FlagInv /\ LinkInv
  BY DEF FlagInv, LinkInv
<1>4. DeliveryInv
  <2>1. \A r \in Request : pc[r] = "idle" /\ delivered[r] = 0 /\ outcome[r] = "none"
    OBVIOUS
  <2>2. \A r \in Request : delivered[r] \in {0, 1}
    BY <2>1
  <2>3. \A r \in Request : pc[r] = "done" <=> outcome[r] # "none"
    BY <2>1
  <2>4. \A r \in Request : outcome[r] \notin Refusals
    BY <2>1 DEF Refusals
  <2> QED
    BY <2>1, <2>2, <2>3, <2>4 DEF DeliveryInv
<1>5. FreshReplyInv /\ CleanInv
  BY DEF FreshReplyInv, CleanInv
<1>6. ReplyIsOwed
  BY DEF ReplyIsOwed
<1> QED
  BY <1>1, <1>2, <1>3, <1>4, <1>5, <1>6 DEF IInv

LEMMA StepInv == IInv /\ [Next]_vars => IInv'
BY StepType, StepMutex, StepSite, StepFlag, StepLink, StepDelivery,
   StepFreshReply, StepReplyIsOwed, StepClean DEF IInv

\* Every behaviour of the session keeps the inductive invariant.
THEOREM Invariance == Spec => []IInv
<1> QED
  BY InitInv, StepInv, PTL DEF Spec

-----------------------------------------------------------------------------
(* The results. *)

\* Every variable keeps to the values the code can give it.
THEOREM TypeCorrect == Spec => []TypeOK
<1>1. IInv => TypeOK
  BY DEF IInv
<1> QED
  BY <1>1, Invariance, PTL

\* commandUp, read without the mutex, never claims a session that has no
\* connection, and agrees with s.conn whenever the mutex is free.
THEOREM FlagIsTruthful == Spec => []FlagTellsSession
<1>1. IInv => FlagTellsSession
  <2> SUFFICES ASSUME IInv, commandUp, conn = "nil"
               PROVE  FALSE
    BY DEF IInv, FlagInv, FlagTellsSession
  <2>1. lock \in Caller
    BY DEF IInv, TypeOK, FlagInv
  <2>2. pc[lock] \in Critical
    BY <2>1 DEF IInv, MutexInv
  <2> QED
    BY <2>1, <2>2 DEF IInv, FlagInv, Critical
<1> QED
  BY <1>1, Invariance, PTL

\* No command reaches C-Gate twice, and none whose request was refused reaches
\* it at all.
THEOREM DeliveredAtMostOnce == Spec => []AtMostOnce
<1>1. IInv => AtMostOnce
  <2> SUFFICES ASSUME IInv, NEW r \in Request
               PROVE  delivered[r] <= 1 /\ (outcome[r] \in Refusals => delivered[r] = 0)
    BY DEF AtMostOnce
  <2>1. delivered[r] = 0 \/ delivered[r] = 1
    BY DEF IInv, DeliveryInv
  <2>2. outcome[r] \in Refusals => delivered[r] = 0
    BY DEF IInv, DeliveryInv
  <2> QED
    BY <2>1, <2>2
<1> QED
  BY <1>1, Invariance, PTL

\* A caller that reads from a live connection is owed a last line, so a
\* responsive C-Gate always ends its read.
THEOREM ReplyAlwaysOwed == Spec => []ReplyIsOwed
<1>1. IInv => ReplyIsOwed
  BY DEF IInv
<1> QED
  BY <1>1, Invariance, PTL

\* The only way for send to succeed: the read of the last line, or a reply cut
\* short.
LEMMA OnlyReadsSucceed ==
  ASSUME TypeOK, Next, NEW r \in Request, outcome[r] = "none", outcome'[r] = "ok"
  PROVE  ReadLast(r) \/ ReadCutShort(r)
<1> USE DEF TypeOK, Caller, session, history, link
<1>1. \A s \in Request : Ask(s) => outcome'[r] = outcome[r]
  BY DEF Ask
<1>2. Maintain => outcome'[r] = outcome[r]
  BY DEF Maintain, PollDown, PollHeartbeat, HeartbeatDue, BeginRebuild
<1>3. CGate => outcome'[r] = outcome[r]
  BY DEF CGate, Emit, Hang, Resume, Crash, Start
<1>4. \A c \in Caller :
        Acquire(c) \/ DialSucceeds(c) \/ Drained(c) \/ WriteReaches(c)
          \/ WriteIsLost(c) \/ ReadContinuation(c) => outcome'[r] = outcome[r]
  BY DEF Acquire, DialSucceeds, Drained, WriteReaches, WriteIsLost, ReadContinuation
<1>5. \A c \in Caller :
        DialFails(c) \/ WriteFails(c) \/ ReadFails(c) => outcome'[r] # "ok"
  BY DEF DialFails, WriteFails, ReadFails, Return
<1>6. \A c \in Caller : ReadLast(c) \/ ReadCutShort(c) => c = r
  BY DEF ReadLast, ReadCutShort, Return
<1> QED
  BY <1>1, <1>2, <1>3, <1>4, <1>5, <1>6 DEF Next, Step

\* On a connection that is not skewed, send succeeds with lines of its own
\* command only, and that command has reached C-Gate.
THEOREM CleanAnswers == Spec => CleanConnectionAnswersOwn
<1> DEFINE Own(r) == outcome[r] = "none" /\ outcome'[r] = "ok" /\ ~skewed =>
                       answer'[r] = {r} /\ delivered[r] = 1
<1>1. IInv /\ [Next]_vars => [\A r \in Request : Own(r)]_vars
  <2> SUFFICES ASSUME IInv, Next, NEW r \in Request,
                      outcome[r] = "none", outcome'[r] = "ok", ~skewed
               PROVE  answer'[r] = {r} /\ delivered[r] = 1
    OBVIOUS
  <2>1. ReadLast(r) \/ ReadCutShort(r)
    BY OnlyReadsSucceed DEF IInv
  <2>2. r \in Caller /\ pc[r] = "read"
    BY <2>1 DEF ReadLast, ReadCutShort, Caller
  <2>3. reply \subseteq {r}
    BY <2>2 DEF IInv, CleanInv
  <2>4. delivered[r] \in Nat /\ delivered[r] <= 1
    BY DEF IInv, TypeOK, DeliveryInv
  <2>5. CASE ReadLast(r)
    <3>1. inbox # <<>> /\ answer'[r] = reply \cup {Head(inbox).of}
      BY <2>5 DEF ReadLast, Return
    <3>2. Head(inbox) = inbox[1] /\ 1 \in 1 .. Len(inbox)
      BY <3>1, EmptySeq, LenProperties DEF IInv, TypeOK
    <3>3. Head(inbox).of = r /\ delivered[r] # 0
      BY <2>2, <3>1, <3>2 DEF IInv, CleanInv
    <3> QED
      BY <2>3, <2>4, <3>1, <3>3
  <2>6. CASE ReadCutShort(r)
    <3>1. reply # {} /\ answer'[r] = reply
      BY <2>6 DEF ReadCutShort, Return
    <3>2. delivered[r] # 0
      BY <2>2, <3>1 DEF IInv, CleanInv
    <3> QED
      BY <2>3, <2>4, <3>1, <3>2
  <2> QED
    BY <2>1, <2>5, <2>6
<1> QED
  BY <1>1, Invariance, PTL DEF Spec, CleanConnectionAnswersOwn

-----------------------------------------------------------------------------
(* The session implements the command service. *)

\* A return of send is an answer of the service, or no step of it when the
\* sender is maintain.
LEMMA ReturnAnswers ==
  ASSUME IInv, NEW c \in Caller, pc[c] \in Critical,
         NEW result \in {"ok", "dialErr", "writeErr", "readErr"},
         NEW lines, Return(c, result, lines), UNCHANGED delivered,
         c \in Request /\ result \in Refusals => delivered[c] = 0
  PROVE  [Service!Next]_<<{r \in Request : pc[r] # "idle"}, delivered, outcome>>
<1> DEFINE asked == {r \in Request : pc[r] # "idle"}
<1>1. asked' = asked
  BY CallersDistinct DEF Return, Goto, IInv, TypeOK, Critical
<1>2. CASE c = Maintainer
  <2>1. outcome' = outcome
    BY <1>2, CallersDistinct DEF Return, IInv, TypeOK
  <2> QED
    BY <1>1, <2>1
<1>3. CASE c \in Request
  <2>1. outcome' = [outcome EXCEPT ![c] = result]
    BY <1>3 DEF Return, IInv, TypeOK
  <2>2. outcome[c] = "none" /\ c \in asked
    BY <1>3 DEF IInv, DeliveryInv, TypeOK, Critical
  <2>3. Service!Answer(c, result)
    BY <1>1, <1>3, <2>1, <2>2 DEF Service!Answer, Refusals
  <2> QED
    BY <1>3, <2>3 DEF Service!Next
<1> QED
  BY <1>2, <1>3 DEF Caller

LEMMA ServiceStep ==
  IInv /\ [Next]_vars =>
    [Service!Next]_<<{r \in Request : pc[r] # "idle"}, delivered, outcome>>
<1> DEFINE asked == {r \in Request : pc[r] # "idle"}
           Goal == [Service!Next]_<<asked, delivered, outcome>>
<1> SUFFICES ASSUME IInv, [Next]_vars PROVE Goal
  OBVIOUS
<1>0. TypeOK
  BY DEF IInv
<1> HIDE DEF Goal
<1> USE CallersDistinct DEF session, link, history
<1>1. ASSUME UNCHANGED <<asked, delivered, outcome>> PROVE Goal
  BY <1>1 DEF Goal
<1>2. ASSUME NEW c \in Caller, NEW stage, Goto(c, stage), stage # "idle", pc[c] # "idle",
             UNCHANGED <<delivered, outcome>>
      PROVE  Goal
  <2>1. asked' = asked
    BY <1>0, <1>2 DEF Goto, TypeOK
  <2> QED
    BY <1>1, <1>2, <2>1
<1>3. ASSUME UNCHANGED <<pc, delivered, outcome>> PROVE Goal
  BY <1>1, <1>3
<1>4. CASE UNCHANGED vars
  BY <1>3, <1>4 DEF vars
<1>5. CASE Maintain
  <2>1. CASE HeartbeatDue
    BY <1>3, <2>1 DEF HeartbeatDue
  <2>2. CASE PollDown \/ PollHeartbeat \/ BeginRebuild
    BY <1>2, <2>2 DEF PollDown, PollHeartbeat, BeginRebuild, Caller
  <2> QED
    BY <1>5, <2>1, <2>2 DEF Maintain
<1>6. CASE CGate
  BY <1>3, <1>6 DEF CGate, Emit, Hang, Resume, Crash, Start
<1>7. ASSUME NEW r \in Request, Ask(r) PROVE Goal
  <2>1. r \notin asked /\ asked' = asked \cup {r}
    BY <1>0, <1>7 DEF Ask, Goto, TypeOK, Caller
  <2>2. Service!Ask(r)
    BY <1>7, <2>1 DEF Service!Ask, Ask
  <2> QED
    BY <2>2 DEF Goal, Service!Next
<1>8. ASSUME NEW c \in Caller, Acquire(c) \/ DialSucceeds(c) \/ WriteIsLost(c) PROVE Goal
  BY <1>2, <1>8 DEF Acquire, DialSucceeds, WriteIsLost
<1>9. ASSUME NEW c \in Caller, Drained(c) PROVE Goal
  BY <1>2, <1>9 DEF Drained
<1>10. ASSUME NEW c \in Caller, ReadContinuation(c) PROVE Goal
  BY <1>3, <1>10 DEF ReadContinuation
<1>11. ASSUME NEW c \in Caller, WriteReaches(c) PROVE Goal
  <2>1. CASE c = Maintainer
    <3>1. delivered' = delivered
      BY <1>0, <1>11, <2>1 DEF WriteReaches, TypeOK
    <3> QED
      BY <1>2, <1>11, <3>1 DEF WriteReaches
  <2>2. CASE c \in Request
    <3>1. asked' = asked /\ c \in asked
      BY <1>0, <1>11, <2>2 DEF WriteReaches, Goto, TypeOK
    <3>2. delivered[c] = 0 /\ outcome[c] = "none"
      BY <1>11, <2>2 DEF WriteReaches, IInv, DeliveryInv, TypeOK
    <3>3. delivered' = [delivered EXCEPT ![c] = 1]
      <4>1. \A r \in Request : delivered'[r] = IF r = c THEN 1 ELSE delivered[r]
        BY <1>0, <1>11, <3>2 DEF WriteReaches, TypeOK
      <4>2. delivered' \in [Request -> Nat] /\ delivered \in [Request -> Nat]
        BY <1>0, <1>11 DEF WriteReaches, TypeOK
      <4> QED
        BY <4>1, <4>2
    <3>4. Service!Deliver(c)
      BY <1>11, <3>1, <3>2, <3>3 DEF Service!Deliver, WriteReaches
    <3> QED
      BY <2>2, <3>4 DEF Goal, Service!Next
  <2> QED
    BY <2>1, <2>2 DEF Caller
<1>12. ASSUME NEW c \in Caller, DialFails(c) PROVE Goal
  <2>1. CASE site = "rebuild"
    BY <1>2, <1>12, <2>1 DEF DialFails
  <2>2. CASE site # "rebuild"
    <3>1. c \in Request => delivered[c] = 0
      BY <1>12 DEF DialFails, IInv, DeliveryInv
    <3> QED
      BY <1>12, <2>2, <3>1, ReturnAnswers DEF DialFails, Critical, Goal
  <2> QED
    BY <2>1, <2>2
<1>13. ASSUME NEW c \in Caller, WriteFails(c) PROVE Goal
  <2>1. CASE site = "first"
    BY <1>2, <1>13, <2>1 DEF WriteFails
  <2>2. CASE site = "resend"
    <3>1. c \in Request => delivered[c] = 0
      BY <1>13 DEF WriteFails, IInv, DeliveryInv
    <3> QED
      BY <1>13, <2>2, <3>1, ReturnAnswers DEF WriteFails, Critical, Goal
  <2> QED
    BY <1>13, <2>1, <2>2 DEF WriteFails
<1>14. ASSUME NEW c \in Caller, ReadLast(c) \/ ReadCutShort(c) \/ ReadFails(c) PROVE Goal
  BY <1>14, ReturnAnswers DEF ReadLast, ReadCutShort, ReadFails, Critical, Refusals, Goal
<1> QED
  BY <1>4, <1>5, <1>6, <1>7, <1>8, <1>9, <1>10, <1>11, <1>12, <1>13, <1>14
  DEF Next, Step

\* Whatever happens to its connections, the session is a command service:
\* delivery at most once, before the answer, and never after a refusal.
THEOREM Refinement == Spec => RefinesService
<1>1. Init => Service!Init
  BY CallersDistinct DEF Init, Service!Init, Caller
<1> QED
  BY <1>1, ServiceStep, Invariance, PTL DEF Spec, RefinesService, Service!Spec
=============================================================================
