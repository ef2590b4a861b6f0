---------------------------- MODULE StreamProofs ----------------------------
(***************************************************************************)
(* Stream implements StreamAbs, for any number of goroutines at either     *)
(* endpoint, any queue size and any number of messages; and what the two   *)
(* ends of a WebSocket connection, each with such a stream, are told of    *)
(* each other (WebSocketConn).                                             *)
(***************************************************************************)
EXTENDS Stream, WebSocketConn, TLAPS

Terminals == {"none", "eof", "app", "unavailable"}
Labels == {"idle"} \cup Sending \cup Receiving \cup Halving

(* What every variable of the session holds. *)
StreamTypeOK ==
  /\ queueSize \in Nat
  /\ sent \in [Sides -> Nat] /\ got \in [Sides -> Nat] /\ promised \in [Sides -> Nat]
  /\ halfClosed \in BOOLEAN /\ live \in BOOLEAN /\ eof \in BOOLEAN
  /\ terminal \in Terminals
  /\ pc \in [Procs -> Labels]
  /\ told \subseteq Sides

(* The channels: nothing is received that was not sent, and no more waits   *)
(* than fits.                                                               *)
QueueBounded == \A d \in Sides : got[d] <= sent[d] /\ sent[d] <= got[d] + queueSize

(* The send gate: one Send per direction, and none of the client's after    *)
(* its half-close.                                                          *)
OneSender ==
  /\ \A g, h \in Procs : Side(g) = Side(h) /\ pc[g] \in Sending /\ pc[h] \in Sending => g = h
  /\ halfClosed => \A g \in Procs : Side(g) = "client" => pc[g] \notin Sending

(* A Recv that looks at the queue a last time was told why by the session.  *)
LastLookIsDue ==
  \A g \in Procs : /\ pc[g] = "recv_last" => Done
                   /\ pc[g] = "recv_closed" => halfClosed

(* After the end a direction takes at most the value of the Send that was   *)
(* in its select at that moment.                                            *)
LateSendIsLast ==
  Done => \A d \in Sides :
            /\ promised[d] <= sent[d]
            /\ \A g \in Procs : Side(g) = d /\ pc[g] = "send_wait" => sent[d] = promised[d]

StreamInv == StreamTypeOK /\ QueueBounded /\ OneSender /\ LastLookIsDue /\ LateSendIsLast

-----------------------------------------------------------------------------
(* The inductive invariant. *)

(* A goroutine works for one of the two endpoints. *)
LEMMA SideOfProc ==
  /\ \A g : Side(g) \in Sides /\ Other(Side(g)) \in Sides /\ Other(Side(g)) # Side(g)
  /\ \A d \in Sides : Other(Other(d)) = d
BY DEF Side, Sides, Other

LEMMA InitStream == Init => StreamInv
<1> SUFFICES ASSUME Init PROVE StreamInv
  OBVIOUS
<1>1. /\ queueSize \in Nat /\ sent \in [Sides -> Nat] /\ got \in [Sides -> Nat]
      /\ promised \in [Sides -> Nat] /\ pc \in [Procs -> Labels]
  BY StreamAssumption DEF Init, ValidStreamConfig, Labels
<1>2. /\ halfClosed \in BOOLEAN /\ live \in BOOLEAN /\ eof \in BOOLEAN
      /\ terminal \in Terminals /\ told \subseteq Sides
  BY DEF Init, Terminals
<1>3. QueueBounded /\ OneSender /\ LastLookIsDue
  BY <1>1 DEF Init, QueueBounded, OneSender, LastLookIsDue, Sending
<1>4. LateSendIsLast
  BY DEF Init, LateSendIsLast, Done
<1>5. QED
  BY <1>1, <1>2, <1>3, <1>4 DEF StreamInv, StreamTypeOK

(* What Finish does to the session. *)
LEMMA FinishFacts ==
  ASSUME StreamTypeOK, NEW err \in {"nil", "app", "unavailable"}, Finish(err)
  PROVE  /\ terminal' \in Terminals \ {"none"} /\ live' \in BOOLEAN
         /\ promised' \in [Sides -> Nat]
         /\ Done => terminal' = terminal /\ promised' = promised
         /\ ~Done => promised' = sent
BY DEF StreamTypeOK, Finish, Normalize, Terminals, Done, session

(* The moves of the program counters. *)
LEMMA GotoFacts ==
  ASSUME StreamTypeOK, NEW g \in Procs, NEW l \in Labels, Goto(g, l)
  PROVE  /\ pc' \in [Procs -> Labels]
         /\ pc'[g] = l
         /\ \A h \in Procs : h # g => pc'[h] = pc[h]
BY DEF StreamTypeOK, Goto

LEMMA SendEndsFacts ==
  ASSUME StreamTypeOK, NEW g \in Procs, SendEnds(g)
  PROVE  /\ pc' \in [Procs -> Labels]
         /\ pc'[g] = "idle"
         /\ \A h \in Procs : h # g => pc'[h] = pc[h] \/ (pc[h] = "half_wait" /\ pc'[h] = "half_check")
BY DEF StreamTypeOK, SendEnds, Labels, Halving

(* A step that moves no message, no half-close and no session keeps the     *)
(* invariant if the counter goes to a label it may go to.                   *)
LEMMA MoveKeepsInv ==
  ASSUME StreamInv, NEW g \in Procs, NEW l \in Labels, Goto(g, l),
         UNCHANGED <<data, halfClosed, terminal, live, promised>>,
         told' \subseteq Sides, eof' \in BOOLEAN,
         l \in Sending => pc[g] \in Sending \/ (~SendBusy(Side(g)) /\ (Side(g) = "client" => ~halfClosed)),
         l = "send_wait" => ~Done,
         l = "recv_last" => Done,
         l = "recv_closed" => halfClosed
  PROVE  StreamInv'
<1>1. StreamTypeOK'
  BY GotoFacts DEF StreamInv, StreamTypeOK, data
<1>2. QueueBounded'
  BY DEF StreamInv, QueueBounded, data
<1>3. OneSender'
  BY GotoFacts DEF StreamInv, OneSender, SendBusy
<1>4. LastLookIsDue'
  BY GotoFacts DEF StreamInv, LastLookIsDue, Done
<1>5. LateSendIsLast'
  BY GotoFacts DEF StreamInv, LateSendIsLast, Done, data
<1>6. QED
  BY <1>1, <1>2, <1>3, <1>4, <1>5 DEF StreamInv

(* The end of the session keeps it, wherever the goroutines go from there   *)
(* without beginning a Send.                                                *)
LEMMA FinishKeepsInv ==
  ASSUME StreamInv, NEW err \in {"nil", "app", "unavailable"}, Finish(err),
         UNCHANGED <<data, halfClosed>>, told' \subseteq Sides, eof' \in BOOLEAN,
         pc' \in [Procs -> Labels],
         \A h \in Procs : \/ pc'[h] = pc[h]
                          \/ pc'[h] \notin Sending \cup {"recv_last", "recv_closed"}
  PROVE  StreamInv'
<1>1. /\ terminal' \in Terminals \ {"none"} /\ live' \in BOOLEAN
      /\ promised' \in [Sides -> Nat] /\ Done'
      /\ Done => promised' = promised
      /\ ~Done => promised' = sent
  BY FinishFacts DEF StreamInv, Done
<1>2. StreamTypeOK'
  BY <1>1 DEF StreamInv, StreamTypeOK, data
<1>3. QueueBounded' /\ OneSender' /\ LastLookIsDue'
  BY <1>1 DEF StreamInv, QueueBounded, OneSender, LastLookIsDue, data
<1>4. LateSendIsLast'
  <2>1. sent' = sent /\ sent \in [Sides -> Nat]
    BY DEF StreamInv, StreamTypeOK, data
  <2>2. CASE Done
    BY <1>1, <2>1, <2>2 DEF StreamInv, LateSendIsLast, Sending
  <2>3. CASE ~Done
    BY <1>1, <2>1, <2>3 DEF LateSendIsLast
  <2>4. QED
    BY <2>2, <2>3
<1>5. QED
  BY <1>2, <1>3, <1>4 DEF StreamInv

(* A Send that ends leaves the gate, and with the value or without it, its  *)
(* direction takes no other after the end of the session.                   *)
LEMMA SendEndsKeepsInv ==
  ASSUME StreamInv, NEW g \in Procs, SendEnds(g),
         UNCHANGED <<data, halfClosed, session, history>>
  PROVE  StreamInv'
<1>1. StreamTypeOK'
  BY SendEndsFacts DEF StreamInv, StreamTypeOK, data, session, history
<1>2. QueueBounded' /\ OneSender' /\ LastLookIsDue' /\ LateSendIsLast'
  BY SendEndsFacts DEF StreamInv, QueueBounded, OneSender, LastLookIsDue, LateSendIsLast, Done, data,
     session, Sending
<1>3. QED
  BY <1>1, <1>2 DEF StreamInv

LEMMA AcceptedKeepsInv ==
  ASSUME StreamInv, NEW g \in Procs, SendAccepted(g)
  PROVE  StreamInv'
<1> DEFINE d == Side(g)
<1>1. /\ d \in Sides /\ queueSize \in Nat /\ sent \in [Sides -> Nat] /\ got \in [Sides -> Nat]
      /\ promised \in [Sides -> Nat]
  BY SideOfProc DEF StreamInv, StreamTypeOK
<1>2. /\ SendEnds(g) /\ pc[g] = "send_wait" /\ sent[d] - got[d] < queueSize
      /\ sent' = [sent EXCEPT ![d] = @ + 1]
      /\ UNCHANGED <<queueSize, got, halfClosed, terminal, live, promised, told, eof>>
  BY DEF SendAccepted, Queued, session, history
<1>3. /\ sent' \in [Sides -> Nat] /\ sent'[d] = sent[d] + 1
      /\ \A e \in Sides : e # d => sent'[e] = sent[e]
  BY <1>1, <1>2
<1>4. StreamTypeOK'
  BY <1>2, <1>3, SendEndsFacts DEF StreamInv, StreamTypeOK
<1>5. QueueBounded'
  BY <1>1, <1>2, <1>3 DEF StreamInv, QueueBounded
<1>6. OneSender' /\ LastLookIsDue'
  BY <1>2, SendEndsFacts DEF StreamInv, OneSender, LastLookIsDue, Done, Sending
<1>7. LateSendIsLast'
  <2>1. \A h \in Procs : Side(h) = d /\ h # g => pc'[h] # "send_wait"
    BY <1>2, SendEndsFacts DEF StreamInv, OneSender, Sending
  <2>2. pc'[g] # "send_wait"
    BY <1>2, SendEndsFacts DEF StreamInv
  <2>3. QED
    BY <1>1, <1>2, <1>3, <2>1, <2>2, SendEndsFacts DEF StreamInv, LateSendIsLast, Done
<1>8. QED
  BY <1>4, <1>5, <1>6, <1>7 DEF StreamInv

(* So does a Send that meets a Recv: the queue stays empty. *)
LEMMA HandOverKeepsInv ==
  ASSUME StreamInv, NEW s \in Procs, NEW r \in Procs, HandOver(s, r)
  PROVE  StreamInv'
<1> DEFINE d == Side(s)
<1>1. /\ d \in Sides /\ queueSize \in Nat /\ sent \in [Sides -> Nat] /\ got \in [Sides -> Nat]
      /\ promised \in [Sides -> Nat] /\ pc \in [Procs -> Labels]
  BY SideOfProc DEF StreamInv, StreamTypeOK
<1>2. /\ pc[s] = "send_wait"
      /\ sent' = [sent EXCEPT ![d] = @ + 1] /\ got' = [got EXCEPT ![d] = @ + 1]
      /\ UNCHANGED <<queueSize, halfClosed, terminal, live, promised, told, eof>>
  BY DEF HandOver, session, history
<1>3. /\ pc' \in [Procs -> Labels] /\ pc'[s] = "idle" /\ pc'[r] = "idle"
      /\ \A h \in Procs : pc'[h] = pc[h] \/ pc'[h] \in {"idle", "half_check"}
  BY <1>1 DEF HandOver, Labels, Halving
<1>4. /\ sent' \in [Sides -> Nat] /\ sent'[d] = sent[d] + 1
      /\ got' \in [Sides -> Nat] /\ got'[d] = got[d] + 1
      /\ \A e \in Sides : e # d => sent'[e] = sent[e] /\ got'[e] = got[e]
  BY <1>1, <1>2
<1>5. StreamTypeOK'
  BY <1>2, <1>3, <1>4 DEF StreamInv, StreamTypeOK
<1>6. QueueBounded'
  BY <1>1, <1>2, <1>4 DEF StreamInv, QueueBounded
<1>7. OneSender' /\ LastLookIsDue'
  BY <1>2, <1>3 DEF StreamInv, OneSender, LastLookIsDue, Done, Sending
<1>8. LateSendIsLast'
  <2>1. \A h \in Procs : Side(h) = d => pc'[h] # "send_wait"
    BY <1>2, <1>3 DEF StreamInv, OneSender, Sending
  <2>2. QED
    BY <1>1, <1>2, <1>3, <1>4, <2>1 DEF StreamInv, LateSendIsLast, Done
<1>9. QED
  BY <1>5, <1>6, <1>7, <1>8 DEF StreamInv

LEMMA ReceivedKeepsInv ==
  ASSUME StreamInv, NEW g \in Procs, RecvValue(g)
  PROVE  StreamInv'
<1> DEFINE d == Other(Side(g))
<1>1. /\ d \in Sides /\ queueSize \in Nat /\ sent \in [Sides -> Nat] /\ got \in [Sides -> Nat]
  BY SideOfProc DEF StreamInv, StreamTypeOK
<1>2. /\ got[d] < sent[d] /\ got' = [got EXCEPT ![d] = @ + 1] /\ Goto(g, "idle")
      /\ UNCHANGED <<queueSize, sent, halfClosed, terminal, live, promised, told, eof>>
  BY <1>1 DEF RecvValue, Queued, session, history
<1>3. /\ pc' \in [Procs -> Labels] /\ \A h \in Procs : pc'[h] = pc[h] \/ pc'[h] = "idle"
  BY <1>2, GotoFacts, "idle" \in Labels DEF StreamInv, Labels
<1>4. StreamTypeOK'
  BY <1>1, <1>2, <1>3 DEF StreamInv, StreamTypeOK
<1>5. QueueBounded'
  BY <1>1, <1>2 DEF StreamInv, QueueBounded
<1>6. OneSender' /\ LastLookIsDue' /\ LateSendIsLast'
  BY <1>2, <1>3 DEF StreamInv, OneSender, LastLookIsDue, LateSendIsLast, Done, Sending
<1>7. QED
  BY <1>4, <1>5, <1>6 DEF StreamInv

(* CloseSend closes the gate only when no Send is inside. *)
LEMMA HalfLockKeepsInv ==
  ASSUME StreamInv, NEW g \in Procs, HalfLock(g)
  PROVE  StreamInv'
<1>1. /\ halfClosed' \in BOOLEAN /\ (halfClosed => halfClosed')
      /\ halfClosed' /\ ~halfClosed => ~SendBusy("client")
  BY DEF HalfLock, StreamInv, StreamTypeOK
<1>2. UNCHANGED <<queueSize, sent, got, terminal, live, promised, told, eof>>
  BY DEF HalfLock, data, session, history
<1>3. Goto(g, "idle") \/ Goto(g, "half_wait")
  BY DEF HalfLock
<1>4. "idle" \in Labels /\ "half_wait" \in Labels
  BY DEF Labels, Halving
<1>5. /\ pc' \in [Procs -> Labels]
      /\ \A h \in Procs : pc'[h] = pc[h] \/ pc'[h] \in {"idle", "half_wait"}
  BY <1>3, <1>4, GotoFacts DEF StreamInv
<1>6. StreamTypeOK' /\ QueueBounded' /\ LastLookIsDue' /\ LateSendIsLast'
  BY <1>1, <1>2, <1>5 DEF StreamInv, StreamTypeOK, QueueBounded, LastLookIsDue, LateSendIsLast, Done
<1>7. OneSender'
  BY <1>1, <1>2, <1>5 DEF StreamInv, OneSender, Sending, SendBusy
<1>8. QED
  BY <1>6, <1>7 DEF StreamInv

(* The steps of a goroutine that begins or cancels an operation. *)
LEMMA BeginKeepsInv ==
  ASSUME StreamInv, NEW g \in Procs, Begin(g) \/ OpCancelled(g)
  PROVE  StreamInv'
<1>1. /\ UNCHANGED <<data, halfClosed, terminal, live, promised>>
      /\ told' \subseteq Sides /\ eof' \in BOOLEAN /\ UNCHANGED <<session, history>>
  BY DEF Begin, SendBegin, RecvBegin, HalfBegin, OpCancelled, session, history, StreamInv, StreamTypeOK
<1>2. {"idle", "send_check", "recv_drain", "half_check"} \subseteq Labels
  BY DEF Labels, Sending, Receiving, Halving
<1>3. CASE SendBegin(g)
  BY <1>1, <1>2, <1>3, MoveKeepsInv DEF SendBegin
<1>4. CASE RecvBegin(g)
  BY <1>1, <1>2, <1>4, MoveKeepsInv DEF RecvBegin, Sending
<1>5. CASE HalfBegin(g)
  BY <1>1, <1>2, <1>5, MoveKeepsInv DEF HalfBegin, Sending
<1>6. CASE OpCancelled(g)
  BY <1>1, <1>2, <1>6, MoveKeepsInv, SendEndsKeepsInv DEF OpCancelled, Sending
<1>7. QED
  BY <1>3, <1>4, <1>5, <1>6 DEF Begin

(* The steps of an operation that find the session ended, or its context. *)
LEMMA StoppedKeepsInv ==
  ASSUME StreamInv, NEW g \in Procs,
         \/ SendCheck(g) \/ SendStopped(g) \/ RecvWoken(g) \/ HalfCheck(g) \/ HalfStopped(g)
  PROVE  StreamInv'
<1>1. /\ UNCHANGED <<data, halfClosed>> /\ told' \subseteq Sides /\ eof' \in BOOLEAN
      /\ UNCHANGED history
  BY DEF SendCheck, SendStopped, RecvWoken, HalfCheck, HalfStopped, history, StreamInv, StreamTypeOK
<1>2. {"idle", "send_wait", "recv_drain", "half_lock"} \subseteq Labels
  BY DEF Labels, Sending, Receiving, Halving
<1>3. ASSUME Finish("unavailable"), SendEnds(g) \/ Goto(g, "idle") \/ Goto(g, "recv_drain")
      PROVE  StreamInv'
  <2>1. /\ pc' \in [Procs -> Labels]
        /\ \A h \in Procs : pc'[h] = pc[h] \/ pc'[h] \in {"idle", "recv_drain", "half_check"}
    BY <1>2, <1>3, GotoFacts, SendEndsFacts DEF StreamInv
  <2>2. QED
    BY <1>1, <1>3, <2>1, FinishKeepsInv DEF Sending
<1>4. ASSUME NEW l \in {"send_wait", "half_lock"}, Goto(g, l), UNCHANGED session, ~Done,
             l = "send_wait" => pc[g] \in Sending
      PROVE  StreamInv'
  BY <1>1, <1>2, <1>4, MoveKeepsInv DEF session, Sending
<1>5. CASE SendCheck(g)
  BY <1>3, <1>4, <1>5 DEF SendCheck, Sending
<1>6. CASE SendStopped(g)
  BY <1>1, <1>3, <1>6, SendEndsKeepsInv DEF SendStopped
<1>7. CASE RecvWoken(g)
  BY <1>3, <1>7 DEF RecvWoken
<1>8. CASE HalfCheck(g)
  BY <1>3, <1>4, <1>8 DEF HalfCheck
<1>9. CASE HalfStopped(g)
  BY <1>3, <1>9 DEF HalfStopped
<1>10. QED
  BY <1>5, <1>6, <1>7, <1>8, <1>9

(* The steps of a Recv that take no message. *)
LEMMA LookingKeepsInv ==
  ASSUME StreamInv, NEW g \in Procs,
         RecvEmpty(g) \/ RecvCheck(g) \/ RecvTerminal(g) \/ RecvHalfClosed(g) \/ RecvEof(g)
  PROVE  StreamInv'
<1>1. /\ UNCHANGED <<data, halfClosed, terminal, live, promised>>
      /\ told' \subseteq Sides /\ eof' \in BOOLEAN
  BY SideOfProc DEF RecvEmpty, RecvCheck, RecvTerminal, RecvHalfClosed, RecvEof, session, history,
     StreamInv, StreamTypeOK
<1>2. \E l \in {"idle", "recv_check", "recv_last", "recv_wait", "recv_closed"} :
        /\ Goto(g, l)
        /\ l = "recv_last" => Done
        /\ l = "recv_closed" => halfClosed
  BY DEF RecvEmpty, RecvCheck, RecvTerminal, RecvHalfClosed, RecvEof
<1>3. {"idle", "recv_check", "recv_last", "recv_wait", "recv_closed"} \subseteq Labels
  BY DEF Labels, Receiving
<1>4. QED
  BY <1>1, <1>2, <1>3, MoveKeepsInv DEF Sending

(* The handler, the watcher, the context and Close. *)
LEMMA SessionKeepsInv ==
  ASSUME StreamInv,
         \/ \E err \in {"nil", "app"} : HandlerReturns(err)
         \/ ContextEnds \/ Watch \/ CloseBegins \/ CloseEnds \/ CloseTimesOut
  PROVE  StreamInv'
<1>1. /\ UNCHANGED <<data, halfClosed, pc>> /\ told' \subseteq Sides /\ eof' \in BOOLEAN
      /\ pc' \in [Procs -> Labels]
  BY DEF HandlerReturns, ContextEnds, Watch, CloseBegins, CloseEnds, CloseTimesOut, history,
     StreamInv, StreamTypeOK
<1>2. ASSUME NEW err \in {"nil", "app", "unavailable"}, Finish(err) PROVE StreamInv'
  BY <1>1, <1>2, FinishKeepsInv
<1>3. ASSUME UNCHANGED <<terminal, promised>>, live' \in BOOLEAN PROVE StreamInv'
  BY <1>1, <1>3 DEF StreamInv, StreamTypeOK, QueueBounded, OneSender, LastLookIsDue, LateSendIsLast,
     Done, data
<1>4. CASE \E err \in {"nil", "app"} : HandlerReturns(err)
  BY <1>2, <1>4 DEF HandlerReturns
<1>5. CASE Watch \/ CloseBegins
  BY <1>2, <1>5 DEF Watch, CloseBegins
<1>6. CASE ContextEnds \/ CloseEnds \/ CloseTimesOut
  BY <1>3, <1>6 DEF ContextEnds, CloseEnds, CloseTimesOut, session, StreamInv, StreamTypeOK
<1>7. QED
  BY <1>4, <1>5, <1>6

LEMMA StreamStep == StreamInv /\ [Next]_vars => StreamInv'
<1> SUFFICES ASSUME StreamInv, [Next]_vars PROVE StreamInv'
  OBVIOUS
<1>1. ASSUME NEW g \in Procs, Step(g) PROVE StreamInv'
  BY <1>1, StoppedKeepsInv, LookingKeepsInv, AcceptedKeepsInv, ReceivedKeepsInv, HalfLockKeepsInv
     DEF Step
<1>2. CASE Meet
  BY <1>2, HandOverKeepsInv DEF Meet
<1>3. CASE UNCHANGED vars
  BY <1>3 DEF vars, StreamInv, StreamTypeOK, QueueBounded, OneSender, LastLookIsDue, LateSendIsLast, Done
<1>4. QED
  BY <1>1, <1>2, <1>3, BeginKeepsInv, SessionKeepsInv DEF Next

(* Nothing is received that was not sent, queues keep their size, one Send  *)
(* per direction is in its select, none of the client's after CloseSend,    *)
(* and after the end of the session a direction takes at most one message   *)
(* (sendState, busyGate, localSession of stream.go).                        *)
THEOREM StreamInvariant == Spec => []StreamInv
BY InitStream, StreamStep, PTL DEF Spec

-----------------------------------------------------------------------------
(* The steps of the goroutines as steps of the abstract stream. *)
StreamAbsStep == [Abs!AbsNext]_(Abs!absVars)

(* Whoever calls Finish first ends the stream; for the others it stutters. *)
LEMMA FinishRefines ==
  ASSUME StreamInv, NEW err \in {"nil", "app", "unavailable"}, Finish(err),
         UNCHANGED <<data, halfClosed, history>>
  PROVE  StreamAbsStep
<1>1. CASE Done
  BY <1>1 DEF Finish, session, data, history, StreamAbsStep, Abs!absVars
<1>2. CASE ~Done
  <2>1. terminal' \in {"eof", "app", "unavailable"} /\ promised' = sent
    BY <1>2, FinishFacts DEF StreamInv, Terminals
  <2>2. Abs!AbsEnd
    BY <1>2, <2>1 DEF Abs!AbsEnd, Done, data, history
  <2>3. QED
    BY <2>2 DEF StreamAbsStep, Abs!AbsNext
<1>3. QED
  BY <1>1, <1>2

LEMMA AcceptedRefines ==
  ASSUME StreamInv, NEW g \in Procs, SendAccepted(g)
  PROVE  StreamAbsStep
<1> DEFINE d == Side(g)
<1>1. d \in Abs!Ends
  BY DEF Side, Abs!Ends
<1>2. Abs!MayAccept(d)
  BY SideOfProc DEF Abs!MayAccept, SendAccepted, StreamInv, OneSender, LateSendIsLast, Done, Sending
<1>3. Abs!AbsSend(d)
  BY <1>2 DEF Abs!AbsSend, SendAccepted, Queued, session, history
<1>4. QED
  BY <1>1, <1>3 DEF StreamAbsStep, Abs!AbsNext

LEMMA HandOverRefines ==
  ASSUME StreamInv, NEW s \in Procs, NEW r \in Procs, HandOver(s, r)
  PROVE  StreamAbsStep
<1> DEFINE d == Side(s)
<1>1. d \in Abs!Ends /\ d \in Sides
  BY DEF Side, Abs!Ends, Sides
<1>2. Abs!MayAccept(d)
  BY <1>1 DEF Abs!MayAccept, HandOver, StreamInv, OneSender, LateSendIsLast, Done, Sending
<1>3. sent[d] = got[d]
  BY <1>1 DEF HandOver, StreamInv, StreamTypeOK, QueueBounded
<1>4. Abs!AbsPass(d)
  BY <1>2, <1>3 DEF Abs!AbsPass, HandOver, session, history
<1>5. QED
  BY <1>1, <1>4 DEF StreamAbsStep, Abs!AbsNext

LEMMA RecvRefines ==
  ASSUME StreamInv, NEW g \in Procs, RecvValue(g) \/ RecvTerminal(g) \/ RecvEof(g)
  PROVE  StreamAbsStep
<1> DEFINE e == Side(g)
<1>1. e \in Abs!Ends /\ Other(e) \in Abs!Ends /\ Other(e) \in Sides /\ Abs!Peer(e) = Other(e)
  BY DEF Side, Abs!Ends, Abs!Peer, Sides, Other
<1>2. got[Other(e)] \in Nat /\ sent[Other(e)] \in Nat /\ promised[Other(e)] \in Nat
  BY <1>1 DEF StreamInv, StreamTypeOK
<1>3. CASE RecvValue(g)
  <2>1. Abs!AbsRecv(Other(e))
    BY <1>2, <1>3 DEF Abs!AbsRecv, RecvValue, Queued, session, history
  <2>2. QED
    BY <1>1, <2>1 DEF StreamAbsStep, Abs!AbsNext
<1>4. CASE RecvTerminal(g)
  <2>1. terminal # "none" /\ got[Other(e)] >= promised[Other(e)]
    BY <1>1, <1>2, <1>4 DEF RecvTerminal, StreamInv, LastLookIsDue, LateSendIsLast, Done, Queued
  <2>2. Abs!AbsTell(e)
    BY <1>1, <1>4, <2>1 DEF Abs!AbsTell, RecvTerminal, data, session
  <2>3. QED
    BY <1>1, <2>2 DEF StreamAbsStep, Abs!AbsNext
<1>5. CASE RecvEof(g)
  <2>1. got["client"] \in Nat /\ sent["client"] \in Nat
    BY DEF StreamInv, StreamTypeOK, Sides
  <2>2. Abs!AbsEof
    BY <1>5, <2>1 DEF Abs!AbsEof, RecvEof, StreamInv, LastLookIsDue, Queued, data, session
  <2>3. QED
    BY <2>2 DEF StreamAbsStep, Abs!AbsNext
<1>6. QED
  BY <1>3, <1>4, <1>5

LEMMA HalfLockRefines ==
  ASSUME StreamInv, NEW g \in Procs, HalfLock(g)
  PROVE  StreamAbsStep
<1>1. CASE halfClosed' = TRUE
  <2>1. Abs!AbsHalfClose
    BY <1>1 DEF HalfLock, Abs!AbsHalfClose, data, session, history
  <2>2. QED
    BY <2>1 DEF StreamAbsStep, Abs!AbsNext
<1>2. CASE halfClosed' = halfClosed
  BY <1>2 DEF HalfLock, StreamAbsStep, Abs!absVars, data, session, history
<1>3. QED
  BY <1>1, <1>2 DEF HalfLock

(* Every step is a step of the abstract stream or a stutter. *)
LEMMA StreamNextRefines ==
  ASSUME StreamInv, [Next]_vars
  PROVE  StreamAbsStep
<1>1. ASSUME UNCHANGED <<data, halfClosed, terminal, promised, history>> PROVE StreamAbsStep
  BY <1>1 DEF data, history, StreamAbsStep, Abs!absVars
<1>2. ASSUME NEW g \in Procs, Begin(g) \/ OpCancelled(g) PROVE StreamAbsStep
  BY <1>1, <1>2 DEF Begin, SendBegin, RecvBegin, HalfBegin, OpCancelled, session
<1>3. ASSUME NEW g \in Procs,
             \/ SendCheck(g) \/ SendStopped(g) \/ RecvWoken(g) \/ HalfCheck(g) \/ HalfStopped(g)
      PROVE  StreamAbsStep
  <2>1. UNCHANGED <<data, halfClosed, history>> /\ (Finish("unavailable") \/ UNCHANGED session)
    BY <1>3 DEF SendCheck, SendStopped, RecvWoken, HalfCheck, HalfStopped
  <2>2. QED
    BY <1>1, <2>1, FinishRefines DEF session
<1>4. ASSUME NEW g \in Procs, RecvEmpty(g) \/ RecvCheck(g) \/ RecvHalfClosed(g) PROVE StreamAbsStep
  BY <1>1, <1>4 DEF RecvEmpty, RecvCheck, RecvHalfClosed, session
<1>5. CASE \E err \in {"nil", "app"} : HandlerReturns(err)
  BY <1>5, FinishRefines DEF HandlerReturns
<1>6. CASE Watch \/ CloseBegins
  BY <1>6, FinishRefines DEF Watch, CloseBegins
<1>7. CASE ContextEnds \/ CloseEnds \/ CloseTimesOut
  BY <1>1, <1>7 DEF ContextEnds, CloseEnds, CloseTimesOut, session
<1>8. CASE UNCHANGED vars
  BY <1>1, <1>8 DEF vars, data, history
<1>9. ASSUME NEW g \in Procs, Step(g) PROVE StreamAbsStep
  BY <1>3, <1>4, <1>9, AcceptedRefines, RecvRefines, HalfLockRefines DEF Step
<1>10. CASE Meet
  BY <1>10, HandOverRefines DEF Meet
<1>11. QED
  BY <1>2, <1>5, <1>6, <1>7, <1>8, <1>9, <1>10 DEF Next

(* The goroutines, gates and selects of stream.go implement the stream of   *)
(* StreamAbs: no message is accepted after the half-close, EOF and terminal *)
(* are reported only when everything promised was delivered, the end is     *)
(* decided once, and at most one Send per direction slips in after it.      *)
THEOREM StreamImplementsAbs == Spec => ImplementsStreamAbs
<1>1. Init => Abs!AbsInit
  BY StreamAssumption DEF Init, ValidStreamConfig, Sides, Abs!AbsInit, Abs!Ends
<1>2. StreamInv /\ [Next]_vars => [Abs!AbsNext]_(Abs!absVars)
  BY StreamNextRefines DEF StreamAbsStep
<1>3. QED
  BY <1>1, <1>2, StreamInvariant, PTL DEF Spec, ImplementsStreamAbs, Abs!AbsSpec

-----------------------------------------------------------------------------
(* One WebSocket connection: what the two ends are told of each other. *)

EndCodes == {"app", "unavailable", "unauthenticated", "invalid"}
Wires == {"up", "going_away", "closed", "broken"}
Stations == [sent : Nat, fetched : Nat, written : Nat, accepted : Nat, got : Nat]
ServerType ==
  [term : {"none", "eof", "app", "unavailable"}, result : {"none", "eof", "app"}, promised : Nat, live : BOOLEAN,
   code : EndCodes \cup {"none"}, draining : BOOLEAN, expired : BOOLEAN, forced : BOOLEAN, peerClose : BOOLEAN,
   stopRate : BOOLEAN, reader : {"read", "rate", "send", "done"}, writer : {"recv", "rate", "write", "done"},
   left : BOOLEAN]
ClientType ==
  [term : EndCodes \cup {"none", "eof"}, live : BOOLEAN, seen : EndCodes \cup {"none", "eof"}]

ConnTypeOK ==
  /\ req \in [sent : Nat, written : Nat, taken : Nat, accepted : Nat, got : Nat]
  /\ resp \in Stations
  /\ half \in [app : BOOLEAN, written : BOOLEAN, read : BOOLEAN, eof : BOOLEAN]
  /\ wire \in Wires /\ frame \in EndCodes \cup {"none", "end"}
  /\ cli \in ClientType /\ srv \in ServerType

(* The server's stream ended with the handler's result or for another       *)
(* reason, and a code that is the handler's is its result.                  *)
ServerInv ==
  /\ srv.term \in {"eof", "app"} => srv.result = srv.term
  /\ srv.code = "app" => srv.term = "app"
  /\ srv.term # "none" => srv.promised <= resp.sent

(* Unless a drain or an expiry drops messages, all that was taken out of a  *)
(* queue or off the wire is passed on, in order.                            *)
WriterHolds == IF srv.writer \in {"rate", "write"} THEN 1 ELSE 0
ReaderHolds == IF srv.reader \in {"rate", "send"} THEN 1 ELSE 0

CountInv ==
  ~Stopping =>
    /\ srv.writer # "done" => resp.fetched = resp.written + WriterHolds
    /\ srv.reader # "done" => req.taken = req.accepted + ReaderHolds

(* The terminal frame is the writer's last, and "end" comes after all the   *)
(* stream had accepted.                                                     *)
FrameInv ==
  /\ frame # "none" => srv.writer = "done"
  /\ frame = "end" => srv.term = "eof" /\ resp.written >= srv.promised
  /\ frame = "app" => srv.term = "app"

(* The half-close, from the application to the handler. *)
HalfInv ==
  /\ half.written => half.app /\ req.written = req.sent
  /\ half.read => /\ half.written /\ req.taken = req.written /\ req.accepted = req.sent
                  /\ srv.reader \in {"read", "done"}
  /\ half.eof => half.read /\ req.got = req.accepted

PeerInv ==
  /\ cli.term \in {"eof", "app"} => srv.term = cli.term
  /\ cli.term = "eof" => resp.accepted >= srv.promised
  /\ cli.seen # "none" => cli.seen = cli.term
  /\ cli.seen = "eof" => resp.got >= srv.promised

ConnInv == ConnTypeOK /\ ServerInv /\ CountInv /\ FrameInv /\ HalfInv /\ PeerInv

RequestType == [sent : Nat, written : Nat, taken : Nat, accepted : Nat, got : Nat]
HalfType == [app : BOOLEAN, written : BOOLEAN, read : BOOLEAN, eof : BOOLEAN]

LEMMA ConnInitInv == ConnInit => ConnInv
<1> SUFFICES ASSUME ConnInit PROVE ConnInv
  OBVIOUS
<1>1. req \in RequestType /\ resp \in Stations /\ half \in HalfType /\ wire \in Wires
  BY DEF ConnInit, RequestType, Stations, HalfType, Wires
<1>2. frame \in EndCodes \cup {"none", "end"} /\ cli \in ClientType /\ srv \in ServerType
  BY DEF ConnInit, EndCodes, ClientType, ServerType
<1>3. ConnTypeOK
  BY <1>1, <1>2 DEF ConnTypeOK, RequestType, HalfType
<1>4. ServerInv /\ CountInv
  BY DEF ConnInit, ServerInv, CountInv, WriterHolds, ReaderHolds
<1>5. FrameInv /\ HalfInv /\ PeerInv
  BY DEF ConnInit, FrameInv, HalfInv, PeerInv
<1> QED
  BY <1>3, <1>4, <1>5 DEF ConnInv

(* The client, the network and the handler's Send and Recv leave the        *)
(* server's goroutines where they are.                                      *)
LEMMA ServerRests ==
  ASSUME ConnInv, srv' = srv, frame' = frame,
         resp' \in Stations, resp'.sent >= resp.sent, resp'.fetched = resp.fetched, resp'.written = resp.written,
         req' \in RequestType, req'.taken = req.taken, req'.accepted = req.accepted,
         half' \in HalfType, wire' \in Wires, cli' \in ClientType, HalfInv', PeerInv'
  PROVE  ConnInv'
<1>1. ConnTypeOK'
  BY DEF ConnInv, ConnTypeOK, RequestType, HalfType
<1>2. resp \in Stations /\ srv.promised \in Nat
  BY DEF ConnInv, ConnTypeOK, ServerType
<1>3. ServerInv'
  BY <1>2 DEF ConnInv, ServerInv, Stations
<1>4. CountInv'
  <2>1. Stopping' = Stopping /\ WriterHolds' = WriterHolds /\ ReaderHolds' = ReaderHolds
    BY DEF Stopping, WriterHolds, ReaderHolds
  <2> QED
    BY <2>1 DEF ConnInv, CountInv
<1>5. FrameInv'
  BY DEF ConnInv, FrameInv
<1> QED
  BY <1>1, <1>3, <1>4, <1>5 DEF ConnInv

LEMMA SameStations ==
  ConnInv =>
    /\ req \in RequestType /\ resp \in Stations /\ half \in HalfType /\ wire \in Wires /\ cli \in ClientType
    /\ srv \in ServerType /\ frame \in EndCodes \cup {"none", "end"}
    /\ resp.sent \in Nat /\ resp.sent >= resp.sent /\ resp.written >= resp.written /\ srv.promised \in Nat
  BY DEF ConnInv, ConnTypeOK, RequestType, HalfType, Stations, ServerType

(* Requests and the half-close. *)
LEMMA RequestsInv ==
  ASSUME ConnInv,
         \/ AppSends \/ AppHalfCloses \/ HandlerReceives \/ HandlerSeesEof
         \/ (ClientWrites /\ cli' = cli) \/ (ClientWritesHalfClose /\ cli' = cli)
  PROVE  ConnInv'
<1>1. srv' = srv /\ frame' = frame /\ resp' = resp /\ cli' = cli
  BY DEF AppSends, AppHalfCloses, HandlerReceives, HandlerSeesEof, ClientWrites, ClientWritesHalfClose
<1>2. /\ req \in RequestType /\ resp \in Stations /\ half \in HalfType /\ wire \in Wires /\ cli \in ClientType
      /\ resp.sent >= resp.sent
  BY SameStations
<1>3. wire' \in Wires
  BY <1>2 DEF AppSends, AppHalfCloses, HandlerReceives, HandlerSeesEof, ClientWrites, ClientWritesHalfClose,
              ClientReturns, Wires
<1>4. PeerInv'
  BY <1>1 DEF ConnInv, PeerInv
<1>5. CASE AppSends \/ HandlerReceives \/ (ClientWrites /\ req' # req)
  <2>1. \/ req' = [req EXCEPT !.sent = @ + 1] /\ ~half.app
        \/ req' = [req EXCEPT !.got = @ + 1] /\ req.got < req.accepted
        \/ req' = [req EXCEPT !.written = @ + 1] /\ req.written < req.sent
    BY <1>5 DEF AppSends, HandlerReceives, ClientWrites
  <2>2. half' = half
    BY <1>5 DEF AppSends, HandlerReceives, ClientWrites
  <2>3. /\ req' \in RequestType /\ req'.taken = req.taken /\ req'.accepted = req.accepted
        /\ \/ req'.sent = req.sent + 1 /\ ~half.app /\ req'.written = req.written /\ req'.got = req.got
           \/ req.got < req.accepted /\ req'.sent = req.sent /\ req'.written = req.written
           \/ req.written < req.sent /\ req'.sent = req.sent /\ req'.got = req.got
    BY <1>2, <2>1 DEF RequestType
  <2>4. HalfInv'
    BY <1>1, <1>2, <2>2, <2>3 DEF ConnInv, HalfInv, RequestType
  <2> QED
    BY <1>1, <1>2, <1>3, <1>4, <2>2, <2>3, <2>4, ServerRests
<1>6. CASE ClientWrites /\ req' = req
  <2>1. half' = half
    BY <1>6 DEF ClientWrites
  <2>2. HalfInv'
    BY <1>1, <1>6, <2>1 DEF ConnInv, HalfInv
  <2> QED
    BY <1>1, <1>2, <1>3, <1>4, <1>6, <2>1, <2>2, ServerRests
<1>7. CASE AppHalfCloses \/ HandlerSeesEof \/ ClientWritesHalfClose
  <2>1. req' = req
    BY <1>7 DEF AppHalfCloses, HandlerSeesEof, ClientWritesHalfClose
  <2>2. \/ half' = [half EXCEPT !.app = TRUE]
        \/ half' = [half EXCEPT !.eof = TRUE] /\ half.read /\ req.got = req.accepted
        \/ half' = [half EXCEPT !.written = TRUE] /\ half.app /\ req.written = req.sent
        \/ half' = half
    BY <1>7 DEF AppHalfCloses, HandlerSeesEof, ClientWritesHalfClose
  <2>3. /\ half' \in HalfType /\ half'.read = half.read /\ (half.app => half'.app) /\ (half.written => half'.written)
        /\ (half'.written => half.written \/ (half.app /\ req.written = req.sent))
        /\ (half'.eof => half.eof \/ (half.read /\ req.got = req.accepted))
    BY <1>2, <2>2 DEF HalfType
  <2>4. HalfInv'
    BY <1>1, <2>1, <2>3 DEF ConnInv, HalfInv
  <2> QED
    BY <1>1, <1>2, <1>3, <1>4, <2>1, <2>3, <2>4, ServerRests
<1> QED
  BY <1>5, <1>6, <1>7

(* The client's stream ends: with "eof" or "app" only if the frame says so. *)
LEMMA ClientEndsInv ==
  ASSUME ConnInv, NEW err \in EndCodes \cup {"eof"}, cli.term = "none",
         cli' = [cli EXCEPT !.term = IF cli.live THEN err ELSE "unavailable", !.live = FALSE],
         err \in {"eof", "app"} => srv.term = err,
         err = "eof" => resp.accepted >= srv.promised,
         wire' \in Wires, req' = req, resp' = resp, half' = half, frame' = frame, srv' = srv
  PROVE  ConnInv'
<1>1. PICK t \in EndCodes \cup {"eof"} : t = IF cli.live THEN err ELSE "unavailable"
  BY DEF EndCodes
<1>2. cli' = [cli EXCEPT !.term = t, !.live = FALSE] /\ t \in {err, "unavailable"}
  BY <1>1
<1>3. cli \in ClientType
  BY SameStations
<1>4. cli' \in ClientType /\ cli'.term = t /\ cli'.seen = cli.seen
  BY <1>2, <1>3 DEF ClientType
<1>5. cli.seen = "none"
  BY DEF ConnInv, PeerInv
<1>6. PeerInv'
  BY <1>2, <1>4, <1>5 DEF PeerInv
<1>7. HalfInv'
  BY DEF ConnInv, HalfInv
<1> QED
  BY <1>4, <1>6, <1>7, SameStations, ServerRests

LEMMA ClientStopsInv ==
  ASSUME ConnInv,
         \/ (ClientWrites /\ ClientReturns("unavailable")) \/ (ClientWritesHalfClose /\ ClientReturns("unavailable"))
         \/ ClientReadsTerminal \/ ClientReadFails \/ ClientStops \/ ClientExpires
  PROVE  ConnInv'
<1>1. wire' \in Wires
  BY DEF ClientWrites, ClientWritesHalfClose, ClientReadsTerminal, ClientReadFails, ClientStops,
      ClientExpires,
         ClientReturns, Wires
<1>2. CASE ClientReadsTerminal
  <2>1. PICK err : err = IF frame = "end" THEN "eof" ELSE frame
    OBVIOUS
  <2>2. err \in EndCodes \cup {"eof"} /\ (err = "eof" => frame = "end") /\ (err = "app" => frame = "app")
    BY <1>2, <2>1, SameStations DEF ClientReadsTerminal, EndCodes
  <2>3. /\ cli.term = "none" /\ resp.accepted = resp.written
        /\ cli' = [cli EXCEPT !.term = IF cli.live THEN err ELSE "unavailable", !.live = FALSE]
        /\ req' = req /\ resp' = resp /\ half' = half /\ frame' = frame /\ srv' = srv
    BY <1>2, <2>1 DEF ClientReadsTerminal, ClientReturns
  <2>4. (err \in {"eof", "app"} => srv.term = err) /\ (err = "eof" => resp.accepted >= srv.promised)
    BY <2>2, <2>3 DEF ConnInv, FrameInv
  <2> QED
    BY <1>1, <2>2, <2>3, <2>4, ClientEndsInv
<1>3. CASE ClientExpires
  <2>1. "unauthenticated" \in EndCodes
    BY DEF EndCodes
  <2> QED
    BY <1>1, <1>3, <2>1, ClientEndsInv DEF ClientExpires
<1>4. CASE \/ (ClientWrites /\ ClientReturns("unavailable"))
           \/ (ClientWritesHalfClose /\ ClientReturns("unavailable")) \/ ClientReadFails \/ ClientStops
  <2>1. "unavailable" \in EndCodes
    BY DEF EndCodes
  <2>2. ClientReturns("unavailable") /\ srv' = srv /\ frame' = frame /\ resp' = resp
    BY <1>4 DEF ClientWrites, ClientWritesHalfClose, ClientReadFails, ClientStops
  <2>3. cli.term = "none" /\ cli' = [cli EXCEPT !.term = IF cli.live THEN "unavailable" ELSE "unavailable", !.live = FALSE]
    BY <2>2 DEF ClientReturns
  <2>4. CASE req' = req /\ half' = half
    BY <1>1, <2>1, <2>2, <2>3, <2>4, ClientEndsInv
  <2>5. cli' # cli
    <3>1. cli \in ClientType
      BY SameStations
    <3> QED
      BY <2>3, <3>1 DEF ClientType
  <2>6. req' = req /\ half' = half
    BY <1>4, <2>5 DEF ClientWrites, ClientWritesHalfClose, ClientReadFails, ClientStops
  <2> QED
    BY <2>4, <2>6
<1> QED
  BY <1>2, <1>3, <1>4

(* Responses at the client, and what only concerns time and the network.    *)
LEMMA ResponsesInv ==
  ASSUME ConnInv,
         \/ AppReceives \/ AppSeesEnd \/ ClientReadsData \/ ClientContextEnds \/ HandlerSends
         \/ GoingAway \/ Breaks \/ UNCHANGED connVars
  PROVE  ConnInv'
<1>1. srv' = srv /\ frame' = frame /\ req' = req /\ half' = half
  BY DEF AppReceives, AppSeesEnd, ClientReadsData, ClientContextEnds, HandlerSends, GoingAway,
      Breaks, connVars
<1>2. /\ req \in RequestType /\ resp \in Stations /\ half \in HalfType /\ wire \in Wires /\ cli \in ClientType
      /\ srv.promised \in Nat
  BY SameStations
<1>3. wire' \in Wires
  BY <1>2 DEF AppReceives, AppSeesEnd, ClientReadsData, ClientContextEnds, HandlerSends, GoingAway, Breaks,
              connVars, Wires
<1>4. HalfInv'
  BY <1>1 DEF ConnInv, HalfInv
<1>5. CASE cli' = cli /\ resp' \in {[resp EXCEPT !.got = @ + 1], [resp EXCEPT !.accepted = @ + 1],
                                    [resp EXCEPT !.sent = @ + 1], resp}
  <2>1. /\ resp' \in Stations /\ resp'.sent >= resp.sent /\ resp'.fetched = resp.fetched
        /\ resp'.written = resp.written /\ resp'.accepted >= resp.accepted /\ resp'.got >= resp.got
    BY <1>2, <1>5 DEF Stations
  <2>2. PeerInv'
    BY <1>1, <1>2, <1>5, <2>1 DEF ConnInv, PeerInv, Stations
  <2> QED
    BY <1>1, <1>2, <1>3, <1>4, <1>5, <2>1, <2>2, ServerRests
<1>6. CASE AppSeesEnd
  <2>1. cli' = [cli EXCEPT !.seen = cli.term] /\ resp' = resp /\ resp.got = resp.accepted
    BY <1>6 DEF AppSeesEnd
  <2>2. cli' \in ClientType /\ cli'.seen = cli.term /\ cli'.term = cli.term
    BY <1>2, <2>1 DEF ClientType
  <2>3. PeerInv'
    BY <1>1, <2>1, <2>2 DEF ConnInv, PeerInv
  <2> QED
    BY <1>1, <1>2, <1>3, <1>4, <2>1, <2>2, <2>3, SameStations, ServerRests
<1>7. CASE ClientContextEnds
  <2>1. cli' = [cli EXCEPT !.live = FALSE] /\ resp' = resp
    BY <1>7 DEF ClientContextEnds
  <2>2. cli' \in ClientType /\ cli'.seen = cli.seen /\ cli'.term = cli.term
    BY <1>2, <2>1 DEF ClientType
  <2>3. PeerInv'
    BY <1>1, <2>1, <2>2 DEF ConnInv, PeerInv
  <2> QED
    BY <1>1, <1>2, <1>3, <1>4, <2>1, <2>2, <2>3, SameStations, ServerRests
<1> QED
  BY <1>5, <1>6, <1>7 DEF AppReceives, ClientReadsData, HandlerSends, GoingAway, Breaks, connVars

-----------------------------------------------------------------------------
(* Everything but the handler's return leaves an end of the server's stream *)
(* as it is, ends an open one as unavailable, and gives away no code that   *)
(* is not its end.                                                          *)
Advances(n) ==
  /\ n \in ServerType /\ n.result = srv.result
  /\ srv.term # "none" => n.term = srv.term /\ n.promised = srv.promised
  /\ srv.term = "none" => n.term = "none" \/ (n.term = "unavailable" /\ n.promised = resp.sent)
  /\ n.code = "app" => n.term = "app"

(* n is the server with goroutines that returned and flags that were raised. *)
Later(n) ==
  /\ Advances(n)
  /\ (srv.draining => n.draining) /\ (srv.expired => n.expired)
  /\ n.reader \in {srv.reader, "done"} /\ n.writer \in {srv.writer, "done"}

LEMMA LaterSame == ConnInv => Later(srv)
  BY SameStations DEF ConnInv, ServerInv, Later, Advances

LEMMA LaterCode ==
  ASSUME ConnInv, NEW s, Later(s), NEW c \in EndCodes, c = "app" => srv.term = "app"
  PROVE  Later(WithCode(s, c))
<1>1. CASE s.code = "none"
  <2>1. PICK n : n = [s EXCEPT !.code = c]
    OBVIOUS
  <2>2. /\ n \in ServerType /\ n.code = c /\ n.term = s.term /\ n.promised = s.promised /\ n.result = s.result
        /\ n.draining = s.draining /\ n.expired = s.expired /\ n.reader = s.reader /\ n.writer = s.writer
    BY <2>1 DEF Later, Advances, ServerType
  <2>3. Later(n)
    BY <2>2 DEF Later, Advances
  <2> QED
    BY <1>1, <2>1, <2>3 DEF WithCode
<1> QED
  BY <1>1 DEF WithCode

LEMMA LaterClosed ==
  ASSUME ConnInv, NEW s, Later(s)
  PROVE  Later(StreamClosed(s))
<1>1. CASE s.term = "none"
  <2>1. PICK n : n = [s EXCEPT !.term = "unavailable", !.promised = resp.sent, !.live = FALSE]
    OBVIOUS
  <2>2. /\ n \in ServerType /\ n.code = s.code /\ n.term = "unavailable" /\ n.promised = resp.sent
        /\ n.result = s.result
        /\ n.draining = s.draining /\ n.expired = s.expired /\ n.reader = s.reader /\ n.writer = s.writer
    BY <2>1, SameStations DEF Later, Advances, ServerType
  <2>3. Later(n)
    BY <1>1, <2>2 DEF Later, Advances
  <2>4. StreamClosed(s) = n
    BY <1>1, <2>1 DEF StreamClosed, Finished
  <2> QED
    BY <2>3, <2>4
<1> QED
  BY <1>1 DEF StreamClosed, Finished

(* A goroutine returns. *)
LEMMA LaterReader ==
  ASSUME NEW s, Later(s), NEW b \in BOOLEAN
  PROVE  Later([s EXCEPT !.reader = "done", !.stopRate = b])
<1>1. PICK n : n = [s EXCEPT !.reader = "done", !.stopRate = b]
  OBVIOUS
<1>2. /\ n \in ServerType /\ n.code = s.code /\ n.term = s.term /\ n.promised = s.promised /\ n.result = s.result
      /\ n.draining = s.draining /\ n.expired = s.expired /\ n.reader = "done" /\ n.writer = s.writer
  BY <1>1 DEF Later, Advances, ServerType
<1>3. Later(n)
  BY <1>2 DEF Later, Advances
<1> QED
  BY <1>1, <1>3

LEMMA LaterWriter ==
  ASSUME NEW s, Later(s)
  PROVE  Later([s EXCEPT !.writer = "done"]) /\ [s EXCEPT !.writer = "done"].writer = "done"
<1>1. PICK n : n = [s EXCEPT !.writer = "done"]
  OBVIOUS
<1>2. /\ n \in ServerType /\ n.code = s.code /\ n.term = s.term /\ n.promised = s.promised /\ n.result = s.result
      /\ n.draining = s.draining /\ n.expired = s.expired /\ n.reader = s.reader /\ n.writer = "done"
  BY <1>1 DEF Later, Advances, ServerType
<1>3. Later(n)
  BY <1>2 DEF Later, Advances
<1> QED
  BY <1>1, <1>2, <1>3

(* A flag is raised. *)
LEMMA LaterFlags ==
  ASSUME NEW s, Later(s),
         NEW n \in {[s EXCEPT !.live = FALSE], [s EXCEPT !.peerClose = TRUE],
                    [s EXCEPT !.expired = TRUE, !.stopRate = TRUE],
                    [s EXCEPT !.draining = TRUE, !.stopRate = TRUE],
                    [s EXCEPT !.forced = TRUE, !.stopRate = TRUE, !.live = FALSE],
                    [s EXCEPT !.left = TRUE, !.reader = "done"]}
  PROVE  Later(n)
<1>1. s \in ServerType
  BY DEF Later, Advances
<1>2. /\ n \in ServerType /\ n.code = s.code /\ n.term = s.term /\ n.promised = s.promised /\ n.result = s.result
      /\ (s.draining => n.draining) /\ (s.expired => n.expired)
      /\ n.reader \in {s.reader, "done"} /\ n.writer = s.writer
  <2>1. CASE n = [s EXCEPT !.live = FALSE]
    BY <1>1, <2>1 DEF ServerType
  <2>2. CASE n = [s EXCEPT !.peerClose = TRUE]
    BY <1>1, <2>2 DEF ServerType
  <2>3. CASE n = [s EXCEPT !.expired = TRUE, !.stopRate = TRUE]
    BY <1>1, <2>3 DEF ServerType
  <2>4. CASE n = [s EXCEPT !.draining = TRUE, !.stopRate = TRUE]
    BY <1>1, <2>4 DEF ServerType
  <2>5. CASE n = [s EXCEPT !.forced = TRUE, !.stopRate = TRUE, !.live = FALSE]
    BY <1>1, <2>5 DEF ServerType
  <2>6. CASE n = [s EXCEPT !.left = TRUE, !.reader = "done"]
    BY <1>1, <2>6 DEF ServerType
  <2> QED
    BY <2>1, <2>2, <2>3, <2>4, <2>5, <2>6
<1> QED
  BY <1>2 DEF Later, Advances

(* What a step of the server's goroutines leaves to show. *)
LEMMA ServerMovesInv ==
  ASSUME ConnInv, Advances(srv'), cli' = cli, wire' \in Wires, frame' \in EndCodes \cup {"none", "end"},
         req' \in RequestType, half' \in HalfType,
         resp' \in Stations, resp'.sent = resp.sent, resp'.accepted = resp.accepted, resp'.got = resp.got,
         CountInv', FrameInv', HalfInv'
  PROVE  ConnInv'
<1>1. ConnTypeOK'
  BY SameStations DEF Advances, ConnTypeOK, RequestType, HalfType
<1>2. srv \in ServerType /\ resp.sent \in Nat
  BY SameStations
<1>3. ServerInv'
  BY <1>2 DEF ConnInv, ServerInv, Advances
<1>4. PeerInv'
  BY <1>2 DEF ConnInv, PeerInv, Advances
<1> QED
  BY <1>1, <1>3, <1>4 DEF ConnInv

(* Steps that only let goroutines return, raise flags and end the stream.   *)
LEMMA ServerQuietInv ==
  ASSUME ConnInv, Later(srv'), wire' \in Wires,
         req' = req, resp' = resp, half' = half, frame' = frame, cli' = cli
  PROVE  ConnInv'
<1>1. CountInv'
  <2>1. ~Stopping' => ~Stopping
    BY DEF Later, Stopping
  <2>2. srv'.writer # "done" => WriterHolds' = WriterHolds /\ srv.writer # "done"
    BY DEF Later, WriterHolds
  <2>3. srv'.reader # "done" => ReaderHolds' = ReaderHolds /\ srv.reader # "done"
    BY DEF Later, ReaderHolds
  <2> QED
    BY <2>1, <2>2, <2>3 DEF ConnInv, CountInv
<1>2. FrameInv'
  BY DEF ConnInv, FrameInv, Later, Advances
<1>3. HalfInv'
  BY DEF ConnInv, HalfInv, Later
<1> QED
  BY <1>1, <1>2, <1>3, SameStations, ServerMovesInv DEF Later

LEMMA QuietStepsInv ==
  ASSUME ConnInv,
         \/ ServerContextEnds \/ ServerFinishes \/ ReadRateFails \/ (ReadSends /\ req' = req)
         \/ (\E fault \in InvalidFrames : ReadInvalid(fault)) \/ ReadFails \/ ServeReturns
         \/ ServerExpires \/ HubDrains \/ HubForces \/ StreamCloses
         \/ (ReadHalfClose /\ half' = half) \/ (WriteData /\ wire' = "broken" /\ resp' = resp)
  PROVE  ConnInv'
<1>1. req' = req /\ resp' = resp /\ half' = half /\ frame' = frame /\ cli' = cli /\ wire' \in Wires
  BY SameStations DEF ServerContextEnds, ServerFinishes, ReadRateFails, ReadSends, ReadInvalid, ReadFails,
     ServeReturns, ServerExpires, HubDrains, HubForces, StreamCloses, ReadHalfClose, WriteData, Wires
<1>2. Later(srv)
  BY LaterSame
<1>3. \A c \in EndCodes \ {"app"} : Later(WithCode(srv, c)) /\ Later(StreamClosed(WithCode(srv, c)))
  BY <1>2, LaterCode, LaterClosed
<1>4. Later(StreamClosed(srv))
  BY <1>2, LaterClosed
<1>5. {"unavailable", "unauthenticated", "invalid"} \subseteq EndCodes \ {"app"}
  BY DEF EndCodes
<1>6. CASE ServerContextEnds \/ HubDrains \/ HubForces
  BY <1>1, <1>2, <1>6, LaterFlags, ServerQuietInv DEF ServerContextEnds, HubDrains, HubForces
<1>7. CASE ServerFinishes \/ StreamCloses
  BY <1>1, <1>4, <1>7, ServerQuietInv DEF ServerFinishes, StreamCloses
<1>8. CASE ServeReturns
  BY <1>1, <1>4, <1>8, LaterFlags, ServerQuietInv DEF ServeReturns
<1>9. CASE ServerExpires
  BY <1>1, <1>3, <1>5, <1>9, LaterFlags, ServerQuietInv DEF ServerExpires
<1>10. CASE ReadRateFails
  BY <1>1, <1>2, <1>3, <1>5, <1>10, LaterReader, ServerQuietInv DEF ReadRateFails
<1>11. CASE \E fault \in InvalidFrames : ReadInvalid(fault)
  BY <1>1, <1>3, <1>5, <1>11, LaterReader, ServerQuietInv DEF ReadInvalid
<1>12. CASE ReadFails
  <2>1. PICK s : s = [srv EXCEPT !.reader = "done", !.stopRate = TRUE]
    OBVIOUS
  <2>2. Later(s)
    BY <1>2, <2>1, LaterReader
  <2>3. Later([s EXCEPT !.peerClose = TRUE])
    BY <2>2, LaterFlags
  <2>4. Later(WithCode(s, "unavailable"))
    BY <1>5, <2>2, LaterCode
  <2>5. Later(StreamClosed([s EXCEPT !.peerClose = TRUE])) /\ Later(StreamClosed(WithCode(s, "unavailable")))
    BY <2>3, <2>4, LaterClosed
  <2>6. srv' \in {s, StreamClosed([s EXCEPT !.peerClose = TRUE]), StreamClosed(WithCode(s, "unavailable"))}
    BY <1>12, <2>1 DEF ReadFails
  <2> QED
    BY <1>1, <2>2, <2>5, <2>6, ServerQuietInv
<1>13. CASE ReadSends /\ req' = req
  <2>1. CASE srv.term = "none"
    <3>1. PICK s : s = StreamClosed(IF Stopping THEN srv ELSE WithCode(srv, "unavailable"))
      OBVIOUS
    <3>2. Later(s)
      BY <1>3, <1>4, <1>5, <3>1
    <3>3. srv' = [s EXCEPT !.reader = "done", !.stopRate = TRUE]
      <4>1. req \in RequestType
        BY SameStations
      <4>2. [req EXCEPT !.accepted = @ + 1] # req
        <5>1. PICK r : r = [req EXCEPT !.accepted = @ + 1]
          OBVIOUS
        <5>2. r.accepted = req.accepted + 1 /\ req.accepted \in Nat
          BY <4>1, <5>1 DEF RequestType
        <5>3. r # req
          BY <5>2
        <5> QED
          BY <5>1, <5>3
      <4> QED
        BY <1>13, <2>1, <3>1, <4>2 DEF ReadSends
    <3> QED
      BY <1>1, <3>2, <3>3, LaterReader, ServerQuietInv
  <2>2. CASE srv.term # "none"
    <3>1. PICK s : s = IF srv.term = "eof" \/ Stopping THEN srv ELSE WithCode(srv, srv.term)
      OBVIOUS
    <3>2. Later(s)
      <4>1. CASE srv.term = "eof" \/ Stopping
        BY <1>2, <3>1, <4>1
      <4>2. CASE ~(srv.term = "eof" \/ Stopping)
        <5>1. srv.term \in EndCodes
          BY <2>2, <4>2, SameStations DEF ServerType, EndCodes
        <5> QED
          BY <1>2, <3>1, <4>2, <5>1, LaterCode
      <4> QED
        BY <4>1, <4>2
    <3>3. PICK b \in BOOLEAN : srv' = [s EXCEPT !.reader = "done", !.stopRate = b]
      BY <1>13, <2>2, <3>1 DEF ReadSends
    <3> QED
      BY <1>1, <3>2, <3>3, LaterReader, ServerQuietInv
  <2> QED
    BY <2>1, <2>2
<1>14. CASE ReadHalfClose /\ half' = half
  <2>1. CASE srv' = srv
    BY <1>1, <1>2, <2>1, ServerQuietInv
  <2>2. CASE srv' # srv
    <3>1. half' = [half EXCEPT !.read = srv.term = "none"] /\ ~half.read
      BY <1>14, <2>2 DEF ReadHalfClose
    <3>2. srv.term # "none"
      <4>1. half \in HalfType
        BY SameStations
      <4> QED
        BY <1>1, <3>1, <4>1 DEF HalfType
    <3>3. PICK b \in BOOLEAN : srv' = [srv EXCEPT !.reader = "done", !.stopRate = b]
      BY <1>14, <2>2, <3>2 DEF ReadHalfClose
    <3> QED
      BY <1>1, <1>2, <3>3, LaterReader, ServerQuietInv
  <2> QED
    BY <2>1, <2>2
<1>15. CASE WriteData /\ wire' = "broken" /\ resp' = resp
  <2>1. srv' = [WithCode(srv, "unavailable") EXCEPT !.writer = "done"]
    BY <1>15, SameStations DEF WriteData
  <2> QED
    BY <1>1, <1>3, <1>5, <2>1, LaterWriter, ServerQuietInv
<1> QED
  BY <1>6, <1>7, <1>8, <1>9, <1>10, <1>11, <1>12, <1>13, <1>14, <1>15

(* The service handler returns: nothing else can have told the client of an *)
(* end that is the handler's.                                               *)
LEMMA ServiceReturnsInv ==
  ASSUME ConnInv, NEW err \in {"eof", "app"}, ServiceReturns(err)
  PROVE  ConnInv'
<1>1. /\ srv.result = "none" /\ req' = req /\ resp' = resp /\ half' = half /\ wire' = wire /\ frame' = frame
      /\ cli' = cli
  BY DEF ServiceReturns
<1>2. PICK s : s = Finished(srv, err)
  OBVIOUS
<1>3. srv' = [s EXCEPT !.result = err]
  BY <1>2 DEF ServiceReturns
<1>4. srv \in ServerType /\ resp.sent \in Nat /\ srv.term \notin {"eof", "app"} /\ srv.code # "app"
  BY <1>1, SameStations DEF ConnInv, ServerInv
<1>5. /\ s \in ServerType /\ s.code = srv.code /\ s.draining = srv.draining /\ s.expired = srv.expired
      /\ s.reader = srv.reader /\ s.writer = srv.writer
      /\ \/ srv.term # "none" /\ s.term = srv.term /\ s.promised = srv.promised
         \/ srv.term = "none" /\ s.term \in {err, "unavailable"} /\ s.promised = resp.sent
  <2>1. CASE srv.term # "none"
    BY <1>2, <1>4, <2>1 DEF Finished
  <2>2. CASE srv.term = "none"
    <3>1. PICK t \in {err, "unavailable"} : t = IF srv.live THEN err ELSE "unavailable"
      OBVIOUS
    <3>2. s = [srv EXCEPT !.term = t, !.promised = resp.sent, !.live = FALSE]
      BY <1>2, <2>2, <3>1 DEF Finished
    <3> QED
      BY <1>4, <2>2, <3>1, <3>2 DEF ServerType
  <2> QED
    BY <2>1, <2>2
<1>6. /\ srv' \in ServerType /\ srv'.code = srv.code /\ srv'.draining = srv.draining /\ srv'.expired = srv.expired
      /\ srv'.reader = srv.reader /\ srv'.writer = srv.writer /\ srv'.result = err
      /\ srv'.term = s.term /\ srv'.promised = s.promised
  BY <1>3, <1>5 DEF ServerType
<1>7. ConnTypeOK'
  BY <1>1, <1>6 DEF ConnInv, ConnTypeOK
<1>8. ServerInv'
  BY <1>1, <1>4, <1>5, <1>6 DEF ConnInv, ServerInv
<1>9. CountInv'
  <2>1. Stopping' = Stopping /\ WriterHolds' = WriterHolds /\ ReaderHolds' = ReaderHolds
    BY <1>6 DEF Stopping, WriterHolds, ReaderHolds
  <2> QED
    BY <1>1, <1>6, <2>1 DEF ConnInv, CountInv
<1>10. FrameInv'
  BY <1>1, <1>4, <1>5, <1>6 DEF ConnInv, FrameInv
<1>11. HalfInv'
  BY <1>1, <1>6 DEF ConnInv, HalfInv
<1>12. PeerInv'
  BY <1>1, <1>4 DEF ConnInv, PeerInv
<1> QED
  BY <1>7, <1>8, <1>9, <1>10, <1>11, <1>12 DEF ConnInv

(* The server's goroutine moves on without a change to its stream. *)
Walks(reader, writer) ==
  /\ srv' \in ServerType /\ srv'.result = srv.result /\ srv'.term = srv.term /\ srv'.promised = srv.promised
  /\ srv'.code = srv.code /\ srv'.draining = srv.draining /\ srv'.expired = srv.expired
  /\ srv'.reader = reader /\ srv'.writer = writer

LEMMA ReaderWalks ==
  ASSUME ConnInv, NEW r \in {"read", "rate", "send"}, srv' = [srv EXCEPT !.reader = r]
  PROVE  Walks(r, srv.writer)
<1>1. srv \in ServerType
  BY SameStations
<1> QED
  BY <1>1 DEF ServerType, Walks

LEMMA WriterWalks ==
  ASSUME ConnInv, NEW w \in {"recv", "rate", "write", "done"}, srv' = [srv EXCEPT !.writer = w]
  PROVE  Walks(srv.reader, w)
<1>1. srv \in ServerType
  BY SameStations
<1> QED
  BY <1>1 DEF ServerType, Walks

LEMMA WalksAdvances ==
  ASSUME ConnInv, NEW r, NEW w, Walks(r, w)
  PROVE  Advances(srv') /\ Stopping' = Stopping
  BY DEF ConnInv, ServerInv, Walks, Advances, Stopping

(* readWebSocketRequests *)
LEMMA ReaderInv ==
  ASSUME ConnInv, \/ ReadData \/ ReadRate \/ (ReadSends /\ req' # req) \/ (ReadHalfClose /\ half' # half)
  PROVE  ConnInv'
<1>1. /\ resp' = resp /\ wire' = wire /\ frame' = frame /\ cli' = cli
  BY DEF ReadData, ReadRate, ReadSends, ReadHalfClose
<1>2. /\ req \in RequestType /\ resp \in Stations /\ half \in HalfType /\ wire \in Wires
      /\ frame \in EndCodes \cup {"none", "end"} /\ srv \in ServerType
  BY SameStations
<1>3. ASSUME NEW r \in {"read", "rate", "send"}, Walks(r, srv.writer), req' \in RequestType, half' \in HalfType,
             HalfInv',
             ~Stopping => req'.taken = req'.accepted + (IF r \in {"rate", "send"} THEN 1 ELSE 0)
      PROVE  ConnInv'
  <2>1. Advances(srv') /\ Stopping' = Stopping
    BY <1>3, WalksAdvances
  <2>2. CountInv'
    <3>1. WriterHolds' = WriterHolds /\ ReaderHolds' = (IF r \in {"rate", "send"} THEN 1 ELSE 0)
      BY <1>3 DEF Walks, WriterHolds, ReaderHolds
    <3> QED
      BY <1>1, <1>3, <2>1, <3>1 DEF ConnInv, CountInv, Walks
  <2>3. FrameInv'
    BY <1>1, <1>3 DEF ConnInv, FrameInv, Walks
  <2> QED
    BY <1>1, <1>2, <1>3, <2>1, <2>2, <2>3, ServerMovesInv
<1>4. CASE ReadData
  <2>1. PICK r \in {"read", "rate"} : r = IF Stopping THEN "read" ELSE "rate"
    OBVIOUS
  <2>2. /\ srv.reader = "read" /\ req.taken < req.written /\ half' = half
        /\ req' = [req EXCEPT !.taken = @ + 1] /\ srv' = [srv EXCEPT !.reader = r]
    BY <1>4, <2>1 DEF ReadData
  <2>3. /\ req' \in RequestType /\ req'.taken = req.taken + 1 /\ req'.accepted = req.accepted
        /\ req'.sent = req.sent /\ req'.written = req.written /\ req'.got = req.got
    BY <1>2, <2>2 DEF RequestType
  <2>4. Walks(r, srv.writer)
    BY <2>2, ReaderWalks
  <2>5. ~half.read
    BY <1>2, <2>2 DEF ConnInv, HalfInv, RequestType
  <2>6. HalfInv'
    BY <2>2, <2>3, <2>5 DEF ConnInv, HalfInv
  <2>7. ~Stopping => req'.taken = req'.accepted + (IF r \in {"rate", "send"} THEN 1 ELSE 0)
    BY <1>2, <2>1, <2>2, <2>3 DEF ConnInv, CountInv, ReaderHolds, RequestType
  <2> QED
    BY <1>2, <1>3, <2>2, <2>3, <2>4, <2>6, <2>7
<1>5. CASE ReadRate
  <2>1. srv.reader = "rate" /\ req' = req /\ half' = half /\ srv' = [srv EXCEPT !.reader = "send"]
    BY <1>5 DEF ReadRate
  <2>2. Walks("send", srv.writer)
    BY <2>1, ReaderWalks
  <2>3. HalfInv'
    BY <2>1, <2>2 DEF ConnInv, HalfInv, Walks
  <2>4. ~Stopping => req'.taken = req'.accepted + 1
    BY <2>1 DEF ConnInv, CountInv, ReaderHolds
  <2> QED
    BY <1>2, <1>3, <2>1, <2>2, <2>3, <2>4
<1>6. CASE ReadSends /\ req' # req
  <2>1. /\ srv.reader = "send" /\ req' = [req EXCEPT !.accepted = @ + 1] /\ half' = half
        /\ srv' = [srv EXCEPT !.reader = "read"]
    BY <1>6 DEF ReadSends
  <2>2. /\ req' \in RequestType /\ req'.taken = req.taken /\ req'.accepted = req.accepted + 1
        /\ req'.sent = req.sent /\ req'.written = req.written /\ req'.got = req.got
    BY <1>2, <2>1 DEF RequestType
  <2>3. Walks("read", srv.writer)
    BY <2>1, ReaderWalks
  <2>4. ~half.read
    BY <2>1 DEF ConnInv, HalfInv
  <2>5. HalfInv'
    BY <2>1, <2>2, <2>4 DEF ConnInv, HalfInv
  <2>6. ~Stopping => req'.taken = req'.accepted + 0
    BY <1>2, <2>1, <2>2 DEF ConnInv, CountInv, ReaderHolds, RequestType
  <2> QED
    BY <1>2, <1>3, <2>1, <2>2, <2>3, <2>5, <2>6
<1>7. CASE ReadHalfClose /\ half' # half
  <2>1. /\ srv.reader = "read" /\ half.written /\ ~half.read /\ req.taken = req.written /\ ~Stopping /\ req' = req
        /\ half' = [half EXCEPT !.read = srv.term = "none"]
        /\ srv' = [srv EXCEPT !.reader = IF srv.term = "none" THEN "read" ELSE "done",
                              !.stopRate = @ \/ srv.term # "none"]
    BY <1>7 DEF ReadHalfClose
  <2>2. srv.term = "none"
    <3>1. CASE srv.term # "none"
      <4>1. half' = [half EXCEPT !.read = FALSE]
        BY <2>1, <3>1
      <4>2. half' = half
        BY <1>2, <2>1, <4>1 DEF HalfType
      <4> QED
        BY <1>7, <4>2
    <3> QED
      BY <3>1
  <2>3. /\ half' \in HalfType /\ half'.app = half.app /\ half'.written = half.written /\ half'.read
        /\ half'.eof = half.eof
    BY <1>2, <2>1, <2>2 DEF HalfType
  <2>4. Walks("read", srv.writer)
    BY <1>2, <2>1, <2>2 DEF ServerType, Walks
  <2>5. req.taken = req.accepted
    BY <1>2, <2>1 DEF ConnInv, CountInv, ReaderHolds, RequestType
  <2>6. HalfInv'
    BY <2>1, <2>3, <2>4, <2>5 DEF ConnInv, HalfInv, Walks
  <2>7. ~Stopping => req'.taken = req'.accepted + 0
    BY <1>2, <2>1, <2>5 DEF RequestType
  <2> QED
    BY <1>2, <1>3, <2>1, <2>3, <2>4, <2>6, <2>7
<1> QED
  BY <1>4, <1>5, <1>6, <1>7

(* writeWebSocketResponses: data. *)
LEMMA WriterInv ==
  ASSUME ConnInv, \/ WriteFetch \/ WriteRate \/ (WriteData /\ wire' # "broken")
  PROVE  ConnInv'
<1>1. /\ req' = req /\ half' = half /\ wire' = wire /\ frame' = frame /\ cli' = cli /\ srv.writer # "done"
  BY DEF WriteFetch, WriteRate, WriteData
<1>2. /\ req \in RequestType /\ resp \in Stations /\ half \in HalfType /\ wire \in Wires
      /\ frame \in EndCodes \cup {"none", "end"} /\ srv \in ServerType
  BY SameStations
<1>3. frame = "none"
  BY <1>1 DEF ConnInv, FrameInv
<1>4. ASSUME NEW w \in {"recv", "rate", "write"}, Walks(srv.reader, w), resp' \in Stations,
             resp'.sent = resp.sent, resp'.accepted = resp.accepted, resp'.got = resp.got,
             ~Stopping => resp'.fetched = resp'.written + (IF w \in {"rate", "write"} THEN 1 ELSE 0)
      PROVE  ConnInv'
  <2>1. Advances(srv') /\ Stopping' = Stopping
    BY <1>4, WalksAdvances
  <2>2. CountInv'
    <3>1. ReaderHolds' = ReaderHolds /\ WriterHolds' = (IF w \in {"rate", "write"} THEN 1 ELSE 0)
      BY <1>4 DEF Walks, WriterHolds, ReaderHolds
    <3> QED
      BY <1>1, <1>4, <2>1, <3>1 DEF ConnInv, CountInv, Walks
  <2>3. FrameInv'
    BY <1>1, <1>3 DEF FrameInv
  <2>4. HalfInv'
    BY <1>1, <1>4 DEF ConnInv, HalfInv, Walks
  <2> QED
    BY <1>1, <1>2, <1>4, <2>1, <2>2, <2>3, <2>4, ServerMovesInv
<1>5. CASE WriteFetch
  <2>1. PICK w \in {"recv", "rate"} : w = IF Stopping THEN "recv" ELSE "rate"
    OBVIOUS
  <2>2. srv.writer = "recv" /\ resp' = [resp EXCEPT !.fetched = @ + 1] /\ srv' = [srv EXCEPT !.writer = w]
    BY <1>5, <2>1 DEF WriteFetch
  <2>3. /\ resp' \in Stations /\ resp'.fetched = resp.fetched + 1 /\ resp'.written = resp.written
        /\ resp'.sent = resp.sent /\ resp'.accepted = resp.accepted /\ resp'.got = resp.got
    BY <1>2, <2>2 DEF Stations
  <2>4. Walks(srv.reader, w)
    BY <2>2, WriterWalks
  <2>5. ~Stopping => resp'.fetched = resp'.written + (IF w \in {"rate", "write"} THEN 1 ELSE 0)
    BY <1>2, <2>1, <2>2, <2>3 DEF ConnInv, CountInv, WriterHolds, Stations
  <2> QED
    BY <1>4, <2>3, <2>4, <2>5
<1>6. CASE WriteRate
  <2>1. srv.writer = "rate" /\ resp' = resp /\ srv' = [srv EXCEPT !.writer = "write"]
    BY <1>6 DEF WriteRate
  <2>2. Walks(srv.reader, "write")
    BY <2>1, WriterWalks
  <2>3. ~Stopping => resp'.fetched = resp'.written + 1
    BY <2>1 DEF ConnInv, CountInv, WriterHolds
  <2> QED
    BY <1>2, <1>4, <2>1, <2>2, <2>3
<1>7. CASE WriteData /\ wire' # "broken"
  <2>1. srv.writer = "write" /\ resp' = [resp EXCEPT !.written = @ + 1] /\ srv' = [srv EXCEPT !.writer = "recv"]
    BY <1>7 DEF WriteData
  <2>2. /\ resp' \in Stations /\ resp'.fetched = resp.fetched /\ resp'.written = resp.written + 1
        /\ resp'.sent = resp.sent /\ resp'.accepted = resp.accepted /\ resp'.got = resp.got
    BY <1>2, <2>1 DEF Stations
  <2>3. Walks(srv.reader, "recv")
    BY <2>1, WriterWalks
  <2>4. ~Stopping => resp'.fetched = resp'.written + 0
    BY <1>2, <2>1, <2>2 DEF ConnInv, CountInv, WriterHolds, Stations
  <2> QED
    BY <1>4, <2>2, <2>3, <2>4
<1> QED
  BY <1>5, <1>6, <1>7

(* ... and the terminal frame. *)
LEMMA TerminalInv ==
  ASSUME ConnInv, WriteRateFails \/ WriteEnd
  PROVE  ConnInv'
<1>1. /\ req' = req /\ resp' = resp /\ half' = half /\ wire' = wire /\ cli' = cli /\ srv.writer \in {"rate", "recv"}
  BY DEF WriteRateFails, WriteEnd
<1>2. /\ req \in RequestType /\ resp \in Stations /\ half \in HalfType /\ wire \in Wires
      /\ frame \in EndCodes \cup {"none", "end"} /\ srv \in ServerType /\ srv.promised \in Nat
  BY SameStations
<1>3. frame = "none"
  BY <1>1 DEF ConnInv, FrameInv
<1>4. ASSUME Later(srv'), srv'.writer = "done", frame' \in EndCodes \cup {"none", "end"},
             frame' = "end" => srv.term = "eof" /\ resp.written >= srv.promised,
             frame' = "app" => srv.term = "app"
      PROVE  ConnInv'
  <2>1. CountInv'
    <3>1. ~Stopping' => ~Stopping
      BY <1>4 DEF Later, Stopping
    <3>2. srv'.reader # "done" => ReaderHolds' = ReaderHolds /\ srv.reader # "done"
      BY <1>4 DEF Later, ReaderHolds
    <3> QED
      BY <1>1, <1>4, <3>1, <3>2 DEF ConnInv, CountInv
  <2>2. FrameInv'
    BY <1>1, <1>4 DEF FrameInv, Later, Advances
  <2>3. HalfInv'
    BY <1>1, <1>4 DEF ConnInv, HalfInv, Later
  <2> QED
    BY <1>1, <1>2, <1>4, <2>1, <2>2, <2>3, ServerMovesInv DEF Later
<1>5. Later(srv)
  BY LaterSame
<1>6. CASE WriteRateFails
  <2>1. PICK s : s = IF Silent \/ srv.expired \/ srv.code # "none" THEN srv ELSE StreamClosed(WithCode(srv, "unavailable"))
    OBVIOUS
  <2>2. PICK code : code = IF srv.expired THEN "unauthenticated"
                           ELSE IF srv.code # "none" THEN srv.code ELSE "unavailable"
    OBVIOUS
  <2>3. srv' = [s EXCEPT !.writer = "done"] /\ frame' \in {frame, code}
    BY <1>6, <2>1, <2>2 DEF WriteRateFails, TerminalWrite
  <2>4. Later(s)
    <3>1. "unavailable" \in EndCodes
      BY DEF EndCodes
    <3>2. Later(StreamClosed(WithCode(srv, "unavailable")))
      BY <1>5, <3>1, LaterCode, LaterClosed
    <3> QED
      BY <1>5, <2>1, <3>2
  <2>5. code \in EndCodes /\ (code = "app" => srv.term = "app")
    BY <1>2, <2>2 DEF EndCodes, ServerType, ConnInv, ServerInv
  <2>6. /\ frame' \in EndCodes \cup {"none", "end"} /\ frame' # "end" /\ (frame' = "app" => srv.term = "app")
    BY <1>3, <2>3, <2>5 DEF EndCodes
  <2> QED
    BY <1>4, <2>3, <2>4, <2>6, LaterWriter
<1>7. CASE WriteEnd
  <2>1. /\ srv.writer = "recv" /\ srv.term # "none" /\ resp.fetched = resp.sent
        /\ srv' = [srv EXCEPT !.writer = "done"]
        /\ frame' = frame \/ (~srv.draining /\ frame' = TerminalFrame)
    BY <1>7 DEF WriteEnd, Silent, TerminalWrite
  <2>2. CASE frame' = frame
    BY <1>2, <1>3, <1>4, <1>5, <2>1, <2>2, LaterWriter
  <2>3. CASE ~srv.draining /\ frame' = TerminalFrame
    <3>1. /\ TerminalFrame \in EndCodes \cup {"end"}
          /\ TerminalFrame = "end" => ~srv.expired /\ srv.term = "eof"
          /\ TerminalFrame = "app" => srv.term = "app"
      BY <1>2, <2>1 DEF TerminalFrame, EndCodes, ServerType, ConnInv, ServerInv
    <3>2. TerminalFrame = "end" => resp.written >= srv.promised
      <4>1. TerminalFrame = "end" => resp.fetched = resp.written + 0
        BY <2>1, <2>3, <3>1 DEF ConnInv, CountInv, Stopping, WriterHolds
      <4> QED
        BY <1>2, <2>1, <4>1 DEF ConnInv, ServerInv, Stations
    <3> QED
      BY <1>4, <1>5, <2>1, <2>3, <3>1, <3>2, LaterWriter
  <2> QED
    BY <2>1, <2>2, <2>3
<1> QED
  BY <1>6, <1>7

LEMMA ConnNextInv == ConnInv /\ [ConnNext]_connVars => ConnInv'
<1> SUFFICES ASSUME ConnInv, [ConnNext]_connVars PROVE ConnInv'
  OBVIOUS
<1>1. CASE ClientWrites \/ ClientWritesHalfClose
  <2>1. cli' = cli \/ ClientReturns("unavailable")
    BY <1>1 DEF ClientWrites, ClientWritesHalfClose
  <2> QED
    BY <1>1, <2>1, RequestsInv, ClientStopsInv
<1>2. CASE AppSends \/ AppHalfCloses \/ HandlerReceives \/ HandlerSeesEof
  BY <1>2, RequestsInv
<1>3. CASE ClientReadsTerminal \/ ClientReadFails \/ ClientStops \/ ClientExpires
  BY <1>3, ClientStopsInv
<1>4. CASE \/ AppReceives \/ AppSeesEnd \/ ClientReadsData \/ ClientContextEnds \/ HandlerSends
           \/ GoingAway \/ Breaks \/ UNCHANGED connVars
  BY <1>4, ResponsesInv
<1>5. CASE \E err \in {"eof", "app"} : ServiceReturns(err)
  BY <1>5, ServiceReturnsInv
<1>6. CASE \/ ServerContextEnds \/ ServerFinishes \/ ReadRateFails
           \/ (\E fault \in InvalidFrames : ReadInvalid(fault)) \/ ReadFails \/ ServeReturns
           \/ ServerExpires \/ HubDrains \/ HubForces \/ StreamCloses
  BY <1>6, QuietStepsInv
<1>7. CASE ReadData \/ ReadRate \/ ReadSends \/ ReadHalfClose
  BY <1>7, QuietStepsInv, ReaderInv
<1>8. CASE WriteFetch \/ WriteRate \/ WriteData
  <2>1. WriteData /\ wire' = "broken" => resp' = resp
    BY DEF WriteData
  <2> QED
    BY <1>8, <2>1, QuietStepsInv, WriterInv
<1>9. CASE WriteRateFails \/ WriteEnd
  BY <1>9, TerminalInv
<1> QED
  BY <1>1, <1>2, <1>3, <1>4, <1>5, <1>6, <1>7, <1>8, <1>9 DEF ConnNext, ClientStep, ReaderStep, WriterStep

(* However the goroutines of both ends, the wire, drains, expiries and the  *)
(* two applications interleave, and for every queue and number of messages: *)
(* the client is told EOF or the service's error only if the handler        *)
(* returned it, EOF only after every response, and the handler is told the  *)
(* end of the requests only after the last of them (httpserver/websocket.go).*)
THEOREM ConnectionsEndTruly == ConnSpec => []EndsAreTrue
<1>1. ConnInit => ConnInv
  BY ConnInitInv
<1>2. ConnInv /\ [ConnNext]_connVars => ConnInv'
  BY ConnNextInv
<1>3. ConnInv => EndsAreTrue
  BY DEF ConnInv, PeerInv, ServerInv, HalfInv, EndsAreTrue
<1> QED
  BY <1>1, <1>2, <1>3, PTL DEF ConnSpec

=============================================================================
