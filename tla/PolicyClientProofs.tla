--------------------------- MODULE PolicyClientProofs ---------------------------
(* Proofs about PolicyClient, for every set of calls and of connections, every *)
(* number of attempts and every number of restarts of the server.             *)
EXTENDS PolicyClient, TLAPS

USE AttemptsAssumption, IdsAssumption, ServersAssumption

\* Where a coroutine tears down what it detached.
Tear == {"tearRaise", "tearRedial", "tearRetry"}

\* One request at a time; an abandoned one is the last.
Alone == \A j, k \in Call : Active(j) /\ Active(k) => j = k

\* A coroutine that uses a connection has one; one that makes or tears down a
\* connection finds none in _ws.
Placed == \A k \in Call :
  /\ call[k].pc \in {"helloSend", "helloWait", "send", "wait"} => call[k].conn # NoConn
  /\ call[k].pc \in Tear \cup {"dial"} => ws = NoConn

\* The loop that runs is the current one, and only close() leaves the current
\* connection without it.
Reading ==
  /\ \A c \in Conn : recv[c] = "running" => c = ws /\ c = recvTask
  /\ ws # NoConn => recv[ws] = "running" \/ closer.pc = "goodbye"

\* Once _closed is set, the only connection left is the one to say goodbye on.
Farewell ==
  /\ closed <=> closer.pc # "idle"
  /\ closer.conn # NoConn => closer.pc = "teardown"
  /\ closed /\ ws # NoConn => closer.pc = "goodbye"

\* A future and its entry of _pending.
Futures == \A i \in Ids :
  /\ fut[i] = "waiting" => i \in pending
  /\ i \in pending => fut[i] \in {"waiting", "cancelled"}

\* A future that may still be completed belongs to the current connection.
Current == \A k \in Call : \A i \in Registered(k) : fut[i] = "waiting" => ws = call[k].conn

\* An open connection is the current one or about to be closed.
OpenOwned == \A c \in Conn : net[c] = "open" =>
  \/ c = ws \/ c = closer.conn
  \/ \E k \in Call : call[k].pc \in Tear /\ call[k].conn = c

IInv == Alone /\ Placed /\ Reading /\ Farewell /\ Futures /\ Current /\ PendingOwned
        /\ OpenOwned

-----------------------------------------------------------------------------
(* Types.                                                                     *)

CallType == call \in [Call -> Coroutines]
ConnType == /\ ws \in Conn \cup {NoConn} /\ recvTask \in Conn \cup {NoConn}
            /\ recv \in [Conn -> {"none", "running", "done"}]
FutType  == /\ pending \in SUBSET Ids
            /\ fut \in [Ids -> {"none", "waiting", "reply", "error", "reset", "cancelled"}]
EndType  == /\ abandoned \in BOOLEAN /\ closed \in BOOLEAN
            /\ closer \in [pc : {"idle", "goodbye", "teardown", "done"},
                           conn : Conn \cup {NoConn}]
NetType  == /\ pinned \in Server \cup {NoServer} /\ server \in Server
            /\ net \in [Conn -> {"none", "open", "lost"}]
            /\ home \in [Conn -> Server \cup {NoServer}]
            /\ up \in [Conn -> SUBSET Ids] /\ down \in [Conn -> SUBSET Frames]

LEMMA TypeParts ==
  /\ TypeOK => CallType /\ ConnType /\ FutType /\ EndType /\ NetType
  /\ CallType' /\ ConnType' /\ FutType' /\ EndType' /\ NetType' => TypeOK'
BY DEF TypeOK, CallType, ConnType, FutType, EndType, NetType

LEMMA Attempts == 0 \in 0..MaxAttempts /\ 1 \in 0..MaxAttempts
OBVIOUS

\* Whatever a coroutine becomes is a coroutine.
LEMMA GoesType ==
  ASSUME CallType, NEW k \in Call, NEW pc \in Pcs, NEW c \in Conn \cup {NoConn},
         NEW n \in 0..MaxAttempts, NEW r \in BOOLEAN, NEW e \in BOOLEAN,
         Goes(k, pc, c, n, r, e)
  PROVE  CallType'
BY DEF CallType, Coroutines, Goes

\* A coroutine that goes on at pc with connection c.
At(k, pc, c) == [call[k] EXCEPT !.pc = pc, !.conn = c]

LEMMA WithConn ==
  ASSUME CallType, NEW k \in Call, NEW pc \in Pcs, NEW c \in Conn \cup {NoConn}
  PROVE  At(k, pc, c) \in Coroutines /\ At(k, pc, c).pc = pc /\ At(k, pc, c).conn = c
BY DEF At, CallType, Coroutines

LEMMA WithConnType ==
  ASSUME CallType, NEW k \in Call, NEW pc \in Pcs, NEW c \in Conn \cup {NoConn},
         call' = [call EXCEPT ![k].pc = pc, ![k].conn = c]
  PROVE  CallType'
<1>1. call' = [call EXCEPT ![k] = At(k, pc, c)] BY DEF At, CallType, Coroutines
<1>2. At(k, pc, c) \in Coroutines BY WithConn
<1> QED BY <1>1, <1>2 DEF CallType

LEMMA EndsType ==
  ASSUME CallType, NEW k \in Call, NEW outcome \in {"ok", "failed"}, Ends(k, outcome)
  PROVE  CallType'
BY DEF CallType, Coroutines, Ends, Fresh, Pcs

LEMMA DialType ==
  ASSUME CallType, NEW k \in Call, NEW n \in 0..MaxAttempts, NEW r \in BOOLEAN,
         NEW e \in BOOLEAN, Dial(k, n, r, e)
  PROVE  CallType'
<1>1. CASE closed BY <1>1, EndsType DEF Dial
<1>2. CASE ~closed BY <1>2, GoesType DEF Dial, Pcs
<1> QED BY <1>1, <1>2

LEMMA ForgetType ==
  ASSUME FutType, NEW i, Forget(i) \/ FailPending(i) PROVE FutType'
BY DEF FutType, Forget, FailPending

LEMMA DetachType ==
  ASSUME ConnType, FutType, NEW i, Detach(i) PROVE ConnType' /\ FutType'
<1>1. FutType' BY ForgetType DEF Detach
<1>2. ConnType' BY DEF Detach, ConnType
<1> QED BY <1>1, <1>2

LEMMA SendFailedType ==
  ASSUME CallType, ConnType, FutType, NEW k \in Call, NEW r \in BOOLEAN, SendFailed(k, r)
  PROVE  CallType' /\ ConnType' /\ FutType'
<1>1. CASE r \/ closed
  <2>1. Ends(k, "failed") /\ Forget(k) /\ UNCHANGED connVars BY <1>1 DEF SendFailed
  <2> QED BY <2>1, EndsType, ForgetType DEF ConnType, connVars
<1>2. CASE ~(r \/ closed)
  <2>1. Goes(k, "tearRetry", ws, 0, TRUE, FALSE) /\ Detach(k) BY <1>2 DEF SendFailed
  <2>2. "tearRetry" \in Pcs /\ ws \in Conn \cup {NoConn} BY DEF ConnType, Pcs
  <2>3. CallType' BY <2>1, <2>2, GoesType, Attempts
  <2>4. ConnType' /\ FutType' BY <2>1, DetachType
  <2> QED BY <2>3, <2>4
<1> QED BY <1>1, <1>2

LEMMA SubmitType ==
  ASSUME CallType, ConnType, FutType, NEW k \in Call, NEW r \in BOOLEAN, Submit(k, r)
  PROVE  CallType' /\ ConnType' /\ FutType'
<1>1. CASE ws = NoConn BY <1>1, SendFailedType DEF Submit
<1>2. CASE ws # NoConn
  <2>1. CallType'
    <3>1. Goes(k, "send", ws, 0, r, FALSE) BY <1>2 DEF Submit
    <3> QED BY <3>1, Attempts DEF CallType, ConnType, Coroutines, Goes, Pcs
  <2>2. ConnType' BY <1>2 DEF Submit, ConnType, connVars
  <2>3. FutType' BY <1>2 DEF Submit, FutType, Ids
  <2> QED BY <2>1, <2>2, <2>3
<1> QED BY <1>1, <1>2

LEMMA RequestType ==
  ASSUME CallType, ConnType, FutType, NEW k \in Call, NEW r \in BOOLEAN, Request(k, r)
  PROVE  CallType' /\ ConnType' /\ FutType'
<1>1. CASE ws # NoConn BY <1>1, SubmitType DEF Request
<1>2. CASE ws = NoConn
  <2>1. Dial(k, 1, r, TRUE) /\ UNCHANGED <<connVars, futVars>> BY <1>2 DEF Request
  <2>2. CallType' BY <2>1, DialType, Attempts
  <2> QED BY <2>1, <2>2 DEF ConnType, FutType, connVars, futVars
<1> QED BY <1>1, <1>2

\* A coroutine that is torn down keeps the connection it detached.
LEMMA AttemptFailedType ==
  ASSUME CallType, ConnType, FutType, NEW k \in Call, NEW c,
         AttemptFailed(k, c)
  PROVE  CallType' /\ ConnType' /\ FutType'
<1>1. CallType'
  <2>1. "tearRedial" \in Pcs /\ ws \in Conn \cup {NoConn} BY DEF ConnType, Pcs
  <2> QED BY <2>1, WithConnType DEF AttemptFailed
<1> QED BY <1>1, DetachType DEF AttemptFailed

LEMMA TypeInit == Init => TypeOK
<1> SUFFICES ASSUME Init PROVE TypeOK
  OBVIOUS
<1>1. CallType BY Attempts DEF Init, CallType, Coroutines, Pcs, Fresh
<1>2. ConnType /\ FutType /\ EndType BY DEF Init, ConnType, FutType, EndType
<1>3. NetType BY DEF Init, NetType, Server
<1> QED BY <1>1, <1>2, <1>3 DEF TypeOK, CallType, ConnType, FutType, EndType, NetType

LEMMA TypeStep == TypeOK /\ Placed /\ [Next]_vars => TypeOK'
<1> SUFFICES ASSUME TypeOK, Placed, [Next]_vars PROVE TypeOK'
  OBVIOUS
<1>0. CallType /\ ConnType /\ FutType /\ EndType /\ NetType BY TypeParts
<1> USE DEF connVars, futVars, netVars
<1>1. ASSUME NEW k \in Call, Start(k) PROVE TypeOK'
  <2>1. Request(k, FALSE) BY <1>1 DEF Start
  <2>2. FALSE \in BOOLEAN OBVIOUS
  <2>3. CallType' /\ ConnType' /\ FutType' BY <1>0, <2>1, <2>2, RequestType
  <2>4. EndType' /\ NetType' BY <1>0, <1>1 DEF Start, EndType, NetType
  <2> QED BY <2>3, <2>4, TypeParts
<1>2. ASSUME NEW k \in Call, Refused(k) PROVE TypeOK'
  <2>1. CallType' /\ ConnType' /\ FutType' BY <1>0, <1>2, AttemptFailedType DEF Refused
  <2>2. EndType' /\ NetType' BY <1>0, <1>2 DEF Refused, EndType, NetType
  <2> QED BY <2>1, <2>2, TypeParts
<1>3. ASSUME NEW k \in Call, NEW c \in Conn, Opened(k, c) PROVE TypeOK'
  <2>1. CallType' BY <1>0, <1>3 DEF Opened, CallType, Coroutines, Pcs
  <2>2. ConnType' BY <1>0, <1>3 DEF Opened, ConnType
  <2>3. FutType'
    <3>1. CASE ClosedDuringConnect BY <1>0, <1>3, <3>1, ForgetType DEF Opened
    <3>2. CASE ~ClosedDuringConnect BY <1>0, <1>3, <3>2 DEF Opened, FutType, Ids
    <3> QED BY <3>1, <3>2
  <2>4. EndType' BY <1>0, <1>3 DEF Opened, EndType
  <2>5. NetType' BY <1>0, <1>3 DEF Opened, NetType
  <2> QED BY <2>1, <2>2, <2>3, <2>4, <2>5, TypeParts
<1>4. ASSUME NEW k \in Call, HelloSent(k) PROVE TypeOK'
  <2>1. call[k].conn \in Conn BY <1>0, <1>4 DEF HelloSent, Placed, CallType, Coroutines
  <2>2. CallType' /\ ConnType' /\ FutType'
    <3>1. CASE net[call[k].conn] = "open"
      BY <1>0, <1>4, <3>1 DEF HelloSent, CallType, Coroutines, Pcs, ConnType, FutType
    <3>2. CASE net[call[k].conn] # "open"
      BY <1>0, <1>4, <3>2, AttemptFailedType DEF HelloSent
    <3> QED BY <3>1, <3>2
  <2>3. EndType' /\ NetType' BY <1>0, <1>4, <2>1 DEF HelloSent, EndType, NetType, Ids
  <2> QED BY <2>2, <2>3, TypeParts
<1>5. ASSUME NEW k \in Call, HelloDone(k) PROVE TypeOK'
  <2>1. call[k].conn \in Conn BY <1>0, <1>5 DEF HelloDone, Placed, CallType, Coroutines
  <2>2. call[k].retried \in BOOLEAN BY <1>0 DEF CallType, Coroutines
  <2>3. CallType' /\ ConnType' /\ FutType'
    <3>1. CASE AttemptFailed(k, call[k].conn) BY <1>0, <3>1, AttemptFailedType
    <3>2. CASE Connected(k)
      <4>1. Submit(k, call[k].retried) \/ Request(k, call[k].retried)
        BY <3>2 DEF Connected
      <4> QED BY <1>0, <2>2, <4>1, SubmitType, RequestType
    <3>3. CASE /\ call' = [call EXCEPT ![k].pc = "tearRaise", ![k].conn = ws]
               /\ Detach(call[k].conn)
      <4>1. CallType'
        <5>1. "tearRaise" \in Pcs /\ ws \in Conn \cup {NoConn} BY <1>0 DEF ConnType, Pcs
        <5> QED BY <1>0, <3>3, <5>1, WithConnType
      <4> QED BY <1>0, <3>3, <4>1, DetachType
    <3> QED BY <1>5, <3>1, <3>2, <3>3 DEF HelloDone
  <2>4. EndType' /\ NetType' BY <1>0, <1>5, <2>1 DEF HelloDone, EndType, NetType
  <2> QED BY <2>3, <2>4, TypeParts
<1>6. ASSUME NEW k \in Call, TornDown(k) PROVE TypeOK'
  <2>1. /\ call[k].tries \in 0..MaxAttempts /\ call[k].retried \in BOOLEAN
        /\ call[k].entry \in BOOLEAN
    BY <1>0 DEF CallType, Coroutines
  <2>2. CallType'
    <3>1. CASE Ends(k, "failed") BY <1>0, <3>1, EndsType
    <3>2. CASE /\ call[k].tries < MaxAttempts
               /\ Dial(k, call[k].tries + 1, call[k].retried, call[k].entry)
      <4>1. call[k].tries + 1 \in 0..MaxAttempts BY <2>1, <3>2
      <4> QED BY <1>0, <2>1, <3>2, <4>1, DialType
    <3>3. CASE Dial(k, 1, call[k].retried, FALSE)
      <4>1. FALSE \in BOOLEAN OBVIOUS
      <4> QED BY <1>0, <2>1, <3>3, <4>1, DialType, Attempts
    <3> QED BY <1>6, <3>1, <3>2, <3>3 DEF TornDown
  <2>3. ConnType' /\ FutType' /\ EndType' BY <1>0, <1>6 DEF TornDown, ConnType, FutType, EndType
  <2>4. NetType' BY <1>0, <1>6 DEF TornDown, Drop, NetType
  <2> QED BY <2>2, <2>3, <2>4, TypeParts
<1>7. ASSUME NEW k \in Call, Sent(k) PROVE TypeOK'
  <2>1. call[k].conn \in Conn BY <1>0, <1>7 DEF Sent, Placed, CallType, Coroutines
  <2>2. call[k].retried \in BOOLEAN BY <1>0 DEF CallType, Coroutines
  <2>3. CallType' /\ ConnType' /\ FutType'
    <3>1. CASE net[call[k].conn] = "open"
      BY <1>0, <1>7, <3>1 DEF Sent, CallType, Coroutines, Pcs, ConnType, FutType
    <3>2. CASE net[call[k].conn] # "open"
      <4>1. SendFailed(k, call[k].retried) BY <1>7, <3>2 DEF Sent
      <4> QED BY <1>0, <2>2, <4>1, SendFailedType
    <3> QED BY <3>1, <3>2
  <2>4. EndType' /\ NetType' BY <1>0, <1>7, <2>1 DEF Sent, EndType, NetType, Ids
  <2> QED BY <2>3, <2>4, TypeParts
<1>8. ASSUME NEW k \in Call, Settle(k) PROVE TypeOK'
  <2>1. CallType'
    <3>1. CASE Ends(k, "ok") \/ Ends(k, "failed") BY <1>0, <3>1, EndsType
    <3>2. CASE Dial(k, 1, TRUE, FALSE)
      <4>1. TRUE \in BOOLEAN /\ FALSE \in BOOLEAN OBVIOUS
      <4> QED BY <1>0, <3>2, <4>1, DialType, Attempts
    <3> QED BY <1>8, <3>1, <3>2 DEF Settle
  <2>2. FutType' BY <1>0, <1>8, ForgetType DEF Settle
  <2>3. ConnType' /\ EndType' /\ NetType' BY <1>0, <1>8 DEF Settle, ConnType, EndType, NetType
  <2> QED BY <2>1, <2>2, <2>3, TypeParts
<1>9. ASSUME NEW i \in Ids, Timeout(i) PROVE TypeOK'
  BY <1>9 DEF Timeout, TypeOK
<1>10. ASSUME NEW c \in Conn, NEW m \in down[c], Dispatch(c, m) PROVE TypeOK'
  <2>1. m \in Frames BY DEF TypeOK
  <2>2. FutType' BY <1>0, <1>10, <2>1 DEF Dispatch, FutType, Frames
  <2>3. NetType' BY <1>0, <1>10 DEF Dispatch, NetType
  <2>4. CallType' /\ ConnType' /\ EndType' BY <1>0, <1>10 DEF Dispatch, CallType, ConnType, EndType
  <2> QED BY <2>2, <2>3, <2>4, TypeParts
<1>11. ASSUME NEW c \in Conn, RecvEnd(c) PROVE TypeOK'
  <2>1. FutType' BY <1>0, <1>11, ForgetType DEF RecvEnd, FutType
  <2>2. ConnType' BY <1>0, <1>11 DEF RecvEnd, ConnType
  <2>3. CallType' /\ EndType' /\ NetType' BY <1>0, <1>11 DEF RecvEnd, CallType, EndType, NetType
  <2> QED BY <2>1, <2>2, <2>3, TypeParts
<1>12. CASE Disconnect /\ UNCHANGED <<call, abandoned, pinned, netVars>> /\ closed' \in {closed, TRUE}
  <2>1. FutType' BY <1>0, <1>12, ForgetType DEF Disconnect
  <2>2. ConnType' /\ EndType' BY <1>0, <1>12 DEF Disconnect, ConnType, EndType
  <2>3. CallType' /\ NetType' BY <1>0, <1>12 DEF CallType, NetType
  <2> QED BY <2>1, <2>2, <2>3, TypeParts
<1>13. CASE Close
  <2>1. CASE ws = NoConn BY <1>12, <1>13, <2>1 DEF Close
  <2>2. CASE ws # NoConn BY <1>13, <2>2 DEF Close, TypeOK
  <2> QED BY <2>1, <2>2
<1>14. CASE Goodbye BY <1>12, <1>14 DEF Goodbye
<1>15. CASE Closed
  <2>1. EndType' BY <1>0, <1>15 DEF Closed, EndType
  <2>2. NetType' BY <1>0, <1>15 DEF Closed, Drop, NetType
  <2>3. CallType' /\ ConnType' /\ FutType' BY <1>0, <1>15 DEF Closed, CallType, ConnType, FutType
  <2> QED BY <2>1, <2>2, <2>3, TypeParts
<1>16. CASE Abandon BY <1>16 DEF Abandon, TypeOK
<1>17. ASSUME NEW c \in Conn, Lose(c) PROVE TypeOK' BY <1>17 DEF Lose, TypeOK
<1>18. ASSUME NEW c \in Conn, NEW i \in Ids, NEW kind \in {"reply", "error"}, Reply(c, i, kind)
       PROVE  TypeOK'
  <2>1. NetType' BY <1>0, <1>18 DEF Reply, NetType, Frames
  <2>2. CallType' /\ ConnType' /\ FutType' /\ EndType'
    BY <1>0, <1>18 DEF Reply, CallType, ConnType, FutType, EndType
  <2> QED BY <2>1, <2>2, TypeParts
<1>19. CASE Restart BY <1>19 DEF Restart, TypeOK, Server
<1>20. CASE UNCHANGED vars BY <1>20 DEF vars, TypeOK
<1> QED
  BY <1>1, <1>2, <1>3, <1>4, <1>5, <1>6, <1>7, <1>8, <1>9, <1>10, <1>11, <1>13, <1>14,
     <1>15, <1>16, <1>17, <1>18, <1>19, <1>20
  DEF Next, Client, Coroutine, Receive, Closing

-----------------------------------------------------------------------------
(* What the shared steps do to the invariant.                                 *)

\* Apart from k, no request is under way.
Only(k) == \A j \in Call : Active(j) => j = k

\* _pending is empty and nobody is left to be woken.
Quiet == pending = {} /\ \A i \in Ids : fut[i] # "waiting"

LEMMA OnlyActive == ASSUME Alone, NEW k \in Call, Active(k) PROVE Only(k)
BY DEF Alone, Only

LEMMA OnlyPending ==
  ASSUME PendingOwned, NEW k \in Call, Only(k) PROVE pending \subseteq Registered(k)
BY DEF PendingOwned, Only, Registered, Active

LEMMA Moves ==
  ASSUME CallType, NEW k \in Call, NEW s, call' = [call EXCEPT ![k] = s]
  PROVE  call'[k] = s /\ \A j \in Call : j # k => call'[j] = call[j]
BY DEF CallType

LEMMA Forgotten ==
  ASSUME FutType, Futures, NEW i, pending \subseteq {i}, Forget(i) PROVE Quiet'
BY DEF FutType, Futures, Forget, Quiet

LEMMA Failed ==
  ASSUME FutType, Futures, NEW i, FailPending(i) PROVE Quiet'
BY DEF FutType, Futures, FailPending, Quiet

LEMMA Detached ==
  ASSUME ConnType, FutType, Futures, Reading, NEW i, pending \subseteq {i}, Detach(i)
  PROVE  Quiet' /\ ws' = NoConn /\ \A c \in Conn : recv'[c] # "running"
<1>1. Quiet' BY Forgotten, Failed DEF Detach
<1>2. ws' = NoConn /\ \A c \in Conn : recv'[c] # "running" BY DEF Detach, ConnType, Reading
<1> QED BY <1>1, <1>2

\* A coroutine that has no request registered any more, with the connection as
\* it was or detached.
LEMMA Quieted ==
  ASSUME TypeOK, IInv, NEW k \in Call, Only(k), NEW s \in Coroutines,
         call' = [call EXCEPT ![k] = s],
         s.pc \in Tear \cup {"dial", "ok", "failed"},
         s.pc \in Tear \cup {"dial"} => ws' = NoConn,
         Quiet', OpenOwned', UNCHANGED <<closer, closed>>,
         UNCHANGED connVars \/ (ws' = NoConn /\ \A c \in Conn : recv'[c] # "running")
  PROVE  IInv'
<1>1. CallType BY TypeParts
<1>2. call'[k] = s /\ \A j \in Call : j # k => call'[j] = call[j] BY <1>1, Moves
<1>3. \A j \in Call : j # k => call'[j].pc \in {"idle", "ok", "failed"}
  BY <1>2 DEF Only, Active
<1>4. \A j \in Call : Registered(j)' = {} BY <1>2, <1>3 DEF Registered, Tear
<1>5. Alone' BY <1>3 DEF Alone, Active
<1>6. Placed' BY <1>2, <1>3 DEF Placed, Tear
<1>7. Reading' BY DEF IInv, Reading, connVars
<1>8. Farewell' BY DEF IInv, Farewell, connVars
<1>9. Futures' BY DEF Futures, Quiet
<1>10. Current' BY <1>4 DEF Current
<1>11. PendingOwned' BY DEF PendingOwned, Quiet
<1> QED BY <1>5, <1>6, <1>7, <1>8, <1>9, <1>10, <1>11 DEF IInv

\* What was detached is torn down.
LEMMA Torn ==
  ASSUME TypeOK, IInv, NEW k \in Call, Only(k), call[k].pc \notin Tear,
         NEW s \in Coroutines, call' = [call EXCEPT ![k] = s], s.pc \in Tear, s.conn = ws,
         NEW i, pending \subseteq {i}, Detach(i), UNCHANGED <<closer, closed, net>>
  PROVE  IInv'
<1>1. CallType /\ ConnType /\ FutType BY TypeParts
<1>2. Quiet' /\ ws' = NoConn /\ \A c \in Conn : recv'[c] # "running"
  BY <1>1, Detached DEF IInv
<1>3. call'[k] = s /\ \A j \in Call : j # k => call'[j] = call[j] BY <1>1, Moves
<1>4. OpenOwned'
  <2> SUFFICES ASSUME NEW c \in Conn, net[c] = "open"
      PROVE  c = closer.conn \/ \E j \in Call : call'[j].pc \in Tear /\ call'[j].conn = c
    BY DEF OpenOwned
  <2>1. \A j \in Call : call[j].pc \notin Tear BY DEF Only, Active, Tear
  <2>2. c = ws \/ c = closer.conn BY <2>1 DEF IInv, OpenOwned
  <2> QED BY <1>3, <2>2
<1> QED BY <1>2, <1>4, Quieted

LEMMA Ended ==
  ASSUME TypeOK, IInv, NEW k \in Call, Only(k), call[k].pc \notin Tear,
         NEW s \in Coroutines, call' = [call EXCEPT ![k] = s], s.pc \in {"dial", "ok", "failed"},
         s.pc = "dial" => ws = NoConn, Quiet', UNCHANGED <<connVars, closer, closed, net>>
  PROVE  IInv'
<1>1. CallType BY TypeParts
<1>2. call'[k] = s /\ \A j \in Call : j # k => call'[j] = call[j] BY <1>1, Moves
<1>3. OpenOwned'
  <2>1. \A j \in Call : call[j].pc \notin Tear BY DEF Only, Active, Tear
  <2> QED BY <2>1 DEF IInv, OpenOwned, connVars
<1> QED BY <1>3, Quieted DEF Tear, connVars

\* A request's ways from one of its awaits to the next.
LEMMA DialStep ==
  ASSUME TypeOK, IInv, NEW k \in Call, Only(k), call[k].pc \notin Tear,
         NEW n \in 0..MaxAttempts, NEW r \in BOOLEAN, NEW e \in BOOLEAN, Dial(k, n, r, e),
         ws = NoConn, Quiet', UNCHANGED <<connVars, closer, closed, net>>
  PROVE  IInv'
<1>1. CASE closed
  <2>1. call' = [call EXCEPT ![k] = Fresh("failed")] BY <1>1 DEF Dial, Ends
  <2>2. Fresh("failed") \in Coroutines BY Attempts DEF Fresh, Coroutines, Pcs
  <2>3. Fresh("failed").pc = "failed" BY DEF Fresh
  <2> QED BY <2>1, <2>2, <2>3, Ended
<1>2. CASE ~closed
  <2> DEFINE s == [pc |-> "dial", conn |-> NoConn, tries |-> n, retried |-> r, entry |-> e]
  <2>1. call' = [call EXCEPT ![k] = s] BY <1>2 DEF Dial, Goes
  <2>2. s \in Coroutines BY DEF Coroutines, Pcs
  <2>3. s.pc = "dial" OBVIOUS
  <2> HIDE DEF s
  <2> QED BY <2>1, <2>2, <2>3, Ended
<1> QED BY <1>1, <1>2

LEMMA SendFailedStep ==
  ASSUME TypeOK, IInv, NEW k \in Call, Only(k), call[k].pc \notin Tear, NEW r \in BOOLEAN,
         SendFailed(k, r), pending \subseteq {k}, UNCHANGED <<closer, closed, net>>
  PROVE  IInv'
<1>0. ConnType /\ FutType /\ Futures BY TypeParts DEF IInv
<1>1. CASE r \/ closed
  <2>1. Ends(k, "failed") /\ Forget(k) /\ UNCHANGED connVars BY <1>1 DEF SendFailed
  <2>2. call' = [call EXCEPT ![k] = Fresh("failed")] BY <2>1 DEF Ends
  <2>3. Fresh("failed") \in Coroutines BY Attempts DEF Fresh, Coroutines, Pcs
  <2>4. Fresh("failed").pc = "failed" BY DEF Fresh
  <2>5. Quiet' BY <1>0, <2>1, Forgotten
  <2> QED BY <2>1, <2>2, <2>3, <2>4, <2>5, Ended
<1>2. CASE ~(r \/ closed)
  <2> DEFINE s == [pc |-> "tearRetry", conn |-> ws, tries |-> 0, retried |-> TRUE,
                   entry |-> FALSE]
  <2>1. call' = [call EXCEPT ![k] = s] /\ Detach(k) BY <1>2 DEF SendFailed, Goes
  <2>2. s \in Coroutines BY <1>0, Attempts DEF Coroutines, Pcs, ConnType
  <2>3. s.pc \in Tear /\ s.conn = ws BY DEF Tear
  <2> HIDE DEF s
  <2> QED BY <2>1, <2>2, <2>3, Torn
<1> QED BY <1>1, <1>2

LEMMA SubmitStep ==
  ASSUME TypeOK, IInv, NEW k \in Call, Only(k), call[k].pc \notin Tear, NEW r \in BOOLEAN,
         Submit(k, r), pending = {}, UNCHANGED <<closer, closed, net>>
  PROVE  IInv'
<1>1. CASE ws = NoConn BY <1>1, SendFailedStep DEF Submit
<1>2. CASE ws # NoConn
  <2> DEFINE s == [pc |-> "send", conn |-> ws, tries |-> 0, retried |-> r, entry |-> FALSE]
  <2>1. /\ call' = [call EXCEPT ![k] = s] /\ UNCHANGED connVars
        /\ pending' = {k} /\ fut' = [fut EXCEPT ![k] = "waiting"]
    BY <1>2 DEF Submit, Goes
  <2>2. CallType /\ FutType BY TypeParts
  <2>3. call'[k] = s /\ \A j \in Call : j # k => call'[j] = call[j] BY <2>1, <2>2, Moves
  <2>4. s.pc = "send" /\ s.conn = ws OBVIOUS
  <2> HIDE DEF s
  <2>5. \A j \in Call : j # k => call'[j].pc \in {"idle", "ok", "failed"}
    BY <2>3 DEF Only, Active
  <2>6. Registered(k)' = {k} /\ \A j \in Call : j # k => Registered(j)' = {}
    BY <2>3, <2>4, <2>5 DEF Registered
  <2>7. Alone' BY <2>5 DEF Alone, Active
  <2>8. Placed' BY <1>2, <2>3, <2>4, <2>5 DEF Placed, Tear
  <2>9. Reading' /\ Farewell' BY <2>1 DEF IInv, Reading, Farewell, connVars
  <2>10. Futures' BY <2>1, <2>2 DEF IInv, Futures, FutType
  <2>11. Current' BY <2>1, <2>3, <2>4, <2>6 DEF Current, connVars
  <2>12. PendingOwned' BY <2>1, <2>6 DEF PendingOwned
  <2>13. OpenOwned'
    <3>1. \A j \in Call : call[j].pc \notin Tear BY DEF Only, Active, Tear
    <3> QED BY <2>1, <3>1 DEF IInv, OpenOwned, connVars
  <2> QED BY <2>7, <2>8, <2>9, <2>10, <2>11, <2>12, <2>13 DEF IInv
<1> QED BY <1>1, <1>2

LEMMA RequestStep ==
  ASSUME TypeOK, IInv, NEW k \in Call, Only(k), call[k].pc \notin Tear, NEW r \in BOOLEAN,
         Request(k, r), pending = {}, UNCHANGED <<closer, closed, net>>
  PROVE  IInv'
<1>1. CASE ws # NoConn BY <1>1, SubmitStep DEF Request
<1>2. CASE ws = NoConn
  <2>1. Dial(k, 1, r, TRUE) /\ UNCHANGED <<connVars, futVars>> BY <1>2 DEF Request
  <2>2. Quiet' BY <2>1 DEF Quiet, IInv, Futures, futVars
  <2>3. TRUE \in BOOLEAN OBVIOUS
  <2> QED BY <1>2, <2>1, <2>2, <2>3, DialStep, Attempts
<1> QED BY <1>1, <1>2

\* The frame was sent: the future of the coroutine, and all else, stays.
LEMMA Advance ==
  ASSUME TypeOK, IInv, NEW k \in Call, NEW s, call' = [call EXCEPT ![k] = s],
         s.conn = call[k].conn,
         <<call[k].pc, s.pc>> \in {<<"helloSend", "helloWait">>, <<"send", "wait">>},
         UNCHANGED <<connVars, futVars, closer, closed, net>>
  PROVE  IInv'
<1>1. CallType BY TypeParts
<1>2. call'[k] = s /\ \A j \in Call : j # k => call'[j] = call[j] BY <1>1, Moves
<1>3. \A j \in Call : /\ Registered(j)' = Registered(j) /\ call'[j].conn = call[j].conn
                      /\ Active(j)' = Active(j)
  BY <1>2 DEF Registered, Active
<1>4. Alone' BY <1>3 DEF IInv, Alone
<1>5. Placed' BY <1>2 DEF IInv, Placed, Tear, connVars
<1>6. Reading' /\ Farewell' /\ Futures' BY DEF IInv, Reading, Farewell, Futures, connVars, futVars
<1>7. Current' BY <1>3 DEF IInv, Current, connVars, futVars
<1>8. PendingOwned' BY <1>3 DEF IInv, PendingOwned, futVars
<1>9. OpenOwned' BY <1>2 DEF IInv, OpenOwned, Tear, connVars
<1> QED BY <1>4, <1>5, <1>6, <1>7, <1>8, <1>9 DEF IInv

\* close() detaches the connection and fails what waits on it.
LEMMA DisconnectStep ==
  ASSUME TypeOK, IInv, Disconnect, closer.conn = NoConn, closed', UNCHANGED <<call, net>>
  PROVE  IInv'
<1>1. ConnType /\ FutType /\ Futures /\ Reading BY TypeParts DEF IInv
<1>2. Quiet' BY <1>1, Failed DEF Disconnect
<1>3. ws' = NoConn /\ \A c \in Conn : recv'[c] # "running" BY <1>1 DEF Disconnect, ConnType, Reading
<1>4. closer'.pc = "teardown" /\ closer'.conn = ws BY DEF Disconnect
<1>5. Alone' BY DEF IInv, Alone, Active
<1>6. Placed' BY <1>3 DEF IInv, Placed
<1>7. Reading' /\ Farewell' BY <1>3, <1>4 DEF Reading, Farewell
<1>8. Futures' /\ PendingOwned' BY <1>2 DEF Futures, PendingOwned, Quiet
<1>9. Current'
  <2>1. \A k \in Call : Registered(k)' \subseteq Ids \cup {NoConn}
    BY TypeParts DEF Registered, Ids, CallType, Coroutines
  <2>2. \A k \in Call : NoConn \notin Registered(k)' \/ k = NoConn
    BY DEF Registered, IInv, Placed
  <2> QED BY <1>2, <2>1, <2>2 DEF Current, Quiet, Ids
<1>10. OpenOwned' BY <1>4 DEF IInv, OpenOwned
<1> QED BY <1>5, <1>6, <1>7, <1>8, <1>9, <1>10 DEF IInv

-----------------------------------------------------------------------------
(* The invariant.                                                             *)

LEMMA IInit == Init => IInv
BY DEF Init, IInv, Alone, Placed, Reading, Farewell, Futures, Current, PendingOwned, OpenOwned,
       Active, Registered, Fresh, Tear

LEMMA OpenedStep ==
  ASSUME TypeOK, IInv, NEW k \in Call, NEW c \in Conn, Opened(k, c) PROVE IInv'
<1>0. CallType /\ ConnType /\ FutType /\ NetType /\ Futures BY TypeParts DEF IInv
<1>1. Only(k) BY <1>0, OnlyActive DEF IInv, Opened, Active
<1>2. call[k].pc = "dial" /\ Unused(c) /\ UNCHANGED <<closer, closed>> BY DEF Opened
<1>3. pending = {} BY <1>1, <1>2, OnlyPending DEF IInv, Registered
<1>4. ws = NoConn /\ \A d \in Conn : recv[d] # "running"
  BY <1>2 DEF IInv, Placed, Reading, Tear
<1>5. \A j \in Call : call[j].pc \notin Tear BY <1>1, <1>2 DEF Only, Active, Tear
<1>6. \A d \in Conn : net'[d] = "open" => d = c \/ d = closer.conn
  BY <1>0, <1>4, <1>5 DEF Opened, NetType, IInv, OpenOwned
<1>7. CASE closed
  <2> DEFINE s == At(k, "tearRaise", c)
  <2>1. call' = [call EXCEPT ![k] = s] /\ ws' = NoConn /\ FailPending(c)
    BY <1>0, <1>7 DEF Opened, ClosedDuringConnect, CallType, Coroutines, At
  <2>2. s \in Coroutines /\ s.pc = "tearRaise" /\ s.conn = c
    <3>1. "tearRaise" \in Pcs BY DEF Pcs
    <3> QED BY <1>0, <3>1, WithConn
  <2> HIDE DEF s
  <2>3. \A d \in Conn : recv'[d] # "running"
    BY <1>0, <1>4, <1>7 DEF Opened, ClosedDuringConnect, ConnType
  <2>4. Quiet' BY <1>0, <2>1, Failed
  <2>5. OpenOwned'
    <3>1. call'[k].pc \in Tear /\ call'[k].conn = c BY <1>0, <2>1, <2>2, Moves DEF Tear
    <3> QED BY <1>2, <1>6, <3>1 DEF OpenOwned
  <2> QED BY <1>1, <1>2, <2>1, <2>2, <2>3, <2>4, <2>5, Quieted DEF Tear
<1>8. CASE ~closed
  <2> DEFINE s == [call[k] EXCEPT !.pc = "helloSend", !.conn = c]
  <2>1. /\ call' = [call EXCEPT ![k] = s] /\ ws' = c /\ recvTask' = c
        /\ recv' = [recv EXCEPT ![c] = "running"]
        /\ pending' = {c} /\ fut' = [fut EXCEPT ![c] = "waiting"]
    BY <1>0, <1>3, <1>8 DEF Opened, ClosedDuringConnect, CallType, Coroutines
  <2>2. s.pc = "helloSend" /\ s.conn = c BY <1>0 DEF CallType, Coroutines
  <2> HIDE DEF s
  <2>3. call'[k] = s /\ \A j \in Call : j # k => call'[j] = call[j] BY <1>0, <2>1, Moves
  <2>4. \A j \in Call : j # k => call'[j].pc \in {"idle", "ok", "failed"}
    BY <1>1, <2>3 DEF Only, Active
  <2>5. Registered(k)' = {c} /\ \A j \in Call : j # k => Registered(j)' = {}
    BY <2>2, <2>3, <2>4 DEF Registered
  <2>6. Alone' BY <2>4 DEF Alone, Active
  <2>7. Placed' BY <2>2, <2>3, <2>4 DEF Placed, Tear
  <2>8. Reading' BY <1>0, <1>4, <2>1 DEF Reading, ConnType
  <2>9. Farewell' BY <1>2, <1>8, <2>1 DEF IInv, Farewell
  <2>10. Futures' BY <1>0, <1>3, <2>1 DEF Futures, FutType, Ids
  <2>11. Current' BY <2>1, <2>2, <2>3, <2>5 DEF Current
  <2>12. PendingOwned' BY <2>1, <2>5 DEF PendingOwned
  <2>13. OpenOwned' BY <1>2, <1>6, <2>1 DEF OpenOwned
  <2> QED BY <2>6, <2>7, <2>8, <2>9, <2>10, <2>11, <2>12, <2>13 DEF IInv
<1> QED BY <1>7, <1>8

LEMMA AttemptFailedStep ==
  ASSUME TypeOK, IInv, NEW k \in Call, Only(k), call[k].pc \notin Tear,
         NEW c, pending \subseteq {c}, AttemptFailed(k, c), UNCHANGED <<closer, closed, net>>
  PROVE  IInv'
<1> DEFINE s == At(k, "tearRedial", ws)
<1>1. CallType /\ ConnType BY TypeParts
<1>2. call' = [call EXCEPT ![k] = s] /\ Detach(c)
  BY <1>1 DEF AttemptFailed, CallType, Coroutines, At
<1>3. s \in Coroutines /\ s.pc \in Tear /\ s.conn = ws
  <2>1. "tearRedial" \in Pcs /\ "tearRedial" \in Tear /\ ws \in Conn \cup {NoConn}
    BY <1>1 DEF ConnType, Pcs, Tear
  <2>2. s \in Coroutines /\ s.pc = "tearRedial" /\ s.conn = ws BY <1>1, <2>1, WithConn
  <2> QED BY <2>1, <2>2
<1> HIDE DEF s
<1> QED BY <1>2, <1>3, Torn

LEMMA HelloSentStep == ASSUME TypeOK, IInv, NEW k \in Call, HelloSent(k) PROVE IInv'
<1>0. CallType BY TypeParts
<1>1. call[k].pc = "helloSend" /\ UNCHANGED <<closer, closed, net>> BY DEF HelloSent
<1>2. Only(k) BY <1>1, OnlyActive DEF IInv, Active
<1>3. CASE net[call[k].conn] = "open"
  <2> DEFINE s == [call[k] EXCEPT !.pc = "helloWait"]
  <2>1. call' = [call EXCEPT ![k] = s] /\ UNCHANGED <<connVars, futVars>>
    BY <1>0, <1>3 DEF HelloSent, CallType, Coroutines
  <2>2. s.pc = "helloWait" /\ s.conn = call[k].conn BY <1>0 DEF CallType, Coroutines
  <2> HIDE DEF s
  <2> QED BY <1>1, <2>1, <2>2, Advance
<1>4. CASE net[call[k].conn] # "open"
  <2>1. AttemptFailed(k, call[k].conn) BY <1>4 DEF HelloSent
  <2>2. pending \subseteq {call[k].conn} BY <1>1, <1>2, OnlyPending DEF IInv, Registered
  <2>3. call[k].pc \notin Tear BY <1>1 DEF Tear
  <2> QED BY <1>1, <1>2, <2>1, <2>2, <2>3, AttemptFailedStep
<1> QED BY <1>3, <1>4

LEMMA HelloDoneStep == ASSUME TypeOK, IInv, NEW k \in Call, HelloDone(k) PROVE IInv'
<1>0. CallType /\ ConnType BY TypeParts
<1>1. call[k].pc = "helloWait" /\ UNCHANGED <<closer, closed, net>> BY DEF HelloDone, netVars
<1>2. Only(k) /\ call[k].pc \notin Tear BY <1>1, OnlyActive DEF IInv, Active, Tear
<1>3. pending \subseteq {call[k].conn} BY <1>1, <1>2, OnlyPending DEF IInv, Registered
<1>4. call[k].conn \in Conn BY <1>0, <1>1 DEF IInv, Placed, CallType, Coroutines
<1>5. CASE AttemptFailed(k, call[k].conn) BY <1>1, <1>2, <1>3, <1>5, AttemptFailedStep
<1>6. CASE fut[call[k].conn] = "reply" /\ Connected(k)
  <2>1. pending = {} BY <1>3, <1>4, <1>6 DEF IInv, Futures, Ids
  <2>2. call[k].retried \in BOOLEAN BY <1>0 DEF CallType, Coroutines
  <2>3. Submit(k, call[k].retried) \/ Request(k, call[k].retried) BY <1>6 DEF Connected
  <2> QED BY <1>1, <1>2, <2>1, <2>2, <2>3, SubmitStep, RequestStep
<1>7. CASE /\ call' = [call EXCEPT ![k].pc = "tearRaise", ![k].conn = ws]
           /\ Detach(call[k].conn)
  <2> DEFINE s == At(k, "tearRaise", ws)
  <2>1. call' = [call EXCEPT ![k] = s] BY <1>0, <1>7 DEF CallType, Coroutines, At
  <2>2. s \in Coroutines /\ s.pc \in Tear /\ s.conn = ws
    <3>1. "tearRaise" \in Pcs /\ "tearRaise" \in Tear /\ ws \in Conn \cup {NoConn}
      BY <1>0 DEF ConnType, Pcs, Tear
    <3>2. s \in Coroutines /\ s.pc = "tearRaise" /\ s.conn = ws BY <1>0, <3>1, WithConn
    <3> QED BY <3>1, <3>2
  <2> HIDE DEF s
  <2> QED BY <1>1, <1>2, <1>3, <1>7, <2>1, <2>2, Torn
<1> QED BY <1>5, <1>6, <1>7 DEF HelloDone

LEMMA TornDownStep == ASSUME TypeOK, IInv, NEW k \in Call, TornDown(k) PROVE IInv'
<1>0. CallType /\ NetType BY TypeParts
<1>1. call[k].pc \in Tear /\ UNCHANGED <<connVars, futVars, closer, closed>>
  BY DEF TornDown, Tear
<1>2. Only(k) BY <1>1, OnlyActive DEF IInv, Active, Tear
<1>3. pending = {} BY <1>1, <1>2, OnlyPending DEF IInv, Registered, Tear
<1>4. ws = NoConn BY <1>1 DEF IInv, Placed
<1>5. Quiet' BY <1>1, <1>3 DEF Quiet, IInv, Futures, futVars
<1>6. OpenOwned'
  <2> SUFFICES ASSUME NEW c \in Conn, net'[c] = "open" PROVE c = closer.conn
    BY <1>1 DEF OpenOwned
  <2>1. net[c] = "open" /\ c # call[k].conn BY <1>0 DEF TornDown, Drop, NetType
  <2>2. \A j \in Call : call[j].pc \in Tear => j = k BY <1>2 DEF Only, Active, Tear
  <2> QED BY <1>4, <2>1, <2>2 DEF IInv, OpenOwned
<1>7. CASE \E s \in Coroutines : /\ call' = [call EXCEPT ![k] = s]
                                /\ s.pc \in {"dial", "failed"}
  <2>1. PICK s \in Coroutines : /\ call' = [call EXCEPT ![k] = s]
                                /\ s.pc \in {"dial", "failed"}
    BY <1>7
  <2> QED BY <1>1, <1>2, <1>4, <1>5, <1>6, <2>1, Quieted DEF Tear, connVars
<1>8. CASE Ends(k, "failed")
  <2>1. Fresh("failed") \in Coroutines /\ Fresh("failed").pc = "failed"
    BY Attempts DEF Fresh, Coroutines, Pcs
  <2> QED BY <1>7, <1>8, <2>1 DEF Ends
<1>9. ASSUME NEW n \in 0..MaxAttempts, NEW r \in BOOLEAN, NEW e \in BOOLEAN, Dial(k, n, r, e)
      PROVE  IInv'
  <2>1. CASE closed BY <1>8, <1>9, <2>1 DEF Dial
  <2>2. CASE ~closed
    <3> DEFINE s == [pc |-> "dial", conn |-> NoConn, tries |-> n, retried |-> r, entry |-> e]
    <3>1. s \in Coroutines /\ s.pc = "dial" BY DEF Coroutines, Pcs
    <3>2. call' = [call EXCEPT ![k] = s] BY <1>9, <2>2 DEF Dial, Goes
    <3> HIDE DEF s
    <3> QED BY <1>7, <3>1, <3>2
  <2> QED BY <2>1, <2>2
<1>10. /\ call[k].tries \in 0..MaxAttempts /\ call[k].retried \in BOOLEAN
       /\ call[k].entry \in BOOLEAN /\ FALSE \in BOOLEAN
  BY <1>0 DEF CallType, Coroutines
<1>11. CASE /\ call[k].tries < MaxAttempts
            /\ Dial(k, call[k].tries + 1, call[k].retried, call[k].entry)
  <2>1. call[k].tries + 1 \in 0..MaxAttempts BY <1>10, <1>11
  <2> QED BY <1>9, <1>10, <1>11, <2>1
<1>12. CASE Dial(k, 1, call[k].retried, FALSE) BY <1>9, <1>10, <1>12, Attempts
<1> QED BY <1>8, <1>11, <1>12 DEF TornDown

LEMMA SentStep == ASSUME TypeOK, IInv, NEW k \in Call, Sent(k) PROVE IInv'
<1>0. CallType BY TypeParts
<1>1. call[k].pc = "send" /\ UNCHANGED <<closer, closed, net>> BY DEF Sent
<1>2. Only(k) /\ call[k].pc \notin Tear BY <1>1, OnlyActive DEF IInv, Active, Tear
<1>3. CASE net[call[k].conn] = "open"
  <2> DEFINE s == [call[k] EXCEPT !.pc = "wait"]
  <2>1. call' = [call EXCEPT ![k] = s] /\ UNCHANGED <<connVars, futVars>>
    BY <1>0, <1>3 DEF Sent, CallType, Coroutines
  <2>2. s.pc = "wait" /\ s.conn = call[k].conn BY <1>0 DEF CallType, Coroutines
  <2> HIDE DEF s
  <2> QED BY <1>1, <2>1, <2>2, Advance
<1>4. CASE net[call[k].conn] # "open"
  <2>1. SendFailed(k, call[k].retried) BY <1>4 DEF Sent
  <2>2. pending \subseteq {k} BY <1>1, <1>2, OnlyPending DEF IInv, Registered
  <2>3. call[k].retried \in BOOLEAN BY <1>0 DEF CallType, Coroutines
  <2> QED BY <1>1, <1>2, <2>1, <2>2, <2>3, SendFailedStep
<1> QED BY <1>3, <1>4

LEMMA SettleStep == ASSUME TypeOK, IInv, NEW k \in Call, Settle(k) PROVE IInv'
<1>0. FutType /\ Futures BY TypeParts DEF IInv
<1>1. call[k].pc = "wait" /\ UNCHANGED <<connVars, closer, closed, net>>
  BY DEF Settle, netVars
<1>2. Only(k) /\ call[k].pc \notin Tear BY <1>1, OnlyActive DEF IInv, Active, Tear
<1>3. pending \subseteq {k} BY <1>1, <1>2, OnlyPending DEF IInv, Registered
<1>4. Quiet' BY <1>0, <1>3, Forgotten DEF Settle
<1>5. ASSUME NEW o \in {"ok", "failed"}, Ends(k, o) PROVE IInv'
  <2>1. Fresh(o) \in Coroutines /\ Fresh(o).pc = o BY Attempts DEF Fresh, Coroutines, Pcs
  <2>2. call' = [call EXCEPT ![k] = Fresh(o)] BY <1>5 DEF Ends
  <2> QED BY <1>1, <1>2, <1>4, <2>1, <2>2, Ended
<1>6. CASE ws = NoConn /\ Dial(k, 1, TRUE, FALSE)
  <2>1. TRUE \in BOOLEAN /\ FALSE \in BOOLEAN OBVIOUS
  <2> QED BY <1>1, <1>2, <1>4, <1>6, <2>1, DialStep, Attempts
<1> QED BY <1>5, <1>6 DEF Settle

LEMMA CoroutineStep ==
  ASSUME TypeOK, IInv, NEW k \in Call, Start(k) \/ Coroutine(k) PROVE IInv'
<1>1. CASE Start(k)
  <2>1. /\ Only(k) /\ call[k].pc \notin Tear /\ Request(k, FALSE)
        /\ UNCHANGED <<closer, closed, net>>
    BY <1>1 DEF Start, Only, Tear, netVars
  <2>2. pending = {} BY <1>1, <2>1, OnlyPending DEF Start, IInv, Registered
  <2>3. FALSE \in BOOLEAN OBVIOUS
  <2> QED BY <2>1, <2>2, <2>3, RequestStep
<1>2. CASE Refused(k)
  <2>1. /\ call[k].pc = "dial" /\ AttemptFailed(k, NoConn) /\ UNCHANGED <<closer, closed, net>>
    BY <1>2 DEF Refused, netVars
  <2>2. Only(k) /\ call[k].pc \notin Tear BY <2>1, OnlyActive DEF IInv, Active, Tear
  <2>3. pending \subseteq {NoConn} BY <2>1, <2>2, OnlyPending DEF IInv, Registered
  <2> QED BY <2>1, <2>2, <2>3, AttemptFailedStep
<1> QED
  BY <1>1, <1>2, OpenedStep, HelloSentStep, HelloDoneStep, TornDownStep, SentStep, SettleStep
  DEF Coroutine

LEMMA ReceiveStep == ASSUME TypeOK, IInv, NEW c \in Conn, Receive(c) PROVE IInv'
<1>0. ConnType /\ FutType /\ NetType /\ Futures BY TypeParts DEF IInv
<1>1. ASSUME NEW m \in down[c], Dispatch(c, m) PROVE IInv'
  <2>1. m.kind \in {"reply", "error"} /\ UNCHANGED <<call, connVars, closer, closed, net>>
    BY <1>0, <1>1 DEF Dispatch, NetType, Frames
  <2>2. \A i \in Ids : /\ fut'[i] = "waiting" => fut[i] = "waiting" /\ i # m.id
                       /\ i # m.id => fut'[i] = fut[i]
    BY <1>0, <1>1, <2>1 DEF Dispatch, FutType, Futures
  <2>3. pending' = pending \ {m.id} BY <1>1 DEF Dispatch
  <2>4. Alone' /\ Placed' BY <2>1 DEF IInv, Alone, Active, Placed, connVars
  <2>5. Reading' /\ Farewell' BY <2>1 DEF IInv, Reading, Farewell, connVars
  <2>6. Futures' BY <1>0, <2>2, <2>3 DEF Futures, FutType
  <2>7. Current'
    <3>1. \A k \in Call : Registered(k)' = Registered(k) BY <2>1 DEF Registered
    <3>2. \A k \in Call : Registered(k) \subseteq Ids
      BY TypeParts DEF Registered, CallType, Coroutines, Ids, IInv, Placed
    <3> QED BY <2>1, <2>2, <3>1, <3>2 DEF IInv, Current, connVars
  <2>8. PendingOwned' BY <2>1, <2>3 DEF IInv, PendingOwned, Registered
  <2>9. OpenOwned' BY <2>1 DEF IInv, OpenOwned, connVars
  <2> QED BY <2>4, <2>5, <2>6, <2>7, <2>8, <2>9 DEF IInv
<1>2. CASE RecvEnd(c)
  <2>1. /\ recv[c] = "running" /\ net[c] = "lost" /\ recv' = [recv EXCEPT ![c] = "done"]
        /\ UNCHANGED <<call, recvTask, closer, closed, net>>
    BY <1>2 DEF RecvEnd, netVars
  <2>2. c = ws BY <2>1 DEF IInv, Reading
  <2>3. \A d \in Conn : recv'[d] # "running" BY <1>0, <2>1, <2>2 DEF IInv, Reading, ConnType
  <2>4. Alone' BY <2>1 DEF IInv, Alone, Active
  <2>5. ws' \in {ws, NoConn} BY <1>2 DEF RecvEnd
  <2>6. Placed' BY <2>1, <2>5 DEF IInv, Placed
  <2>7. Farewell' BY <2>1, <2>5 DEF IInv, Farewell
  <2>8. OpenOwned' BY <2>1, <2>2 DEF IInv, OpenOwned
  <2>9. CASE ~closed
    <3>1. ws' = NoConn /\ Quiet' BY <1>0, <1>2, <2>2, <2>9, Failed DEF RecvEnd
    <3>2. Reading' /\ Futures' /\ PendingOwned'
      BY <2>3, <3>1 DEF Reading, Futures, PendingOwned, Quiet
    <3>3. Current'
      <4>1. \A k \in Call : Registered(k)' \subseteq Ids
        BY <2>1, TypeParts DEF Registered, CallType, Coroutines, Ids, IInv, Placed
      <4> QED BY <3>1, <4>1 DEF Current, Quiet
    <3> QED BY <2>4, <2>6, <2>7, <2>8, <3>2, <3>3 DEF IInv
  <2>10. CASE closed
    <3>1. UNCHANGED <<ws, futVars>> BY <1>2, <2>10 DEF RecvEnd
    <3>2. Reading' BY <2>1, <2>3, <2>10, <3>1 DEF IInv, Reading, Farewell
    <3>3. Futures' /\ PendingOwned' /\ Current'
      BY <2>1, <3>1 DEF IInv, Futures, PendingOwned, Current, Registered, futVars
    <3> QED BY <2>4, <2>6, <2>7, <2>8, <3>2, <3>3 DEF IInv
  <2> QED BY <2>9, <2>10
<1> QED BY <1>1, <1>2 DEF Receive

LEMMA IStep == TypeOK /\ IInv /\ [Next]_vars => IInv'
<1> SUFFICES ASSUME TypeOK, IInv, [Next]_vars PROVE IInv'
  OBVIOUS
<1>0. ConnType /\ FutType /\ NetType BY TypeParts
<1>1. ASSUME NEW i \in Ids, Timeout(i) PROVE IInv'
  <2>1. /\ fut[i] = "waiting" /\ fut' = [fut EXCEPT ![i] = "cancelled"]
        /\ UNCHANGED <<call, connVars, closer, closed, net, pending>>
    BY <1>1 DEF Timeout, netVars
  <2>2. Alone' /\ Placed' BY <2>1 DEF IInv, Alone, Active, Placed, connVars
  <2>3. Reading' /\ Farewell' BY <2>1 DEF IInv, Reading, Farewell, connVars
  <2>4. Futures' BY <1>0, <2>1 DEF IInv, Futures, FutType
  <2>5. Current'
    <3>1. \A k \in Call : Registered(k)' = Registered(k) BY <2>1 DEF Registered
    <3>2. \A j : fut'[j] = "waiting" => fut[j] = "waiting" \/ j \notin Ids
      BY <1>0, <2>1 DEF FutType
    <3>3. \A k \in Call : Registered(k) \subseteq Ids
      BY TypeParts DEF Registered, CallType, Coroutines, Ids, IInv, Placed
    <3> QED BY <2>1, <3>1, <3>2, <3>3 DEF IInv, Current, connVars
  <2>6. PendingOwned' /\ OpenOwned'
    BY <2>1 DEF IInv, PendingOwned, Registered, OpenOwned, connVars
  <2> QED BY <2>2, <2>3, <2>4, <2>5, <2>6 DEF IInv
<1>2. CASE Close
  <2>1. closer.pc = "idle" /\ closed' /\ UNCHANGED <<call, net>> BY <1>2 DEF Close, netVars
  <2>2. closer.conn = NoConn BY <2>1 DEF IInv, Farewell
  <2>3. CASE ws = NoConn BY <1>2, <2>1, <2>2, <2>3, DisconnectStep DEF Close
  <2>4. CASE ws # NoConn
    <3>1. closer' = [closer EXCEPT !.pc = "goodbye"] /\ UNCHANGED <<connVars, futVars>>
      BY <1>2, <2>4 DEF Close
    <3>2. closer'.pc = "goodbye" /\ closer'.conn = NoConn BY <2>2, <3>1 DEF TypeOK
    <3>3. Alone' /\ Placed' /\ Reading'
      BY <2>1, <3>1, <3>2 DEF IInv, Alone, Active, Placed, Reading, connVars
    <3>4. Farewell' BY <2>1, <3>2 DEF Farewell
    <3>5. Futures' /\ PendingOwned' /\ Current'
      BY <2>1, <3>1 DEF IInv, Futures, PendingOwned, Current, Registered, connVars, futVars
    <3>6. OpenOwned' BY <2>1, <2>2, <3>1, <3>2 DEF IInv, OpenOwned, connVars
    <3> QED BY <3>3, <3>4, <3>5, <3>6 DEF IInv
  <2> QED BY <2>3, <2>4
<1>3. CASE Goodbye
  <2>1. closer.pc = "goodbye" /\ Disconnect /\ UNCHANGED <<call, closed, net>>
    BY <1>3 DEF Goodbye, netVars
  <2>2. closer.conn = NoConn /\ closed' BY <2>1 DEF IInv, Farewell
  <2> QED BY <2>1, <2>2, DisconnectStep
<1>4. CASE Closed
  <2>1. /\ closer.pc = "teardown" /\ closer' = [pc |-> "done", conn |-> NoConn]
        /\ UNCHANGED <<call, closed, connVars, futVars>>
    BY <1>4 DEF Closed
  <2>2. ws = NoConn BY <2>1 DEF IInv, Farewell
  <2>3. \A c \in Conn : net'[c] = "open" => net[c] = "open" /\ c # closer.conn
    BY <1>0, <1>4 DEF Closed, Drop, NetType
  <2>4. Alone' /\ Placed' /\ Reading'
    BY <2>1, <2>2 DEF IInv, Alone, Active, Placed, Reading, connVars
  <2>5. Farewell' BY <2>1, <2>2 DEF IInv, Farewell, connVars
  <2>6. Futures' /\ PendingOwned' /\ Current'
    BY <2>1 DEF IInv, Futures, PendingOwned, Current, Registered, connVars, futVars
  <2>7. OpenOwned' BY <2>1, <2>3 DEF IInv, OpenOwned, connVars
  <2> QED BY <2>4, <2>5, <2>6, <2>7 DEF IInv
<1>5. CASE /\ UNCHANGED <<call, connVars, futVars, closer, closed>>
           /\ \A c \in Conn : net'[c] = "open" => net[c] = "open"
  <2>1. Alone' /\ Placed' /\ Reading' /\ Farewell'
    BY <1>5 DEF IInv, Alone, Active, Placed, Reading, Farewell, connVars
  <2>2. Futures' /\ PendingOwned' /\ Current'
    BY <1>5 DEF IInv, Futures, PendingOwned, Current, Registered, connVars, futVars
  <2>3. OpenOwned' BY <1>5 DEF IInv, OpenOwned, connVars
  <2> QED BY <2>1, <2>2, <2>3 DEF IInv
<1>6. ASSUME NEW c \in Conn, Lose(c) PROVE IInv' BY <1>0, <1>5, <1>6 DEF Lose, NetType
<1>7. ASSUME NEW c \in Conn, NEW i \in Ids, NEW kind \in {"reply", "error"}, Reply(c, i, kind)
      PROVE  IInv'
  BY <1>5, <1>7 DEF Reply
<1>8. CASE Restart BY <1>0, <1>5, <1>8 DEF Restart, NetType
<1>9. CASE Abandon \/ UNCHANGED vars BY <1>5, <1>9 DEF Abandon, vars, netVars
<1> QED
  BY <1>1, <1>2, <1>3, <1>4, <1>6, <1>7, <1>8, <1>9, CoroutineStep, ReceiveStep
  DEF Next, Client, Closing

-----------------------------------------------------------------------------
(* The theorems.                                                              *)

\* The inductive invariant, with the type invariant: connect() makes at most
\* MaxAttempts attempts, and no coroutine uses a connection it does not have.
THEOREM ClientInvariant == Spec => [](TypeOK /\ IInv)
<1>1. Init => TypeOK /\ IInv BY TypeInit, IInit
<1>2. TypeOK /\ IInv /\ [Next]_vars => (TypeOK /\ IInv)'
  <2>1. IInv => Placed BY DEF IInv
  <2> QED BY <2>1, TypeStep, IStep
<1> QED BY <1>1, <1>2, PTL DEF Spec

THEOREM ClientTypeCorrect == Spec => []TypeOK
BY ClientInvariant, PTL

\* No lost wakeup: a future that is awaited is registered, and its receive loop
\* runs or close() will fail it.
THEOREM WaiterServedCorrect == Spec => []WaiterServed
<1>1. TypeOK /\ IInv => WaiterServed
  <2> SUFFICES ASSUME TypeOK, IInv, NEW k \in Call, NEW i \in Registered(k), fut[i] = "waiting"
      PROVE  /\ i \in pending /\ ws = call[k].conn
             /\ recv[ws] = "running" \/ closer.pc = "goodbye"
    BY DEF WaiterServed
  <2>1. call[k].conn # NoConn /\ i \in Ids
    BY TypeParts DEF Registered, CallType, Coroutines, Ids, IInv, Placed
  <2>2. i \in pending BY <2>1 DEF IInv, Futures
  <2>3. ws = call[k].conn BY DEF IInv, Current
  <2> QED BY <2>1, <2>2, <2>3 DEF IInv, Reading
<1> QED BY <1>1, ClientInvariant, PTL

\* _pending holds no entry of a request that is over.
THEOREM PendingOwnedCorrect == Spec => []PendingOwned
<1>1. IInv => PendingOwned BY DEF IInv
<1> QED BY <1>1, ClientInvariant, PTL

\* At most one receive loop runs, that of the current connection.
THEOREM OneReaderCorrect == Spec => []OneReader
<1>1. IInv => OneReader BY DEF IInv, Reading, OneReader
<1> QED BY <1>1, ClientInvariant, PTL

\* A closed client leaves no connection open, also not one that was being made.
THEOREM NoConnectionLeaksCorrect == Spec => []NoConnectionLeaks
<1>1. IInv => NoConnectionLeaks
  <2> SUFFICES ASSUME IInv, closer.pc = "done", \A k \in Call : ~Active(k), NEW c \in Conn,
                      net[c] = "open"
      PROVE  FALSE
    BY DEF NoConnectionLeaks
  <2>1. \A k \in Call : call[k].pc \notin Tear BY DEF Active, Tear
  <2>2. ws = NoConn /\ closer.conn = NoConn BY DEF IInv, Farewell
  <2> QED BY <2>1, <2>2 DEF IInv, OpenOwned
<1> QED BY <1>1, ClientInvariant, PTL

=============================================================================
