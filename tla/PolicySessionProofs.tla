--------------------------- MODULE PolicySessionProofs ---------------------------
(* Proofs about PolicySession, for every set of calls and of connections,     *)
(* every number of attempts, every size of the cache and every number of        *)
(* restarts of the server.                                                   *)
EXTENDS PolicySession, PolicyClientProofs, FiniteSetTheorems

USE AttemptsAssumption, IdsAssumption, ServersAssumption, CacheAssumption

-----------------------------------------------------------------------------
(* What the client sends, and to whom.                                        *)

\* The connection leads to the process the client has identified.
Known(c) == pinned # NoServer /\ home[c] = pinned

Hello == {"helloSend", "helloWait"}

\* A coroutine's connection is the current one until that is detached.
Using == \A k \in Call :
  /\ call[k].pc \in Hello \cup {"send", "wait"} => ws \in {NoConn, call[k].conn}
  /\ call[k].pc \in Hello => home[call[k].conn] # NoServer

\* A connection is current before its HELLO is over, or its process is known.
Greeted == ws # NoConn => Known(ws) \/ \E k \in Call : call[k].pc \in Hello

Sending == \A k \in Call : call[k].pc = "send" => Known(call[k].conn)

\* Requests only travel to the known process.
Carried == \A c \in Conn : \A k \in Call \cap up[c] : Known(c) /\ call[k].pc # "idle"

\* A process that was reached has been started.
Homes == /\ \A c \in Conn : home[c] # NoServer => home[c] <= server
         /\ pinned # NoServer => pinned <= server

PinInv == Using /\ Greeted /\ Sending /\ Carried /\ Homes

-----------------------------------------------------------------------------
(* A coroutine's ways on when it neither opens a connection nor sends.        *)

Way(k, s) ==
  /\ call' = [call EXCEPT ![k] = s] /\ ws' \in {ws, NoConn}
  /\ \A i \in Ids : fut'[i] = "reply" => fut[i] = "reply"
  /\ \/ s.pc \in Tear \cup {"dial", "failed"}
     \/ s.pc = "send" /\ s.conn = ws /\ ws' = ws /\ ws # NoConn
     \/ s.pc = "ok" /\ call[k].pc = "wait" /\ fut[k] = "reply"

LEMMA NoNewReply ==
  ASSUME FutType, NEW i, Forget(i) \/ FailPending(i) \/ Detach(i)
  PROVE  \A j \in Ids : fut'[j] = "reply" => fut[j] = "reply"
BY DEF FutType, Forget, FailPending, Detach

LEMMA EndsWay ==
  ASSUME NEW k \in Call, Ends(k, "failed"), ws' \in {ws, NoConn},
         \A i \in Ids : fut'[i] = "reply" => fut[i] = "reply"
  PROVE  \E s : Way(k, s)
<1>1. Fresh("failed").pc = "failed" BY DEF Fresh
<1>2. call' = [call EXCEPT ![k] = Fresh("failed")] BY DEF Ends
<1>3. Way(k, Fresh("failed")) BY <1>1, <1>2 DEF Way
<1> QED BY <1>3

LEMMA GoesWay ==
  ASSUME NEW k \in Call, NEW pc, NEW c, NEW n, NEW r, NEW e, Goes(k, pc, c, n, r, e),
         ws' \in {ws, NoConn}, \A i \in Ids : fut'[i] = "reply" => fut[i] = "reply",
         pc \in Tear \cup {"dial"} \/ (pc = "send" /\ c = ws /\ ws' = ws /\ ws # NoConn)
  PROVE  \E s : Way(k, s)
<1> DEFINE s == [pc |-> pc, conn |-> c, tries |-> n, retried |-> r, entry |-> e]
<1>1. s.pc = pc /\ s.conn = c OBVIOUS
<1>2. call' = [call EXCEPT ![k] = s] BY DEF Goes
<1> HIDE DEF s
<1>3. Way(k, s) BY <1>1, <1>2 DEF Way
<1> QED BY <1>3

LEMMA DialWay ==
  ASSUME NEW k \in Call, NEW n, NEW r, NEW e, Dial(k, n, r, e),
         ws' \in {ws, NoConn}, \A i \in Ids : fut'[i] = "reply" => fut[i] = "reply"
  PROVE  \E s : Way(k, s)
<1>1. CASE closed BY <1>1, EndsWay DEF Dial
<1>2. CASE ~closed
  <2>1. Goes(k, "dial", NoConn, n, r, e) BY <1>2 DEF Dial
  <2> QED BY <2>1, GoesWay
<1> QED BY <1>1, <1>2

LEMMA SendFailedWay ==
  ASSUME FutType, NEW k \in Call, NEW r, SendFailed(k, r) PROVE \E s : Way(k, s)
<1>1. CASE r \/ closed
  <2>1. Ends(k, "failed") /\ Forget(k) /\ ws' = ws BY <1>1 DEF SendFailed, connVars
  <2> QED BY <2>1, NoNewReply, EndsWay
<1>2. CASE ~(r \/ closed)
  <2>1. Goes(k, "tearRetry", ws, 0, TRUE, FALSE) /\ Detach(k) BY <1>2 DEF SendFailed
  <2>2. ws' = NoConn BY <2>1 DEF Detach
  <2>3. "tearRetry" \in Tear BY DEF Tear
  <2> QED BY <2>1, <2>2, <2>3, NoNewReply, GoesWay
<1> QED BY <1>1, <1>2

LEMMA SubmitWay ==
  ASSUME FutType, NEW k \in Call, NEW r, Submit(k, r) PROVE \E s : Way(k, s)
<1>1. CASE ws = NoConn BY <1>1, SendFailedWay DEF Submit
<1>2. CASE ws # NoConn
  <2>1. Goes(k, "send", ws, 0, r, FALSE) /\ ws' = ws BY <1>2 DEF Submit, connVars
  <2>2. \A i \in Ids : fut'[i] = "reply" => fut[i] = "reply" BY <1>2 DEF Submit, FutType
  <2> QED BY <1>2, <2>1, <2>2, GoesWay
<1> QED BY <1>1, <1>2

LEMMA RequestWay ==
  ASSUME FutType, NEW k \in Call, NEW r, Request(k, r) PROVE \E s : Way(k, s)
<1>1. CASE ws # NoConn BY <1>1, SubmitWay DEF Request
<1>2. CASE ws = NoConn
  <2>1. Dial(k, 1, r, TRUE) /\ ws' = ws /\ fut' = fut
    BY <1>2 DEF Request, connVars, futVars
  <2> QED BY <2>1, DialWay
<1> QED BY <1>1, <1>2

\* What was detached is torn down.
LEMMA TornWay ==
  ASSUME CallType, FutType, NEW k \in Call, NEW pc \in Tear, NEW i, Detach(i),
         ws \in Conn \cup {NoConn}, call' = [call EXCEPT ![k].pc = pc, ![k].conn = ws]
  PROVE  ws' = NoConn /\ \E s : Way(k, s)
<1>1. call' = [call EXCEPT ![k] = At(k, pc, ws)] BY DEF At, CallType, Coroutines
<1>2. At(k, pc, ws).pc = pc
  <2>1. pc \in Pcs BY DEF Tear, Pcs
  <2> QED BY <2>1, WithConn
<1>3. ws' = NoConn BY DEF Detach
<1>4. Way(k, At(k, pc, ws)) BY <1>1, <1>2, <1>3, NoNewReply DEF Way
<1> QED BY <1>3, <1>4

\* The process a coroutine pins, if any, is the one that answered its HELLO.
Pins(k) ==
  \/ pinned' = pinned
  \/ /\ call[k].pc = "helloWait" /\ SameProcess(call[k].conn)
     /\ pinned' = home[call[k].conn]

Onward(k) ==
  /\ \E s : Way(k, s)
  /\ Pins(k) /\ UNCHANGED <<home, up, down, server>>
  /\ ws' # NoConn => Known(ws)'

LEMMA StaysKnown ==
  ASSUME Greeted, \A j \in Call : call[j].pc \notin Hello, ws' \in {ws, NoConn},
         UNCHANGED <<pinned, home>>
  PROVE  ws' # NoConn => Known(ws)'
BY DEF Greeted, Known

LEMMA OnlyHello ==
  ASSUME NEW k \in Call, Only(k), call[k].pc \notin Hello
  PROVE  \A j \in Call : call[j].pc \notin Hello
BY DEF Only, Active, Hello

LEMMA HelloDoneOnward ==
  ASSUME TypeOK, IInv, PinInv, NEW k \in Call, HelloDone(k) PROVE Onward(k)
<1> DEFINE c == call[k].conn
<1>0. CallType /\ ConnType /\ FutType BY TypeParts
<1>1. call[k].pc = "helloWait" /\ UNCHANGED <<home, up, down, server>>
  BY DEF HelloDone, netVars
<1>2. home[c] # NoServer /\ ws \in {NoConn, c} /\ ws \in Conn \cup {NoConn}
  BY <1>0, <1>1 DEF PinInv, Using, Hello, ConnType
<1>3. ASSUME NEW pc \in Tear, Detach(c), call' = [call EXCEPT ![k].pc = pc, ![k].conn = ws],
             Pins(k)
      PROVE  Onward(k)
  <2>1. ws' = NoConn /\ \E s : Way(k, s) BY <1>0, <1>2, <1>3, TornWay
  <2> QED BY <1>1, <1>3, <2>1 DEF Onward
<1>4. CASE AttemptFailed(k, c) /\ pinned' = pinned
  <2>1. "tearRedial" \in Tear /\ Pins(k) BY <1>4 DEF Tear, Pins
  <2>2. Detach(c) /\ call' = [call EXCEPT ![k].pc = "tearRedial", ![k].conn = ws]
    BY <1>4 DEF AttemptFailed
  <2> QED BY <1>3, <2>1, <2>2
<1>5. CASE /\ call' = [call EXCEPT ![k].pc = "tearRaise", ![k].conn = ws]
           /\ Detach(c) /\ Pins(k)
  <2>1. "tearRaise" \in Tear BY DEF Tear
  <2> QED BY <1>3, <1>5, <2>1
<1>6. CASE SameProcess(c) /\ pinned' = home[c] /\ Connected(k)
  <2>1. Submit(k, call[k].retried) \/ Request(k, call[k].retried) BY <1>6 DEF Connected
  <2>2. \E s : Way(k, s) BY <1>0, <2>1, SubmitWay, RequestWay
  <2>3. ws' \in {ws, NoConn} BY <2>2 DEF Way
  <2>4. ws' # NoConn => Known(ws)' BY <1>1, <1>2, <1>6, <2>3 DEF Known
  <2>5. Pins(k) BY <1>1, <1>6 DEF Pins
  <2> QED BY <1>1, <2>2, <2>4, <2>5 DEF Onward
<1>7. SameProcess(c) /\ pinned' = home[c] => Pins(k) BY <1>1 DEF Pins
<1>8. pinned' = pinned => Pins(k) BY DEF Pins
<1> QED BY <1>4, <1>5, <1>6, <1>7, <1>8 DEF HelloDone

\* A send that fails.
LEMMA UnsentOnward ==
  ASSUME TypeOK, IInv, PinInv, NEW k \in Call, HelloSent(k) \/ Sent(k),
         net[call[k].conn] # "open"
  PROVE  Onward(k)
<1>0. CallType /\ ConnType /\ FutType BY TypeParts
<1>1. /\ UNCHANGED <<home, up, down, server, pinned>> /\ call[k].pc \in {"helloSend", "send"}
      /\ Pins(k)
  BY DEF HelloSent, Sent, Pins
<1>2. CASE HelloSent(k)
  <2>1. /\ Detach(call[k].conn)
        /\ call' = [call EXCEPT ![k].pc = "tearRedial", ![k].conn = ws]
    BY <1>2 DEF HelloSent, AttemptFailed
  <2>2. "tearRedial" \in Tear /\ ws \in Conn \cup {NoConn} BY <1>0 DEF Tear, ConnType
  <2>3. ws' = NoConn /\ \E s : Way(k, s) BY <1>0, <2>1, <2>2, TornWay
  <2> QED BY <1>1, <2>3 DEF Onward
<1>3. CASE Sent(k)
  <2>1. SendFailed(k, call[k].retried) BY <1>3 DEF Sent
  <2>2. \E s : Way(k, s) BY <1>0, <2>1, SendFailedWay
  <2>3. ws' \in {ws, NoConn} BY <2>2 DEF Way
  <2>4. call[k].pc \notin Hello /\ Only(k)
    BY <1>3, OnlyActive DEF Sent, Hello, IInv, Active
  <2>5. ws' # NoConn => Known(ws)'
    BY <1>1, <2>3, <2>4, OnlyHello, StaysKnown DEF PinInv
  <2> QED BY <1>1, <2>2, <2>5 DEF Onward
<1> QED BY <1>2, <1>3

\* The rest of what a coroutine does on its own.
LEMMA QuietOnward ==
  ASSUME TypeOK, IInv, PinInv, NEW k \in Call,
         Start(k) \/ Refused(k) \/ TornDown(k) \/ Settle(k)
  PROVE  Onward(k)
<1>0. CallType /\ ConnType /\ FutType BY TypeParts
<1>1. UNCHANGED <<home, up, down, server, pinned>> /\ Pins(k)
  BY DEF Start, Refused, TornDown, Settle, netVars, Pins
<1>2. \E s : Way(k, s)
  <2>1. CASE Start(k)
    <3>1. Request(k, FALSE) BY <2>1 DEF Start
    <3> QED BY <1>0, <3>1, RequestWay
  <2>2. CASE Refused(k)
    <3>1. Detach(NoConn) /\ call' = [call EXCEPT ![k].pc = "tearRedial", ![k].conn = ws]
      BY <2>2 DEF Refused, AttemptFailed
    <3>2. "tearRedial" \in Tear /\ ws \in Conn \cup {NoConn} BY <1>0 DEF Tear, ConnType
    <3> QED BY <1>0, <3>1, <3>2, TornWay
  <2>3. CASE TornDown(k)
    <3>1. ws' = ws /\ fut' = fut BY <2>3 DEF TornDown, connVars, futVars
    <3>2. \/ Ends(k, "failed")
          \/ Dial(k, call[k].tries + 1, call[k].retried, call[k].entry)
          \/ Dial(k, 1, call[k].retried, FALSE)
      BY <2>3 DEF TornDown
    <3> QED BY <3>1, <3>2, EndsWay, DialWay
  <2>4. CASE Settle(k)
    <3>1. ws' = ws /\ call[k].pc = "wait" /\ \A i \in Ids : fut'[i] = "reply" => fut[i] = "reply"
      BY <1>0, <2>4, NoNewReply DEF Settle, connVars
    <3>2. CASE Ends(k, "failed") \/ Dial(k, 1, TRUE, FALSE) BY <3>1, <3>2, EndsWay, DialWay
    <3>3. CASE Ends(k, "ok") /\ fut[k] = "reply"
      <4>1. call' = [call EXCEPT ![k] = Fresh("ok")] /\ Fresh("ok").pc = "ok"
        BY <3>3 DEF Ends, Fresh
      <4>2. Way(k, Fresh("ok")) BY <3>1, <3>3, <4>1 DEF Way
      <4> QED BY <4>2
    <3> QED BY <2>4, <3>2, <3>3 DEF Settle
  <2> QED BY <2>1, <2>2, <2>3, <2>4
<1>3. ws' \in {ws, NoConn} BY <1>2 DEF Way
<1>4. \A j \in Call : call[j].pc \notin Hello
  <2>1. CASE Start(k) BY <2>1 DEF Start, Active, Hello
  <2>2. CASE Refused(k) \/ TornDown(k) \/ Settle(k)
    <3>1. call[k].pc \in Tear \cup {"dial", "wait"} BY <2>2 DEF Refused, TornDown, Settle, Tear
    <3>2. Active(k) /\ call[k].pc \notin Hello BY <3>1 DEF Tear, Active, Hello
    <3> QED BY <3>2, OnlyActive, OnlyHello DEF IInv
  <2> QED BY <2>1, <2>2
<1>5. ws' # NoConn => Known(ws)' BY <1>1, <1>3, <1>4, StaysKnown DEF PinInv
<1> QED BY <1>1, <1>2, <1>5 DEF Onward

LEMMA CoroutineCases ==
  ASSUME TypeOK, IInv, PinInv, NEW k \in Call, Start(k) \/ Coroutine(k)
  PROVE  \/ Onward(k) \/ \E c \in Conn : Opened(k, c)
         \/ net[call[k].conn] = "open" /\ (HelloSent(k) \/ Sent(k))
BY HelloDoneOnward, UnsentOnward, QuietOnward DEF Coroutine

-----------------------------------------------------------------------------
(* The client asks one process only.                                          *)

LEMMA PinInit == Init => PinInv
BY DEF Init, PinInv, Using, Greeted, Sending, Carried, Homes, Fresh, Hello

LEMMA OnwardPins ==
  ASSUME TypeOK, IInv, PinInv, NEW k \in Call, Onward(k), Only(k) PROVE PinInv'
<1>0. CallType /\ NetType BY TypeParts
<1>1. PICK s : Way(k, s) BY DEF Onward
<1>2. call'[k] = s /\ \A j \in Call : j # k => call'[j] = call[j]
  BY <1>0, <1>1, Moves DEF Way
<1>3. \A j \in Call : j # k => call'[j].pc \in {"idle", "ok", "failed"}
  BY <1>2 DEF Only, Active
<1>4. s.pc \notin Hello \cup {"idle", "wait"} BY <1>1 DEF Way, Tear, Hello
<1>5. s.pc = "send" => ws' = s.conn /\ ws = s.conn BY <1>1 DEF Way, Tear
<1>6. UNCHANGED <<home, up, server>> /\ (ws' # NoConn => Known(ws)') BY DEF Onward
<1>7. Using' BY <1>2, <1>3, <1>4, <1>5 DEF Using, Hello
<1>8. Greeted' BY <1>6 DEF Greeted
<1>9. Sending'
  <2>1. ASSUME s.pc = "send" PROVE ws' # NoConn
    <3>1. call'[k].pc = "send" BY <1>2, <2>1
    <3>2. s.conn # NoConn BY <1>1, <2>1 DEF Way, Tear
    <3> QED BY <1>5, <2>1, <3>2
  <2> QED BY <1>2, <1>3, <1>5, <1>6, <2>1 DEF Sending, Known
<1>10. /\ pinned # NoServer => pinned' = pinned
       /\ pinned' = pinned \/ \E c \in Conn : pinned' = home[c]
  <2>1. call[k].pc = "helloWait" => call[k].conn \in Conn
    BY <1>0 DEF IInv, Placed, CallType, Coroutines
  <2> QED BY <2>1 DEF Onward, Pins, SameProcess
<1>11. Carried' BY <1>2, <1>4, <1>6, <1>10 DEF PinInv, Carried, Known
<1>12. Homes' BY <1>6, <1>10 DEF PinInv, Homes
<1> QED BY <1>7, <1>8, <1>9, <1>11, <1>12 DEF PinInv

LEMMA OpenedPins ==
  ASSUME TypeOK, IInv, PinInv, NEW k \in Call, NEW c \in Conn, Opened(k, c), Only(k)
  PROVE  PinInv'
<1>0. CallType /\ NetType BY TypeParts
<1>1. /\ ws = NoConn /\ call[k].pc = "dial" /\ pinned' = pinned /\ server' = server
      /\ home' = [home EXCEPT ![c] = server] /\ up' = [up EXCEPT ![c] = {}]
  BY DEF Opened, IInv, Placed, Tear
<1>2. PICK s : /\ call' = [call EXCEPT ![k] = s] /\ s.conn = c
               /\ \/ s.pc = "tearRaise" /\ ws' = NoConn
                  \/ s.pc = "helloSend" /\ ws' = c
  <2>1. CASE closed
    <3> DEFINE t == At(k, "tearRaise", c)
    <3>1. call' = [call EXCEPT ![k] = t] /\ ws' = NoConn
      BY <1>0, <2>1 DEF Opened, ClosedDuringConnect, CallType, Coroutines, At
    <3>2. "tearRaise" \in Pcs BY DEF Pcs
    <3>3. t.pc = "tearRaise" /\ t.conn = c BY <1>0, <3>2, WithConn
    <3> HIDE DEF t
    <3> QED BY <3>1, <3>3
  <2>2. CASE ~closed
    <3> DEFINE t == At(k, "helloSend", c)
    <3>1. call' = [call EXCEPT ![k] = t] /\ ws' = c
      BY <1>0, <2>2 DEF Opened, ClosedDuringConnect, CallType, Coroutines, At
    <3>2. "helloSend" \in Pcs BY DEF Pcs
    <3>3. t.pc = "helloSend" /\ t.conn = c BY <1>0, <3>2, WithConn
    <3> HIDE DEF t
    <3> QED BY <3>1, <3>3
  <2> QED BY <2>1, <2>2
<1>3. call'[k] = s /\ \A j \in Call : j # k => call'[j] = call[j] BY <1>0, <1>2, Moves
<1>4. \A j \in Call : j # k => call'[j].pc \in {"idle", "ok", "failed"}
  BY <1>3 DEF Only, Active
<1>5. home'[c] = server /\ server # NoServer /\ \A d \in Conn : d # c => home'[d] = home[d]
  <2>1. server \in Nat BY <1>0 DEF NetType, Server
  <2>2. server # NoServer BY <2>1
  <2>3. home'[c] = server /\ \A d \in Conn : d # c => home'[d] = home[d]
    BY <1>0, <1>1 DEF NetType
  <2> QED BY <2>2, <2>3
<1>6. Using' BY <1>2, <1>3, <1>4, <1>5 DEF Using, Hello
<1>7. Greeted' BY <1>2, <1>3 DEF Greeted, Hello
<1>8. Sending' BY <1>2, <1>3, <1>4 DEF Sending
<1>9. Carried'
  <2>1. \A d \in Conn : up'[d] = IF d = c THEN {} ELSE up[d] BY <1>0, <1>1 DEF NetType
  <2> QED BY <1>1, <1>2, <1>3, <1>5, <2>1 DEF PinInv, Carried, Known
<1>10. Homes'
  <2>1. server <= server BY <1>0 DEF NetType, Server
  <2> QED BY <1>1, <1>5, <2>1 DEF PinInv, Homes
<1> QED BY <1>6, <1>7, <1>8, <1>9, <1>10 DEF PinInv

LEMMA SendsPins ==
  ASSUME TypeOK, IInv, PinInv, NEW k \in Call, HelloSent(k) \/ Sent(k),
         net[call[k].conn] = "open"
  PROVE  PinInv'
<1> DEFINE c == call[k].conn
<1>0. CallType /\ NetType BY TypeParts
<1>1. c \in Conn BY <1>0 DEF HelloSent, Sent, IInv, Placed, CallType, Coroutines
<1>2. UNCHANGED <<ws, home, pinned, server>> BY DEF HelloSent, Sent, connVars
<1>3. PICK s : /\ call' = [call EXCEPT ![k] = s] /\ s.conn = c
               /\ <<call[k].pc, s.pc>> \in {<<"helloSend", "helloWait">>, <<"send", "wait">>}
  <2>1. ASSUME NEW pc, call' = [call EXCEPT ![k].pc = pc]
        PROVE  LET s == [call[k] EXCEPT !.pc = pc]
               IN  call' = [call EXCEPT ![k] = s] /\ s.conn = c /\ s.pc = pc
    BY <1>0, <2>1 DEF CallType, Coroutines
  <2>2. CASE HelloSent(k)
    <3>1. call[k].pc = "helloSend" /\ call' = [call EXCEPT ![k].pc = "helloWait"]
      BY <2>2 DEF HelloSent
    <3> QED BY <2>1, <3>1
  <2>3. CASE Sent(k)
    <3>1. call[k].pc = "send" /\ call' = [call EXCEPT ![k].pc = "wait"] BY <2>3 DEF Sent
    <3> QED BY <2>1, <3>1
  <2> QED BY <2>2, <2>3
<1>4. call'[k] = s /\ \A j \in Call : j # k => call'[j] = call[j] BY <1>0, <1>3, Moves
<1>5. Using' BY <1>2, <1>3, <1>4 DEF PinInv, Using, Hello
<1>6. Greeted'
  <2>1. \A j \in Call : call[j].pc \in Hello => call'[j].pc \in Hello
    BY <1>3, <1>4 DEF Hello
  <2> QED BY <1>2, <2>1 DEF PinInv, Greeted, Known
<1>7. Sending' BY <1>2, <1>3, <1>4 DEF PinInv, Sending, Known
<1>8. Carried'
  <2>1. ASSUME NEW d \in Conn, NEW j \in Call \cap up'[d]
        PROVE  j \in up[d] \/ (j = k /\ d = c /\ Known(c))
    <3>1. CASE HelloSent(k)
      <4>1. up' = [up EXCEPT ![c] = @ \cup {c}] BY <3>1 DEF HelloSent
      <4> QED BY <1>0, <1>1, <4>1 DEF NetType
    <3>2. CASE Sent(k)
      <4>1. up' = [up EXCEPT ![c] = @ \cup {k}] /\ call[k].pc = "send" BY <3>2 DEF Sent
      <4>2. Known(c) BY <4>1 DEF PinInv, Sending
      <4> QED BY <1>0, <1>1, <4>1, <4>2 DEF NetType
    <3> QED BY <3>1, <3>2
  <2>2. \A j \in Call : call[j].pc # "idle" => call'[j].pc # "idle" BY <1>3, <1>4
  <2>3. call'[k].pc # "idle" BY <1>3, <1>4
  <2> QED BY <1>2, <2>1, <2>2, <2>3 DEF PinInv, Carried, Known
<1>9. Homes' BY <1>2 DEF PinInv, Homes
<1> QED BY <1>5, <1>6, <1>7, <1>8, <1>9 DEF PinInv

\* A step that moves no coroutine, and puts nothing on its way to the server.
LEMMA StillPins ==
  ASSUME PinInv, UNCHANGED <<call, pinned, home>>, ws' \in {ws, NoConn},
         \A c \in Conn : up'[c] \subseteq up[c],
         server' = server \/ server' = server + 1, NetType
  PROVE  PinInv'
<1>1. Using' /\ Greeted' /\ Sending'
  BY DEF PinInv, Using, Greeted, Sending, Known
<1>2. Carried' BY DEF PinInv, Carried, Known
<1>3. Homes'
  <2>1. \A p \in Server : p <= server => p <= server' BY DEF NetType, Server
  <2> QED BY <2>1 DEF PinInv, Homes, NetType
<1> QED BY <1>1, <1>2, <1>3 DEF PinInv

LEMMA CoroutineActive == ASSUME NEW k \in Call, Coroutine(k) PROVE Active(k)
<1>1. call[k].pc \in Tear \cup {"dial", "helloSend", "helloWait", "send", "wait"}
  BY DEF Coroutine, Refused, Opened, HelloSent, HelloDone, TornDown, Sent, Settle, Tear
<1> QED BY <1>1 DEF Active, Tear

\* A step moves one coroutine or none.
LEMMA Elsewhere ==
  ASSUME TypeOK, IInv, [Next]_vars
  PROVE  \/ \E k \in Call : (Start(k) \/ Coroutine(k)) /\ Only(k)
         \/ /\ UNCHANGED <<call, pinned, home>> /\ ws' \in {ws, NoConn}
            /\ \A c \in Conn : up'[c] \subseteq up[c]
            /\ server' = server \/ server' = server + 1
<1>0. NetType /\ FutType BY TypeParts
<1>1. ASSUME NEW k \in Call, Start(k) \/ Coroutine(k) PROVE Only(k)
  <2>1. CASE Start(k) BY <2>1 DEF Start, Only
  <2>2. CASE Coroutine(k) BY <2>2, CoroutineActive, OnlyActive DEF IInv
  <2> QED BY <1>1, <2>1, <2>2
<1>2. ASSUME \/ \E i \in Ids : Timeout(i)
             \/ \E c \in Conn : Receive(c) \/ Lose(c)
             \/ Abandon \/ Close \/ Closing \/ Restart \/ UNCHANGED vars
      PROVE  /\ UNCHANGED <<call, pinned, home, up>> /\ ws' \in {ws, NoConn}
             /\ server' = server \/ server' = server + 1
  BY <1>2 DEF Timeout, Receive, Dispatch, RecvEnd, Lose, Abandon, Close, Closing, Goodbye,
              Closed, Disconnect, Restart, vars, netVars, connVars
<1>3. ASSUME NEW c \in Conn, NEW i \in Ids, NEW kind \in {"reply", "error"}, Reply(c, i, kind)
      PROVE  /\ UNCHANGED <<call, pinned, home, ws, server>>
             /\ \A d \in Conn : up'[d] \subseteq up[d]
  BY <1>0, <1>3 DEF Reply, NetType, connVars
<1> QED BY <1>1, <1>2, <1>3 DEF Next, Client

LEMMA PinStep == TypeOK /\ IInv /\ PinInv /\ [Next]_vars => PinInv'
<1> SUFFICES ASSUME TypeOK, IInv, PinInv, [Next]_vars PROVE PinInv'
  OBVIOUS
<1>1. ASSUME NEW k \in Call, Start(k) \/ Coroutine(k), Only(k) PROVE PinInv'
  BY <1>1, CoroutineCases, OnwardPins, OpenedPins, SendsPins
<1> QED BY <1>1, Elsewhere, StillPins, TypeParts

\* Whatever breaks and is retried, every request the client sends goes to the
\* process that answered its first HELLO.
THEOREM ClientPins == Spec => []PinInv
<1>1. Init => PinInv BY PinInit
<1>2. TypeOK /\ IInv /\ PinInv /\ [Next]_vars => PinInv' BY PinStep
<1> QED BY <1>1, <1>2, ClientInvariant, PTL DEF Spec

\* Once identified, the process stays the client's.
LEMMA PinStays ==
  ASSUME TypeOK, IInv, PinInv, [Next]_vars, pinned # NoServer PROVE pinned' = pinned
<1>1. ASSUME NEW k \in Call, Start(k) \/ Coroutine(k) PROVE pinned' = pinned
  <2>1. CASE Onward(k) BY <2>1 DEF Onward, Pins, SameProcess
  <2>2. CASE (\E c \in Conn : Opened(k, c)) \/ HelloSent(k) \/ Sent(k)
    BY <2>2 DEF Opened, HelloSent, Sent
  <2> QED BY <1>1, <2>1, <2>2, CoroutineCases
<1> QED BY <1>1, Elsewhere

-----------------------------------------------------------------------------
(* The session.                                                               *)

\* The network and the server of a session do nothing the client of PolicyClient
\* is not prepared for.
LEMMA SessionStepIsClients == [SessionNext]_sessionVars => [Next]_vars
<1> SUFFICES ASSUME [SessionNext]_sessionVars PROVE [Next]_vars
  OBVIOUS
<1>1. ASSUME NEW c \in Conn, NEW k \in Call, AnswerRequest(c, k) PROVE Next
  <2>1. k \in Ids /\ exec[k] \in {"reply", "error"} /\ Reply(c, k, exec[k])
    BY <1>1 DEF AnswerRequest, Answered, Ids
  <2> QED BY <2>1 DEF Next
<1>2. ASSUME NEW c \in Conn, Greet(c) PROVE Next
  <2>1. c \in Ids /\ Reply(c, c, "reply") BY <1>2 DEF Greet, Ids
  <2> QED BY <2>1 DEF Next
<1>3. ASSUME NEW c \in Conn, NEW k \in Call, Run(c, k) \/ Join(c, k) \/ Replay(c, k)
      PROVE  UNCHANGED vars
  BY <1>3 DEF Run, Join, Replay
<1>4. ASSUME \/ \E k \in Call : RunEnds(k)
             \/ \E c \in Conn : TakeHello(c) \/ Vanish(c)
      PROVE  UNCHANGED vars
  BY <1>4 DEF RunEnds, TakeHello, Vanish
<1>5. CASE Outside \/ ServerRestart BY <1>5 DEF Next, Outside, ServerRestart
<1>6. CASE UNCHANGED sessionVars BY <1>6 DEF sessionVars
<1> QED BY <1>1, <1>2, <1>3, <1>4, <1>5, <1>6 DEF SessionNext, Serve, Welcome

\* So what is proved of the client holds in a session.
THEOREM SessionIsClients == SessionSpec => Spec
<1>1. SessionInit => Init BY DEF SessionInit
<1> QED BY <1>1, SessionStepIsClients, PTL DEF SessionSpec, Spec

Answer(k) == [id |-> k, kind |-> "reply"]

\* A process remembers that it has executed a request while it lives; only the
\* pinned process executes requests, and a new one is never asked.
Executed ==
  /\ exec \in [Call -> {"none", "running", "reply", "error"}] /\ runs \in [Call -> Nat]
  /\ \A k \in Call : exec[k] # "none" => runs[k] > 0
  /\ \A k \in Call : runs[k] > 0 =>
       pinned # NoServer /\ (exec[k] = "none" => pinned < server)

\* A result was made by an execution, wherever it is on its way.
Computed == \A k \in Call :
  fut[k] = "reply" \/ (\E c \in Conn : Answer(k) \in down[c]) => runs[k] > 0

Hosted == hosts \subseteq {pinned} \ {NoServer}

SessionInv == Executed /\ Computed /\ Hosted

LEMMA SessionInvInit == SessionInit => SessionInv
BY DEF SessionInit, Init, SessionInv, Executed, Computed, Hosted, Ids

\* A future is completed with a frame that arrived.
LEMMA RepliesArrive ==
  ASSUME TypeOK, IInv, PinInv, [Next]_vars
  PROVE  \A k \in Call : fut'[k] = "reply" =>
           fut[k] = "reply" \/ \E c \in Conn : Answer(k) \in down[c]
<1>0. FutType /\ NetType BY TypeParts
<1> SUFFICES ASSUME NEW k \in Call, fut'[k] = "reply", fut[k] # "reply"
             PROVE  \E c \in Conn : Answer(k) \in down[c]
  OBVIOUS
<1>i. k \in Ids /\ k \notin Conn BY DEF Ids
<1>1. ASSUME NEW j \in Call, Start(j) \/ Coroutine(j) PROVE FALSE
  <2>1. CASE Onward(j) BY <1>i, <2>1 DEF Onward, Way
  <2>2. CASE (\E c \in Conn : Opened(j, c))
    <3>1. PICK c \in Conn : Opened(j, c) BY <2>2
    <3>2. \/ FailPending(c) \/ fut' = [fut EXCEPT ![c] = "waiting"] BY <3>1 DEF Opened
    <3> QED BY <1>0, <1>i, <3>2, NoNewReply DEF FutType
  <2>3. CASE net[call[j].conn] = "open" /\ (HelloSent(j) \/ Sent(j))
    BY <2>3 DEF HelloSent, Sent, futVars
  <2> QED BY <1>1, <2>1, <2>2, <2>3, CoroutineCases
<1>2. ASSUME NEW c \in Conn, NEW m \in down[c], Dispatch(c, m) PROVE Answer(k) \in down[c]
  <2>1. m.id = k /\ m.kind = "reply" BY <1>0, <1>2, <1>i DEF Dispatch, FutType
  <2>2. m \in Frames BY <1>0 DEF NetType
  <2>3. m = Answer(k) BY <2>1, <2>2 DEF Frames, Answer
  <2> QED BY <2>3
<1>3. ASSUME NEW i \in Ids, Timeout(i) PROVE FALSE BY <1>0, <1>3, <1>i DEF Timeout, FutType
<1>4. ASSUME NEW c \in Conn, RecvEnd(c) PROVE FALSE
  BY <1>0, <1>4, <1>i, NoNewReply DEF RecvEnd, futVars
<1>5. ASSUME Close \/ Goodbye PROVE FALSE
  BY <1>0, <1>5, <1>i, NoNewReply DEF Close, Goodbye, Disconnect, futVars
<1>6. ASSUME \/ \E c \in Conn : \/ Lose(c)
                               \/ \E i \in Ids, kind \in {"reply", "error"} : Reply(c, i, kind)
             \/ Abandon \/ Closed \/ Restart \/ UNCHANGED vars
      PROVE  FALSE
  BY <1>6 DEF Lose, Reply, Abandon, Closed, Restart, vars, futVars
<1> QED BY <1>1, <1>2, <1>3, <1>4, <1>5, <1>6 DEF Next, Client, Receive, Closing

\* Only the server puts frames on their way to the client, and only it restarts.
LEMMA ClientSendsNoFrames ==
  ASSUME TypeOK, IInv, PinInv, Client \/ (\E c \in Conn : Lose(c)) \/ UNCHANGED vars
  PROVE  server' = server /\ \A c \in Conn : down'[c] \subseteq down[c]
<1>0. NetType BY TypeParts
<1>1. ASSUME NEW k \in Call, Start(k) \/ Coroutine(k)
      PROVE  server' = server /\ \A c \in Conn : down'[c] \subseteq down[c]
  <2>1. CASE Onward(k) BY <2>1 DEF Onward
  <2>2. ASSUME NEW c \in Conn, Opened(k, c)
        PROVE  server' = server /\ \A d \in Conn : down'[d] \subseteq down[d]
    BY <1>0, <2>2 DEF Opened, NetType
  <2>3. CASE HelloSent(k) \/ Sent(k) BY <2>3 DEF HelloSent, Sent
  <2> QED BY <1>1, <2>1, <2>2, <2>3, CoroutineCases
<1>2. ASSUME NEW c \in Conn, NEW m \in down[c], Dispatch(c, m)
      PROVE  server' = server /\ \A d \in Conn : down'[d] \subseteq down[d]
  BY <1>0, <1>2 DEF Dispatch, NetType
<1>3. ASSUME \/ \E i \in Ids : Timeout(i)
             \/ \E c \in Conn : RecvEnd(c) \/ Lose(c)
             \/ Abandon \/ Close \/ Closing \/ UNCHANGED vars
      PROVE  UNCHANGED <<server, down>>
  BY <1>3 DEF Timeout, RecvEnd, Abandon, Close, Closing, Goodbye, Closed, Lose, vars, netVars
<1> QED BY <1>1, <1>2, <1>3 DEF Client, Receive

\* A request the process can read has the pinned process reading it.
LEMMA AsksPinned ==
  ASSUME PinInv, NEW c \in Conn, NEW k \in Call, Readable(c, k)
  PROVE  pinned # NoServer /\ pinned = server /\ call[k].pc # "idle"
BY DEF Readable, PinInv, Carried, Known

\* What runs was asked of the pinned process, which does not know it or has
\* evicted its answer.
LEMMA RunsAsked ==
  ASSUME TypeOK, PinInv, SessionInv, NEW c \in Conn, NEW k \in Call, Run(c, k)
  PROVE  /\ pinned # NoServer /\ pinned = server /\ call[k].pc # "idle"
         /\ runs[k] = 0 \/ k \in Evicted
<1>1. pinned # NoServer /\ pinned = server /\ call[k].pc # "idle" BY AsksPinned DEF Run
<1>2. ~(pinned < server) BY <1>1, TypeParts DEF NetType, Server
<1>3. CASE exec[k] = "none"
  <2>1. ~(runs[k] > 0) /\ runs[k] \in Nat BY <1>2, <1>3 DEF SessionInv, Executed
  <2> QED BY <1>1, <2>1
<1>4. CASE exec[k] # "none"
  <2>1. Answered(k) /\ ~Kept(k) BY <1>4 DEF Run, SessionInv, Executed, Answered
  <2> QED BY <1>1, <2>1 DEF Evicted
<1> QED BY <1>3, <1>4

LEMMA SessionInvStep ==
  TypeOK /\ IInv /\ PinInv /\ SessionInv /\ [SessionNext]_sessionVars => SessionInv'
<1> SUFFICES ASSUME TypeOK, IInv, PinInv, SessionInv, [SessionNext]_sessionVars
             PROVE  SessionInv'
  OBVIOUS
<1>0. [Next]_vars /\ NetType BY SessionStepIsClients, TypeParts
<1>1. ASSUME UNCHANGED <<exec, runs, hosts>>,
             Client \/ (\E c \in Conn : Lose(c)) \/ UNCHANGED vars
      PROVE  SessionInv'
  <2>2. server' = server /\ \A c \in Conn : down'[c] \subseteq down[c]
    BY <1>1, ClientSendsNoFrames
  <2>3. pinned # NoServer => pinned' = pinned BY <1>0, PinStays
  <2>4. Executed' BY <1>1, <2>2, <2>3 DEF SessionInv, Executed
  <2>5. Computed' BY <1>0, <1>1, <2>2, RepliesArrive DEF SessionInv, Computed, Answer
  <2>6. Hosted' BY <1>1, <2>3 DEF SessionInv, Hosted
  <2> QED BY <2>4, <2>5, <2>6 DEF SessionInv
<1>2. ASSUME NEW c \in Conn, NEW k \in Call, Run(c, k) PROVE SessionInv'
  <2>1. /\ pinned # NoServer /\ pinned = server
        /\ runs' = [runs EXCEPT ![k] = @ + 1]
    BY <1>2, RunsAsked DEF Run
  <2>2. /\ exec' = [exec EXCEPT ![k] = "running"] /\ hosts' = hosts \cup {server}
        /\ UNCHANGED <<fut, down, pinned, server>>
    BY <1>2 DEF Run, vars, futVars, netVars
  <2>3. runs \in [Call -> Nat] /\ \A j \in Call : runs'[j] = IF j = k THEN runs[j] + 1 ELSE runs[j]
    BY <2>1 DEF SessionInv, Executed
  <2>4. runs' \in [Call -> Nat] /\ runs'[k] > 0 /\ \A j \in Call : runs[j] > 0 => runs'[j] > 0
    BY <2>1, <2>3
  <2>5. exec'[k] = "running" /\ \A j \in Call : j # k => exec'[j] = exec[j] /\ runs'[j] = runs[j]
    BY <2>2, <2>3 DEF SessionInv, Executed
  <2>6. Executed' BY <2>1, <2>2, <2>4, <2>5 DEF SessionInv, Executed
  <2>7. Computed' BY <2>2, <2>4 DEF SessionInv, Computed, Answer
  <2>8. Hosted' BY <2>1, <2>2 DEF SessionInv, Hosted
  <2> QED BY <2>6, <2>7, <2>8 DEF SessionInv
<1>3. ASSUME NEW k \in Call, RunEnds(k) PROVE SessionInv'
  <2>1. PICK answer \in {"reply", "error"} : exec' = [exec EXCEPT ![k] = answer]
    BY <1>3 DEF RunEnds
  <2>2. exec[k] = "running" /\ UNCHANGED <<runs, hosts, fut, down, pinned, server>>
    BY <1>3 DEF RunEnds, vars, futVars, netVars
  <2>3. Executed' BY <2>1, <2>2 DEF SessionInv, Executed
  <2>4. Computed' /\ Hosted' BY <2>2 DEF SessionInv, Computed, Hosted
  <2> QED BY <2>3, <2>4 DEF SessionInv
<1>4. ASSUME NEW c \in Conn, NEW i, NEW kind, Reply(c, i, kind),
             UNCHANGED <<exec, runs, hosts>>, i \in Call => runs[i] > 0
      PROVE  SessionInv'
  <2>1. UNCHANGED <<exec, runs, hosts, fut, pinned, server>>
    BY <1>4 DEF Reply, futVars
  <2>2. \A d \in Conn : down'[d] \subseteq down[d] \cup {[id |-> i, kind |-> kind]}
    BY <1>0, <1>4 DEF Reply, NetType
  <2>3. Executed' /\ Hosted' BY <2>1 DEF SessionInv, Executed, Hosted
  <2>4. Computed'
    <3>1. ASSUME NEW k \in Call, NEW d \in Conn, Answer(k) \in down'[d] PROVE runs[k] > 0
      <4>1. Answer(k) \in down[d] \/ Answer(k) = [id |-> i, kind |-> kind] BY <2>2, <3>1
      <4>2. Answer(k) = [id |-> i, kind |-> kind] => k = i BY DEF Answer
      <4> QED BY <1>4, <4>1, <4>2 DEF SessionInv, Computed
    <3> QED BY <2>1, <3>1 DEF SessionInv, Computed, Answer
  <2> QED BY <2>3, <2>4 DEF SessionInv
<1>5. ASSUME NEW c \in Conn, NEW k \in Call, AnswerRequest(c, k) PROVE SessionInv'
  <2>1. Reply(c, k, exec[k]) /\ UNCHANGED <<exec, runs, hosts>> /\ exec[k] # "none"
    BY <1>5 DEF AnswerRequest, Answered
  <2>2. runs[k] > 0 BY <2>1 DEF SessionInv, Executed
  <2> QED BY <1>4, <2>1, <2>2
<1>6. ASSUME NEW c \in Conn, Greet(c) PROVE SessionInv'
  <2>1. Reply(c, c, "reply") /\ UNCHANGED <<exec, runs, hosts>> /\ c \notin Call
    BY <1>6 DEF Greet
  <2> QED BY <1>4, <2>1
<1>7. CASE ServerRestart
  <2>1. /\ exec' = [k \in Call |-> "none"] /\ server' = server + 1
        /\ UNCHANGED <<runs, hosts, fut, down, pinned>>
    BY <1>7 DEF ServerRestart, Restart, futVars
  <2>2. pinned # NoServer => pinned < server'
    BY <1>0, <2>1 DEF PinInv, Homes, NetType, Server
  <2>3. Executed' BY <2>1, <2>2 DEF SessionInv, Executed
  <2>4. Computed' /\ Hosted' BY <2>1 DEF SessionInv, Computed, Hosted, Answer
  <2> QED BY <2>3, <2>4 DEF SessionInv
<1>8. ASSUME NEW c \in Conn, NEW k \in Call, Join(c, k) \/ Replay(c, k) PROVE SessionInv'
  <2>1. UNCHANGED <<exec, runs, hosts>> /\ UNCHANGED vars BY <1>8 DEF Join, Replay
  <2> QED BY <1>1, <2>1
<1>9. ASSUME NEW c \in Conn, TakeHello(c) \/ Vanish(c) PROVE SessionInv'
  <2>1. UNCHANGED <<exec, runs, hosts>> /\ UNCHANGED vars BY <1>9 DEF TakeHello, Vanish
  <2> QED BY <1>1, <2>1
<1>10. CASE Outside BY <1>1, <1>10 DEF Outside
<1>11. CASE UNCHANGED sessionVars BY <1>1, <1>11 DEF sessionVars, serverVars
<1> QED
  BY <1>2, <1>3, <1>5, <1>6, <1>7, <1>8, <1>9, <1>10, <1>11 DEF SessionNext, Serve, Welcome

\* The inductive invariant of the session, on top of the client's.
THEOREM SessionInvariant == SessionSpec => [](TypeOK /\ IInv /\ PinInv /\ SessionInv)
<1>1. SessionInit => SessionInv BY SessionInvInit
<1>2. TypeOK /\ IInv /\ PinInv /\ SessionInv /\ [SessionNext]_sessionVars => SessionInv'
  BY SessionInvStep
<1> QED BY <1>1, <1>2, SessionIsClients, ClientInvariant, ClientPins, PTL DEF SessionSpec

\* Whatever is lost, retried or restarted, one server process at most executes
\* the requests of an evaluation.
THEOREM OneProcessCorrect == SessionSpec => []OneProcess
<1>1. SessionInv => OneProcess
  <2> SUFFICES ASSUME SessionInv PROVE Cardinality(hosts) <= 1
    BY DEF OneProcess
  <2>1. hosts \subseteq {pinned} BY DEF SessionInv, Hosted
  <2>2. IsFiniteSet({pinned}) /\ Cardinality({pinned}) = 1 BY FS_Singleton
  <2> QED BY <2>1, <2>2, FS_Subset
<1> QED BY <1>1, SessionInvariant, PTL

-----------------------------------------------------------------------------
(* The refinement.                                                            *)

\* The outcome of a call whose coroutine is at pc.
Said(pc) == IF pc = "idle" THEN "unasked" ELSE IF pc \in {"ok", "failed"} THEN pc ELSE "asked"

LEMMA OutcomeSaid ==
  /\ Outcome = [k \in Call |-> Said(call[k].pc)]
  /\ Outcome' = [k \in Call |-> Said(call'[k].pc)]
BY DEF Outcome, Said

LEMMA OutcomeMoves ==
  ASSUME CallType, NEW k \in Call, NEW s, call' = [call EXCEPT ![k] = s]
  PROVE  /\ Outcome' = [Outcome EXCEPT ![k] = Said(s.pc)]
         /\ Said(s.pc) = Said(call[k].pc) => UNCHANGED Outcome
<1>1. call'[k] = s /\ \A j \in Call : j # k => call'[j] = call[j] BY Moves
<1>2. Outcome' = [j \in Call |-> IF j = k THEN Said(s.pc) ELSE Said(call[j].pc)]
  BY <1>1, OutcomeSaid
<1> QED BY <1>2, OutcomeSaid

\* What becomes of the requests in a step of the client.
LEMMA CallsMove ==
  ASSUME TypeOK, IInv, PinInv, [Next]_vars
  PROVE  \/ UNCHANGED Outcome
         \/ \E k \in Call : \E s :
              /\ call' = [call EXCEPT ![k] = s]
              /\ \/ Active(k) /\ s.pc = "ok" /\ fut[k] = "reply"
                 \/ Active(k) /\ s.pc = "failed"
                 \/ /\ call[k].pc = "idle" /\ \A j \in Call : ~Active(j)
                    /\ s.pc \in Tear \cup {"dial", "send", "failed"}
<1>0. CallType BY TypeParts
<1>1. CASE UNCHANGED call
  <2>1. UNCHANGED Outcome BY <1>1, OutcomeSaid
  <2> QED BY <2>1
<1>2. ASSUME NEW k \in Call, Start(k) \/ Coroutine(k), Onward(k)
      PROVE  \E s : /\ call' = [call EXCEPT ![k] = s]
                    /\ \/ Active(k) /\ s.pc = "ok" /\ fut[k] = "reply"
                       \/ Active(k) /\ s.pc = "failed"
                       \/ Active(k) /\ UNCHANGED Outcome
                       \/ /\ call[k].pc = "idle" /\ \A j \in Call : ~Active(j)
                          /\ s.pc \in Tear \cup {"dial", "send", "failed"}
  <2>1. PICK s : Way(k, s) BY <1>2 DEF Onward
  <2>2. /\ call' = [call EXCEPT ![k] = s]
        /\ \/ s.pc \in Tear \cup {"dial", "send"} \/ s.pc = "failed"
           \/ s.pc = "ok" /\ call[k].pc = "wait" /\ fut[k] = "reply"
    BY <2>1 DEF Way
  <2>3. CASE Start(k)
    <3>1. call[k].pc = "idle" /\ \A j \in Call : ~Active(j) BY <2>3 DEF Start
    <3> QED BY <2>2, <3>1
  <2>4. CASE Coroutine(k)
    <3>1. Active(k) BY <2>4, CoroutineActive
    <3>2. Said(call[k].pc) = "asked" BY <3>1 DEF Said, Active
    <3>3. s.pc \in Tear \cup {"dial", "send"} => Said(s.pc) = "asked" BY DEF Said, Tear
    <3>4. s.pc \in Tear \cup {"dial", "send"} => UNCHANGED Outcome
      BY <1>0, <2>2, <3>2, <3>3, OutcomeMoves
    <3> QED BY <2>2, <3>1, <3>4
  <2> QED BY <1>2, <2>3, <2>4
<1>3. ASSUME NEW k \in Call,
             (\E c \in Conn : Opened(k, c)) \/ (net[call[k].conn] = "open" /\ (HelloSent(k) \/ Sent(k)))
      PROVE  UNCHANGED Outcome
  <2>1. call[k].pc \in {"dial", "helloSend", "send"} BY <1>3 DEF Opened, HelloSent, Sent
  <2>2. /\ call'[k].pc \in {"tearRaise", "helloSend", "helloWait", "wait"}
        /\ \A j \in Call : j # k => call'[j] = call[j]
    BY <1>0, <1>3 DEF Opened, HelloSent, Sent, CallType, Coroutines
  <2>3. \A j \in Call : Said(call'[j].pc) = Said(call[j].pc) BY <2>1, <2>2 DEF Said
  <2> QED BY <2>3, OutcomeSaid
<1> QED BY <1>1, <1>2, <1>3, Elsewhere, CoroutineCases

\* A session's step is one of AtMostOnce, or changes nothing it speaks of.
LEMMA OnceStep ==
  TypeOK /\ IInv /\ PinInv /\ SessionInv /\ [SessionNext]_sessionVars =>
    [Once!Next]_<<runs, Outcome, Evicted>>
<1> SUFFICES ASSUME TypeOK, IInv, PinInv, SessionInv, [SessionNext]_sessionVars
             PROVE  [Once!Next]_<<runs, Outcome, Evicted>>
  OBVIOUS
<1>0. [Next]_vars /\ CallType /\ SessionInv'
  BY SessionStepIsClients, TypeParts, SessionInvStep
<1>a. \A k \in Call : /\ Outcome[k] = Said(call[k].pc)
                      /\ Active(k) <=> Outcome[k] = "asked"
                      /\ call[k].pc = "idle" <=> Outcome[k] = "unasked"
  BY OutcomeSaid DEF Said, Active
<1>1. ASSUME UNCHANGED <<runs, exec, newer>> PROVE [Once!Next]_<<runs, Outcome, Evicted>>
  <2>0. UNCHANGED <<runs, Evicted>> BY <1>1 DEF Evicted, Answered, Kept
  <2>1. ASSUME NEW k \in Call, NEW s, call' = [call EXCEPT ![k] = s],
               Active(k), s.pc = "ok", fut[k] = "reply"
        PROVE  Once!Return(k)
    <3>1. runs[k] > 0 BY <2>1 DEF SessionInv, Computed
    <3>2. Outcome' = [Outcome EXCEPT ![k] = "ok"] BY <1>0, <2>1, OutcomeMoves DEF Said
    <3> QED BY <1>a, <2>0, <2>1, <3>1, <3>2 DEF Once!Return
  <2>2. ASSUME NEW k \in Call, NEW s, call' = [call EXCEPT ![k] = s], s.pc = "failed",
               Active(k) \/ call[k].pc = "idle"
        PROVE  Once!Fail(k)
    <3>1. Outcome' = [Outcome EXCEPT ![k] = "failed"] BY <1>0, <2>2, OutcomeMoves DEF Said
    <3> QED BY <1>a, <2>0, <2>2, <3>1 DEF Once!Fail
  <2>3. ASSUME NEW k \in Call, NEW s, call' = [call EXCEPT ![k] = s],
               s.pc \in Tear \cup {"dial", "send"},
               call[k].pc = "idle", \A j \in Call : ~Active(j)
        PROVE  Once!Ask(k)
    <3>1. Said(s.pc) = "asked" BY <2>3 DEF Said, Tear
    <3>2. Outcome' = [Outcome EXCEPT ![k] = "asked"] BY <1>0, <2>3, <3>1, OutcomeMoves
    <3> QED BY <1>a, <2>0, <2>3, <3>2 DEF Once!Ask
  <2> QED BY <1>0, <2>0, <2>1, <2>2, <2>3, CallsMove DEF Once!Next
<1>2. ASSUME NEW c \in Conn, NEW k \in Call, Run(c, k) PROVE Once!Run(k)
  <2>1. call[k].pc # "idle" /\ (runs[k] = 0 \/ k \in Evicted) BY <1>2, RunsAsked
  <2>2. /\ runs' = [runs EXCEPT ![k] = @ + 1] /\ exec' = [exec EXCEPT ![k] = "running"]
        /\ newer' = newer /\ call' = call
    BY <1>2 DEF Run, vars
  <2>3. UNCHANGED Outcome BY <2>2, OutcomeSaid
  <2>4. Evicted' = Evicted \ {k}
    BY <2>2 DEF Evicted, Answered, Kept, SessionInv, Executed
  <2> QED BY <1>a, <2>1, <2>2, <2>3, <2>4 DEF Once!Run
<1>3. ASSUME UNCHANGED <<runs, call>> PROVE Once!Forget
  <2>1. UNCHANGED Outcome BY <1>3, OutcomeSaid
  <2>2. Evicted' \subseteq {k \in Call : runs[k] > 0}
    BY <1>0, <1>3 DEF Evicted, Answered, SessionInv, Executed
  <2> QED BY <1>3, <2>1, <2>2 DEF Once!Forget
<1>4. ASSUME NEW c \in Conn, NEW k \in Call,
             Join(c, k) \/ Replay(c, k) \/ RunEnds(k) \/ TakeHello(c) \/ Vanish(c)
      PROVE  UNCHANGED <<runs, call>>
  BY <1>4 DEF Join, Replay, RunEnds, TakeHello, Vanish, vars
<1>5. ServerRestart => UNCHANGED <<runs, call>> BY DEF ServerRestart, Restart
<1>6. ASSUME NEW c \in Conn, NEW k \in Call, AnswerRequest(c, k) PROVE UNCHANGED <<runs, exec, newer>>
  BY <1>6 DEF AnswerRequest
<1>7. ASSUME NEW c \in Conn, Greet(c) PROVE UNCHANGED <<runs, exec, newer>> BY <1>7 DEF Greet
<1>8. ASSUME NEW c \in Conn, TakeHello(c) \/ Vanish(c) PROVE UNCHANGED <<runs, call>>
  BY <1>8 DEF TakeHello, Vanish, vars
<1>9. ASSUME NEW k \in Call, RunEnds(k) PROVE UNCHANGED <<runs, call>>
  BY <1>9 DEF RunEnds, vars
<1>10. Outside \/ UNCHANGED sessionVars => UNCHANGED <<runs, exec, newer>>
  BY DEF Outside, sessionVars, serverVars
<1> QED
  BY <1>1, <1>2, <1>3, <1>4, <1>5, <1>6, <1>7, <1>8, <1>9, <1>10
     DEF SessionNext, Serve, Welcome, Once!Next

\* Retries are safe: with connections that break at any point, answers that are
\* lost, servers that are restarted and calls that are abandoned, one call is made
\* at a time, it only returns a result that was computed, and it runs again only
\* after its answer has been evicted from the server's cache.
THEOREM RetriesAreSafeCorrect == SessionSpec => RetriesAreSafe
<1>1. SessionInit => Once!Init
  <2> SUFFICES ASSUME SessionInit PROVE Outcome = [k \in Call |-> "unasked"] /\ Evicted = {}
    BY DEF SessionInit, Once!Init
  <2>1. \A k \in Call : call[k].pc = "idle" BY DEF SessionInit, Init, Fresh
  <2>2. Evicted = {} BY DEF SessionInit, Evicted, Answered
  <2> QED BY <2>1, <2>2, OutcomeSaid DEF Said
<1>2. TypeOK /\ IInv /\ PinInv /\ SessionInv /\ [SessionNext]_sessionVars =>
        [Once!Next]_<<runs, Outcome, Evicted>>
  BY OnceStep
<1> QED BY <1>1, <1>2, SessionInvariant, PTL DEF SessionSpec, RetriesAreSafe, Once!Spec

-----------------------------------------------------------------------------
(* A cache that retries cannot overflow.                                      *)

\* The HELLOs a process has not read yet.
Greetings == {c \in Conn : Readable(c, c)}

\* Whoever may still be executed, or asked for again.
Concerned(k) ==
  Active(k) \/ (\E c \in Conn : Readable(c, k)) \/ exec[k] = "running"

Connecting == {"dial", "helloSend", "helloWait", "tearRaise", "tearRedial"}

\* How many HELLOs a coroutine in state s can have sent: connect() is called at the
\* entry of request(), before the retry, and at the entry of that.
Before(r, e) == IF ~r THEN 0 ELSE IF e THEN 2 * MaxAttempts ELSE MaxAttempts
Dialled(s) == Before(s.retried, s.entry) + s.tries
Hellos(s) ==
  IF s.pc \in {"dial", "helloSend"} THEN Dialled(s) - 1
  ELSE IF s.pc \in Connecting THEN Dialled(s)
  ELSE IF s.pc = "tearRetry" \/ (s.pc \in {"send", "wait"} /\ ~s.retried) THEN MaxAttempts
  ELSE 3 * MaxAttempts

\* connect() is called before the retry only by a request that is retried.
Shape(s) ==
  /\ s.pc \in Connecting /\ ~s.entry => s.retried
  /\ s.pc = "tearRetry" => s.retried

Few == \A k \in Call : Concerned(k) =>
  /\ Cardinality(Greetings) <= Hellos(call[k])
  /\ Answered(k) => newer[k] + Cardinality(Greetings) <= Hellos(call[k])

CalmTypes == runs \in [Call -> {0, 1}] /\ newer \in [Call -> 0..CacheSize]
Shapes == \A k \in Call : Shape(call[k])
Lonely == \A j, k \in Call : Concerned(j) /\ Concerned(k) => j = k
Unasked == \A k \in Call : call[k].pc = "idle" => runs[k] = 0

CalmInv == CalmTypes /\ Shapes /\ Lonely /\ Unasked /\ IsFiniteSet(Greetings) /\ Few

LEMMA HellosType == \A s \in Coroutines : Hellos(s) \in Int /\ Hellos(s) <= 3 * MaxAttempts
BY DEF Hellos, Dialled, Before, Connecting, Coroutines

\* A coroutine forgets no HELLO it has sent.
Grows(k) == Shape(call'[k]) /\ Hellos(call[k]) <= Hellos(call'[k])

LEMMA EndsGrows ==
  ASSUME CallType, NEW k \in Call, NEW o \in {"ok", "failed"}, Ends(k, o) PROVE Grows(k)
<1>1. call'[k] = Fresh(o) BY DEF Ends, CallType
<1>2. Fresh(o).pc = o BY DEF Fresh
<1>3. Shape(Fresh(o)) /\ Hellos(Fresh(o)) = 3 * MaxAttempts
  BY <1>2 DEF Shape, Hellos, Connecting
<1>4. Hellos(call[k]) <= 3 * MaxAttempts BY HellosType DEF CallType
<1> QED BY <1>1, <1>3, <1>4 DEF Grows

LEMMA DialGrows ==
  ASSUME CallType, NEW k \in Call, NEW n \in Int, NEW r \in BOOLEAN, NEW e \in BOOLEAN,
         Dial(k, n, r, e), ~e => r, Hellos(call[k]) <= Before(r, e) + n - 1
  PROVE  Grows(k)
<1>1. CASE closed BY <1>1, EndsGrows DEF Dial
<1>2. CASE ~closed
  <2> DEFINE s == [pc |-> "dial", conn |-> NoConn, tries |-> n, retried |-> r, entry |-> e]
  <2>1. call'[k] = s BY <1>2 DEF Dial, Goes, CallType
  <2>2. Dialled(s) = Before(r, e) + n BY DEF Dialled
  <2>3. Before(r, e) \in Int BY DEF Before
  <2>4. Shape(s) BY DEF Shape
  <2>5. Hellos(s) = Dialled(s) - 1 BY DEF Hellos
  <2> HIDE DEF s
  <2> QED BY <2>1, <2>2, <2>3, <2>4, <2>5 DEF Grows
<1> QED BY <1>1, <1>2

LEMMA SendFailedGrows ==
  ASSUME CallType, NEW k \in Call, NEW r \in BOOLEAN, SendFailed(k, r),
         ~r => Hellos(call[k]) <= MaxAttempts
  PROVE  Grows(k)
<1>1. CASE r \/ closed
  <2>1. Ends(k, "failed") BY <1>1 DEF SendFailed
  <2> QED BY <2>1, EndsGrows
<1>2. CASE ~(r \/ closed)
  <2> DEFINE s == [pc |-> "tearRetry", conn |-> ws, tries |-> 0, retried |-> TRUE,
                   entry |-> FALSE]
  <2>1. call'[k] = s BY <1>2 DEF SendFailed, Goes, CallType
  <2>2. Shape(s) /\ Hellos(s) = MaxAttempts BY DEF Shape, Hellos, Connecting
  <2> QED BY <1>2, <2>1, <2>2 DEF Grows
<1> QED BY <1>1, <1>2

LEMMA SubmitGrows ==
  ASSUME CallType, NEW k \in Call, NEW r \in BOOLEAN, Submit(k, r),
         ~r => Hellos(call[k]) <= MaxAttempts
  PROVE  Grows(k)
<1>1. CASE ws = NoConn BY <1>1, SendFailedGrows DEF Submit
<1>2. CASE ws # NoConn
  <2> DEFINE s == [pc |-> "send", conn |-> ws, tries |-> 0, retried |-> r, entry |-> FALSE]
  <2>1. call'[k] = s BY <1>2 DEF Submit, Goes, CallType
  <2>2. Shape(s) /\ Hellos(s) = IF r THEN 3 * MaxAttempts ELSE MaxAttempts
    BY DEF Shape, Hellos, Connecting
  <2>3. Hellos(call[k]) <= 3 * MaxAttempts BY HellosType DEF CallType
  <2> QED BY <2>1, <2>2, <2>3 DEF Grows
<1> QED BY <1>1, <1>2

\* A coroutine that goes on in the same round of attempts.
LEMMA RoundGrows ==
  ASSUME CallType, NEW k \in Call, NEW pc \in Connecting, NEW c,
         call' = [call EXCEPT ![k].pc = pc, ![k].conn = c],
         call[k].pc \in Connecting, Shape(call[k]),
         call[k].pc \in {"dial", "helloSend"} \/ pc \notin {"dial", "helloSend"}
  PROVE  Grows(k)
<1>1. call'[k] = [call[k] EXCEPT !.pc = pc, !.conn = c] BY DEF CallType, Coroutines
<1>2. /\ call'[k].pc = pc /\ call'[k].tries = call[k].tries
      /\ call'[k].retried = call[k].retried /\ call'[k].entry = call[k].entry
  BY <1>1 DEF CallType, Coroutines
<1>3. Shape(call'[k]) BY <1>2 DEF Shape, Connecting
<1>4. Dialled(call[k]) \in Int BY DEF Dialled, Before, CallType, Coroutines
<1> DEFINE Early == {"dial", "helloSend"}
<1>5. Hellos(call[k]) = IF call[k].pc \in Early THEN Dialled(call[k]) - 1 ELSE Dialled(call[k])
  BY DEF Hellos
<1>6. Hellos(call'[k]) = IF pc \in Early THEN Dialled(call'[k]) - 1 ELSE Dialled(call'[k])
  BY <1>2 DEF Hellos
<1>7. Dialled(call'[k]) = Dialled(call[k]) BY <1>2 DEF Dialled
<1>8. Hellos(call[k]) <= Hellos(call'[k]) BY <1>4, <1>5, <1>6, <1>7
<1> QED BY <1>3, <1>8 DEF Grows

LEMMA CoroutineGrows ==
  ASSUME CallType, NEW k \in Call, Coroutine(k), Shape(call[k]) PROVE Grows(k)
<1> DEFINE s == call[k]
<1>a. 1 \in Int /\ TRUE \in BOOLEAN /\ FALSE \in BOOLEAN OBVIOUS
<1>0. s \in Coroutines BY DEF CallType
<1>1. ASSUME NEW i, AttemptFailed(k, i), s.pc \in Connecting PROVE Grows(k)
  <2>1. call' = [call EXCEPT ![k].pc = "tearRedial", ![k].conn = ws]
    BY <1>1 DEF AttemptFailed
  <2>2. "tearRedial" \in Connecting /\ "tearRedial" \notin {"dial", "helloSend"}
    BY DEF Connecting
  <2> QED BY <1>1, <2>1, <2>2, RoundGrows
<1>2. CASE Refused(k) BY <1>1, <1>2 DEF Refused, Connecting
<1>3. ASSUME NEW c \in Conn, Opened(k, c) PROVE Grows(k)
  <2>1. PICK pc \in {"tearRaise", "helloSend"} : call' = [call EXCEPT ![k].pc = pc, ![k].conn = c]
    BY <1>3 DEF Opened
  <2>2. s.pc = "dial" /\ s.pc \in Connecting /\ pc \in Connecting
    BY <1>3 DEF Opened, Connecting
  <2> QED BY <2>1, <2>2, RoundGrows
<1>4. CASE HelloSent(k)
  <2>1. CASE net[s.conn] = "open"
    <3>1. call' = [call EXCEPT ![k].pc = "helloWait"] /\ s.pc = "helloSend"
      BY <1>4, <2>1 DEF HelloSent
    <3>2. call' = [call EXCEPT ![k].pc = "helloWait", ![k].conn = s.conn]
      BY <3>1 DEF CallType, Coroutines
    <3> QED BY <3>1, <3>2, RoundGrows DEF Connecting
  <2>2. CASE net[s.conn] # "open" BY <1>1, <1>4, <2>2 DEF HelloSent, Connecting
  <2> QED BY <2>1, <2>2
<1>5. CASE HelloDone(k)
  <2>1. s.pc = "helloWait" /\ s.pc \in Connecting BY <1>5 DEF HelloDone, Connecting
  <2>2. CASE call' = [call EXCEPT ![k].pc = "tearRaise", ![k].conn = ws]
    <3>1. "tearRaise" \in Connecting /\ "tearRaise" \notin {"dial", "helloSend"}
      BY DEF Connecting
    <3> QED BY <2>1, <2>2, <3>1, RoundGrows
  <2>3. CASE Connected(k)
    <3>1. Hellos(s) = Before(s.retried, s.entry) + s.tries
      BY <2>1 DEF Hellos, Dialled, Connecting
    <3>2. s.retried \in BOOLEAN /\ s.entry \in BOOLEAN /\ s.tries \in 0..MaxAttempts
      BY <1>0 DEF Coroutines
    <3>3. ~s.retried => Hellos(s) <= MaxAttempts BY <3>1, <3>2 DEF Before
    <3>4. CASE Submit(k, s.retried) BY <3>2, <3>3, <3>4, SubmitGrows
    <3>5. CASE ~s.entry /\ ws = NoConn /\ Request(k, s.retried)
      <4>1. s.retried BY <2>1, <3>5 DEF Shape
      <4>2. Dial(k, 1, s.retried, TRUE) BY <3>5 DEF Request
      <4>3. Hellos(s) <= Before(s.retried, TRUE) + 1 - 1
        BY <3>1, <3>2, <3>5, <4>1 DEF Before
      <4> QED BY <1>a, <3>2, <4>1, <4>2, <4>3, DialGrows
    <3> QED BY <2>3, <3>4, <3>5 DEF Connected, Request
  <2> QED BY <1>1, <1>5, <2>1, <2>2, <2>3 DEF HelloDone
<1>6. CASE TornDown(k)
  <2>1. CASE Ends(k, "failed") BY <2>1, EndsGrows
  <2>2. CASE s.pc = "tearRedial" /\ Dial(k, s.tries + 1, s.retried, s.entry)
    <3>1. /\ Hellos(s) = Dialled(s)
          /\ ~s.entry => s.retried
          /\ s.tries + 1 \in Int /\ s.retried \in BOOLEAN /\ s.entry \in BOOLEAN
      BY <1>0, <2>2 DEF Hellos, Connecting, Coroutines, Shape
    <3>2. Before(s.retried, s.entry) \in Int /\ s.tries \in Int
      BY <1>0 DEF Before, Coroutines
    <3>3. Hellos(s) = Before(s.retried, s.entry) + s.tries BY <3>1 DEF Dialled
    <3>4. \A b, n \in Int : b + n <= b + (n + 1) - 1 OBVIOUS
    <3>5. Before(s.retried, s.entry) + s.tries <= Before(s.retried, s.entry) + (s.tries + 1) - 1
      BY <3>2, <3>4, Zenon
    <3> QED BY <2>2, <3>1, <3>3, <3>5, DialGrows
  <2>3. CASE s.pc = "tearRetry" /\ Dial(k, 1, s.retried, FALSE)
    <3>1. s.retried /\ s.retried \in BOOLEAN BY <1>0, <2>3 DEF Shape, Coroutines
    <3>2. Hellos(s) <= Before(s.retried, FALSE) + 1 - 1
      BY <2>3, <3>1 DEF Hellos, Before, Connecting
    <3> QED BY <1>a, <2>3, <3>1, <3>2, DialGrows
  <2> QED BY <1>6, <2>1, <2>2, <2>3 DEF TornDown
<1>7. ASSUME s.pc \in {"send", "wait"} PROVE ~s.retried => Hellos(s) = MaxAttempts
  BY <1>7 DEF Hellos, Connecting
<1>8. CASE Sent(k)
  <2>1. CASE net[s.conn] = "open"
    <3>1. call' = [call EXCEPT ![k].pc = "wait"] /\ s.pc = "send" BY <1>8, <2>1 DEF Sent
    <3>2. call'[k].pc = "wait" /\ call'[k].retried = s.retried
      BY <3>1 DEF CallType, Coroutines
    <3>3. Shape(call'[k]) /\ Hellos(call'[k]) = Hellos(s)
      BY <3>1, <3>2 DEF Shape, Hellos, Connecting
    <3>4. Hellos(s) \in Int BY <1>0, HellosType
    <3> QED BY <3>3, <3>4 DEF Grows
  <2>2. CASE net[s.conn] # "open"
    <3>1. SendFailed(k, s.retried) /\ s.pc = "send" BY <1>8, <2>2 DEF Sent
    <3>2. s.retried \in BOOLEAN BY <1>0 DEF Coroutines
    <3> QED BY <1>7, <3>1, <3>2, SendFailedGrows
  <2> QED BY <2>1, <2>2
<1>9. CASE Settle(k)
  <2>1. CASE Ends(k, "ok") \/ Ends(k, "failed") BY <2>1, EndsGrows
  <2>2. CASE ~s.retried /\ Dial(k, 1, TRUE, FALSE)
    <3>1. Hellos(s) <= Before(TRUE, FALSE) + 1 - 1 BY <1>7, <1>9, <2>2 DEF Settle, Before
    <3> QED BY <1>a, <2>2, <3>1, DialGrows
  <2> QED BY <1>9, <2>1, <2>2 DEF Settle
<1> QED BY <1>2, <1>3, <1>4, <1>5, <1>6, <1>8, <1>9 DEF Coroutine

\* A HELLO that is sent counts.
LEMMA HelloCounts ==
  ASSUME CallType, NEW k \in Call, HelloSent(k), net[call[k].conn] = "open"
  PROVE  Hellos(call'[k]) = Hellos(call[k]) + 1
<1>1. call' = [call EXCEPT ![k].pc = "helloWait"] /\ call[k].pc = "helloSend" BY DEF HelloSent
<1>2. /\ call'[k].pc = "helloWait" /\ call'[k].tries = call[k].tries
      /\ call'[k].retried = call[k].retried /\ call'[k].entry = call[k].entry
  BY <1>1 DEF CallType, Coroutines
<1>3. Dialled(call'[k]) = Dialled(call[k]) BY <1>2 DEF Dialled
<1>4. Hellos(call'[k]) = Dialled(call'[k]) BY <1>2 DEF Hellos, Connecting
<1>5. Hellos(call[k]) = Dialled(call[k]) - 1 BY <1>1 DEF Hellos
<1>6. Dialled(call[k]) \in Int BY DEF Dialled, Before, CallType, Coroutines
<1> QED BY <1>3, <1>4, <1>5, <1>6

\* A call that starts has sent none.
LEMMA StartCounts ==
  ASSUME CallType, NEW k \in Call, Start(k)
  PROVE  Shape(call'[k]) /\ 0 <= Hellos(call'[k]) /\ call'[k].pc # "idle"
<1>1. CASE Submit(k, FALSE) /\ ws # NoConn
  <2> DEFINE s == [pc |-> "send", conn |-> ws, tries |-> 0, retried |-> FALSE, entry |-> FALSE]
  <2>1. call'[k] = s BY <1>1 DEF Submit, Goes, CallType
  <2>2. Shape(s) /\ Hellos(s) = MaxAttempts /\ s.pc # "idle" BY DEF Shape, Hellos, Connecting
  <2> HIDE DEF s
  <2> QED BY <2>1, <2>2
<1>2. CASE Ends(k, "failed")
  <2>1. call'[k] = Fresh("failed") BY <1>2 DEF Ends, CallType
  <2>2. Fresh("failed").pc = "failed" BY DEF Fresh
  <2>3. Shape(call'[k]) /\ Hellos(call'[k]) = 3 * MaxAttempts /\ call'[k].pc # "idle"
    BY <2>1, <2>2 DEF Shape, Hellos, Connecting
  <2> QED BY <2>3
<1>3. CASE Goes(k, "dial", NoConn, 1, FALSE, TRUE)
  <2> DEFINE s == [pc |-> "dial", conn |-> NoConn, tries |-> 1, retried |-> FALSE,
                   entry |-> TRUE]
  <2>1. call'[k] = s BY <1>3 DEF Goes, CallType
  <2>2. Shape(s) /\ Hellos(s) = Dialled(s) - 1 /\ s.pc # "idle" BY DEF Shape, Hellos
  <2>3. Dialled(s) = 1 BY DEF Dialled, Before
  <2> HIDE DEF s
  <2> QED BY <2>1, <2>2, <2>3
<1> QED BY <1>1, <1>2, <1>3 DEF Start, Request, Dial

\* Unread HELLOs become no more, and no entry older.
LEMMA StaysFew ==
  ASSUME CallType, CallType', CalmInv, newer' \in [Call -> 0..CacheSize],
         Greetings' \subseteq Greetings,
         \A k \in Call : Concerned(k)' =>
           /\ Concerned(k) /\ Hellos(call[k]) <= Hellos(call'[k])
           /\ Answered(k)' => newer'[k] = 0 \/ (Answered(k) /\ newer'[k] = newer[k])
  PROVE  IsFiniteSet(Greetings)' /\ Few'
<1>1. /\ IsFiniteSet(Greetings') /\ Cardinality(Greetings') <= Cardinality(Greetings)
      /\ Cardinality(Greetings) \in Nat /\ Cardinality(Greetings') \in Nat
  BY FS_Subset, FS_CardinalityType DEF CalmInv
<1>2. ASSUME NEW k \in Call, Concerned(k)'
      PROVE  /\ Cardinality(Greetings') <= Hellos(call'[k])
             /\ Answered(k)' => newer'[k] + Cardinality(Greetings') <= Hellos(call'[k])
  <2>1. Hellos(call[k]) \in Int /\ Hellos(call'[k]) \in Int BY HellosType DEF CallType
  <2>2. newer[k] \in Int /\ newer'[k] \in Int BY DEF CalmInv, CalmTypes
  <2>3. Cardinality(Greetings) <= Hellos(call[k]) BY <1>2 DEF CalmInv, Few
  <2>4. Cardinality(Greetings') <= Hellos(call'[k]) BY <1>1, <1>2, <2>1, <2>3
  <2>5. CASE newer'[k] = 0 BY <1>1, <2>1, <2>4, <2>5
  <2>6. CASE Answered(k) /\ newer'[k] = newer[k]
    <3>1. newer[k] + Cardinality(Greetings) <= Hellos(call[k])
      BY <1>2, <2>6 DEF CalmInv, Few
    <3> QED BY <1>1, <1>2, <2>1, <2>2, <2>4, <2>6, <3>1
  <2> QED BY <1>2, <2>4, <2>5, <2>6
<1> QED BY <1>1, <1>2 DEF Few

LEMMA CalmInit == SessionInit => CalmInv
<1> SUFFICES ASSUME SessionInit PROVE CalmInv
  OBVIOUS
<1>1. \A k \in Call : call[k] = Fresh("idle") BY DEF SessionInit, Init
<1>2. Fresh("idle").pc = "idle" BY DEF Fresh
<1>3. \A c \in Conn : up[c] = {} BY DEF SessionInit, Init
<1>4. Greetings = {} BY <1>3 DEF Greetings, Readable
<1>5. \A k \in Call : ~Concerned(k)
  BY <1>1, <1>2, <1>3 DEF SessionInit, Concerned, Active, Readable
<1>6. CalmTypes BY DEF SessionInit, CalmTypes
<1>7. Shapes /\ Unasked BY <1>1, <1>2 DEF SessionInit, Shapes, Shape, Connecting, Unasked
<1> QED BY <1>4, <1>5, <1>6, <1>7, FS_EmptySet DEF CalmInv, Lonely, Few

Reads == taken \in [Conn -> SUBSET Ids]

THEOREM SessionReads == SessionSpec => []Reads
<1>1. SessionInit => Reads BY DEF SessionInit, Reads
<1>2. TypeOK /\ Reads /\ [SessionNext]_sessionVars => Reads'
  <2> SUFFICES ASSUME TypeOK, Reads, [SessionNext]_sessionVars PROVE Reads'
    OBVIOUS
  <2>0. up \in [Conn -> SUBSET Ids] /\ Call \subseteq Ids /\ Conn \subseteq Ids
    BY TypeParts DEF NetType, Ids
  <2>1. CASE Outside BY <2>1 DEF Outside, Reads
  <2>2. ASSUME NEW k \in Call, Serve(k) PROVE Reads'
    BY <2>0, <2>2 DEF Serve, Run, Join, Replay, AnswerRequest, RunEnds, Take, Reads
  <2>3. ASSUME NEW c \in Conn, Welcome(c) \/ Vanish(c) PROVE Reads'
    BY <2>0, <2>3 DEF Welcome, TakeHello, Greet, Vanish, Take, Reads
  <2>4. CASE ServerRestart \/ UNCHANGED sessionVars
    BY <2>4 DEF ServerRestart, sessionVars, serverVars, Reads
  <2> QED BY <2>1, <2>2, <2>3, <2>4 DEF SessionNext
<1> QED BY <1>1, <1>2, SessionInvariant, PTL DEF SessionSpec

\* What is on its way after a step of the client.
LEMMA Unread ==
  ASSUME Outside, NEW c \in Conn, NEW i, Readable(c, i)'
  PROVE  i \in up'[c] /\ i \notin taken[c] /\ home'[c] = server'
BY DEF Outside, Readable

LEMMA StartCalm ==
  ASSUME TypeOK, TypeOK', IInv, PinInv, SessionInv, CalmInv, Outside, Calm,
         NEW k \in Call, Start(k)
  PROVE  CalmInv'
<1>0. CallType /\ CallType' BY DEF TypeOK, CallType
<1>1. /\ Shape(call'[k]) /\ 0 <= Hellos(call'[k]) /\ call'[k].pc # "idle"
      /\ call[k].pc = "idle"
  BY <1>0, StartCounts DEF Start
<1>2. Idle BY <1>1 DEF Calm
<1>3. UNCHANGED <<up, home, server, exec, newer, runs>> BY DEF Start, netVars, Outside
<1>4. \A c \in Conn : \A i : ~Readable(c, i)'
  <2> SUFFICES ASSUME NEW c \in Conn, NEW i, Readable(c, i)' PROVE FALSE
    OBVIOUS
  <2>1. i \in up[c] /\ Readable(c, i) BY <1>3, Unread DEF Readable
  <2> QED BY <1>2, <2>1 DEF Idle
<1>5. \A j \in Call : j # k => call'[j] = call[j] /\ ~Active(j)
  <2>1. \A j \in Call : j # k => call'[j] = call[j]
    BY <1>0 DEF Start, Request, Submit, Dial, Goes, Ends, SendFailed, CallType
  <2> QED BY <2>1 DEF Start
<1>6. \A j \in Call : Concerned(j)' => j = k
  BY <1>2, <1>3, <1>4, <1>5 DEF Concerned, Idle, Active
<1>7. Greetings' = {} BY <1>4 DEF Greetings
<1>8. ~Answered(k)'
  <2>1. runs[k] = 0 BY <1>1 DEF CalmInv, Unasked
  <2>2. exec[k] = "none" BY <2>1 DEF SessionInv, Executed
  <2> QED BY <1>3, <2>2 DEF Answered
<1>9. CalmTypes' /\ Shapes' /\ Unasked'
  BY <1>1, <1>3, <1>5 DEF CalmInv, CalmTypes, Shapes, Unasked
<1>10. Few' BY <1>1, <1>6, <1>7, <1>8, FS_EmptySet DEF Few
<1> QED BY <1>6, <1>7, <1>9, <1>10, FS_EmptySet DEF CalmInv, Lonely

LEMMA CoroutineCalm ==
  ASSUME TypeOK, TypeOK', IInv, PinInv, SessionInv, CalmInv, Outside,
         NEW k \in Call, Coroutine(k)
  PROVE  CalmInv'
<1>0. CallType /\ CallType' /\ NetType BY TypeParts DEF TypeOK, CallType
<1>1. Grows(k) /\ Active(k) BY <1>0, CoroutineGrows, CoroutineActive DEF CalmInv, Shapes
<1>2. \A j \in Call : j # k => call'[j] = call[j]
  BY <1>0 DEF Coroutine, Refused, Opened, HelloSent, HelloDone, TornDown, Sent, Settle,
              AttemptFailed, Connected, Request, Submit, Dial, Goes, Ends, SendFailed,
              CallType
<1>3. UNCHANGED <<exec, newer, runs>> BY DEF Outside
<1>4. Concerned(k) /\ \A j \in Call : Concerned(j) => j = k
  BY <1>1 DEF Concerned, CalmInv, Lonely
<1> DEFINE c == call[k].conn
           New(d, i) == \/ HelloSent(k) /\ net[c] = "open" /\ d = c /\ i = c
                        \/ Sent(k) /\ d = c /\ i = k
<1>5. ASSUME NEW d \in Conn, NEW i, Readable(d, i)' PROVE Readable(d, i) \/ New(d, i)
  <2>1. i \in up'[d] /\ i \notin taken[d] /\ home'[d] = server' BY <1>5, Unread
  <2>2. CASE Onward(k) BY <2>1, <2>2 DEF Onward, Readable
  <2>3. ASSUME NEW e \in Conn, Opened(k, e) PROVE Readable(d, i)
    <3>1. /\ up' = [up EXCEPT ![e] = {}] /\ home' = [home EXCEPT ![e] = server]
          /\ server' = server
      BY <2>3 DEF Opened
    <3> QED BY <1>0, <2>1, <3>1 DEF NetType, Readable
  <2>4. CASE net[c] = "open" /\ HelloSent(k)
    <3>1. up' = [up EXCEPT ![c] = @ \cup {c}] /\ UNCHANGED <<home, server>>
      BY <2>4 DEF HelloSent
    <3> QED BY <1>0, <2>1, <2>4, <3>1 DEF NetType, Readable
  <2>5. CASE net[c] = "open" /\ Sent(k)
    <3>1. up' = [up EXCEPT ![c] = @ \cup {k}] /\ UNCHANGED <<home, server>>
      BY <2>5 DEF Sent
    <3> QED BY <1>0, <2>1, <2>5, <3>1 DEF NetType, Readable
  <2> QED BY <2>2, <2>3, <2>4, <2>5, CoroutineCases
<1>6. \A j \in Call : Concerned(j)' => j = k
  <2> SUFFICES ASSUME NEW j \in Call, j # k, Concerned(j)' PROVE Concerned(j)
    BY <1>4
  <2>1. j \notin Conn /\ (net[c] = "open" /\ HelloSent(k) => c \in Conn)
    BY <1>0 DEF HelloSent, IInv, Placed, CallType, Coroutines
  <2>2. ASSUME NEW d \in Conn, Readable(d, j)' PROVE Readable(d, j) BY <1>5, <2>1, <2>2
  <2> QED BY <1>2, <1>3, <2>2 DEF Concerned, Active
<1>7. CalmTypes' /\ Shapes' BY <1>1, <1>2, <1>3 DEF CalmInv, CalmTypes, Shapes, Grows
<1>8. Unasked'
  <2>1. call'[k].pc # "idle"
    BY <1>0 DEF Coroutine, Refused, Opened, HelloSent, HelloDone, TornDown, Sent, Settle,
              AttemptFailed, Connected, Request, Submit, Dial, Goes, Ends, SendFailed,
              CallType, Coroutines, Fresh
  <2> QED BY <1>2, <1>3, <2>1 DEF CalmInv, Unasked
<1>9. IsFiniteSet(Greetings)' /\ Few'
  <2>1. CASE net[c] = "open" /\ HelloSent(k)
    <3>1. Hellos(call'[k]) = Hellos(call[k]) + 1 BY <1>0, <2>1, HelloCounts
    <3>2. Greetings' \subseteq Greetings \cup {c} BY <1>5, <2>1 DEF Greetings, Sent, HelloSent
    <3>3. IsFiniteSet(Greetings) /\ Cardinality(Greetings) \in Nat
      BY FS_CardinalityType DEF CalmInv
    <3>4. /\ IsFiniteSet(Greetings \cup {c})
          /\ Cardinality(Greetings \cup {c}) <= Cardinality(Greetings) + 1
          /\ Cardinality(Greetings \cup {c}) \in Nat
      <4>1. /\ IsFiniteSet(Greetings \cup {c})
            /\ Cardinality(Greetings \cup {c}) =
                 IF c \in Greetings THEN Cardinality(Greetings) ELSE Cardinality(Greetings) + 1
        BY <3>3, FS_AddElement
      <4> QED BY <3>3, <4>1
    <3>5. /\ IsFiniteSet(Greetings') /\ Cardinality(Greetings') <= Cardinality(Greetings) + 1
          /\ Cardinality(Greetings') \in Nat
      <4>1. IsFiniteSet(Greetings') BY <3>2, <3>4, FS_Subset
      <4>2. Cardinality(Greetings') <= Cardinality(Greetings \cup {c})
        BY <3>2, <3>4, FS_Subset
      <4>3. Cardinality(Greetings') \in Nat BY <4>1, FS_CardinalityType
      <4> QED BY <3>3, <3>4, <4>1, <4>2, <4>3
    <3>6. /\ Cardinality(Greetings) <= Hellos(call[k])
          /\ Answered(k) => newer[k] + Cardinality(Greetings) <= Hellos(call[k])
      BY <1>4 DEF CalmInv, Few
    <3>7. Hellos(call[k]) \in Int /\ newer[k] \in Int
      BY <1>0, HellosType DEF CallType, CalmInv, CalmTypes
    <3>8. Cardinality(Greetings') <= Hellos(call'[k])
      BY <3>1, <3>3, <3>5, <3>6, <3>7
    <3>9. Answered(k)' => newer'[k] + Cardinality(Greetings') <= Hellos(call'[k])
      <4>1. Answered(k)' <=> Answered(k) BY <1>3 DEF Answered
      <4>2. newer'[k] = newer[k] BY <1>3
      <4> QED BY <3>1, <3>3, <3>5, <3>6, <3>7, <4>1, <4>2
    <3> QED BY <1>6, <3>5, <3>8, <3>9 DEF Few
  <2>2. CASE ~(net[c] = "open" /\ HelloSent(k))
    <3>1. Greetings' \subseteq Greetings
      <4>1. k \notin Conn OBVIOUS
      <4> QED BY <1>5, <2>2, <4>1 DEF Greetings
    <3>2. \A j \in Call : Concerned(j)' =>
            /\ Concerned(j) /\ Hellos(call[j]) <= Hellos(call'[j])
            /\ Answered(j)' => newer'[j] = 0 \/ (Answered(j) /\ newer'[j] = newer[j])
      BY <1>1, <1>3, <1>4, <1>6 DEF Grows, Answered
    <3>3. newer' \in [Call -> 0..CacheSize] BY <1>7 DEF CalmTypes
    <3> QED BY <1>0, <3>1, <3>2, <3>3, StaysFew
  <2> QED BY <2>1, <2>2
<1> QED BY <1>6, <1>7, <1>8, <1>9 DEF CalmInv, Lonely

\* A step that moves no coroutine, and makes nothing readable.
LEMMA StillCalm ==
  ASSUME CallType, CalmInv, call' = call, CalmTypes',
         \A c \in Conn : \A i : Readable(c, i)' => Readable(c, i),
         \A k \in Call : exec'[k] = "running" => Concerned(k),
         \A k \in Call : runs'[k] # runs[k] => call[k].pc # "idle",
         \A k \in Call : Concerned(k) /\ Answered(k)' =>
           newer'[k] = 0 \/ (Answered(k) /\ newer'[k] = newer[k])
  PROVE  CalmInv'
<1>1. \A k \in Call : Concerned(k)' => Concerned(k) BY DEF Concerned, Active
<1>2. Greetings' \subseteq Greetings BY DEF Greetings
<1>3. Shapes' /\ Unasked' /\ Lonely' BY <1>1 DEF CalmInv, Shapes, Unasked, Lonely
<1>4. CallType' BY DEF CallType
<1>5. \A k \in Call : Hellos(call[k]) <= Hellos(call'[k]) BY HellosType DEF CallType
<1>6. newer' \in [Call -> 0..CacheSize] BY DEF CalmTypes
<1>7. \A k \in Call : Concerned(k)' =>
        /\ Concerned(k) /\ Hellos(call[k]) <= Hellos(call'[k])
        /\ Answered(k)' => newer'[k] = 0 \/ (Answered(k) /\ newer'[k] = newer[k])
  BY <1>1, <1>5
<1>8. IsFiniteSet(Greetings)' /\ Few' BY <1>2, <1>4, <1>6, <1>7, StaysFew
<1> QED BY <1>3, <1>8 DEF CalmInv

LEMMA OvertakenType ==
  ASSUME CalmInv, NEW n \in 0..CacheSize
  PROVE  /\ Overtaken(n) \in [Call -> 0..CacheSize]
         /\ \A k \in Call : Overtaken(n)[k] <= newer[k] + 1
<1>1. newer \in [Call -> 0..CacheSize] BY DEF CalmInv, CalmTypes
<1> QED BY <1>1 DEF Overtaken

\* The server executes what it has not executed: the answer of a call that is not
\* over is not evicted, because too few HELLOs can have followed it.
LEMMA RunCalm ==
  ASSUME 3 * MaxAttempts < CacheSize, TypeOK, PinInv, SessionInv, CalmInv,
         NEW c \in Conn, NEW k \in Call, Run(c, k)
  PROVE  CalmInv'
<1>0. CallType BY TypeParts
<1>1. Concerned(k) /\ call[k].pc # "idle" BY RunsAsked DEF Concerned, Run
<1>2. runs[k] = 0
  <2> SUFFICES ASSUME k \in Evicted PROVE FALSE
    BY RunsAsked
  <2>1. newer[k] + Cardinality(Greetings) <= Hellos(call[k]) /\ ~Kept(k)
    BY <1>1 DEF Evicted, CalmInv, Few
  <2>2. newer[k] \in Int /\ newer[k] >= CacheSize BY <2>1 DEF Kept, CalmInv, CalmTypes
  <2>3. Hellos(call[k]) \in Int /\ Hellos(call[k]) <= 3 * MaxAttempts
    BY <1>0, HellosType DEF CallType
  <2>4. Cardinality(Greetings) \in Nat BY FS_CardinalityType DEF CalmInv
  <2>5. MaxAttempts \in Int /\ CacheSize \in Int OBVIOUS
  <2> HIDE DEF Evicted
  <2> QED BY <2>1, <2>2, <2>3, <2>4, <2>5
<1>3. /\ runs' = [runs EXCEPT ![k] = @ + 1] /\ exec' = [exec EXCEPT ![k] = "running"]
      /\ UNCHANGED <<call, newer, up, home, server>>
      /\ taken' = [taken EXCEPT ![c] = @ \cup {k}]
  BY DEF Run, Take, vars, netVars
<1>4. CalmTypes' BY <1>2, <1>3 DEF CalmInv, CalmTypes
<1>5. \A d \in Conn : \A i : Readable(d, i)' => Readable(d, i)
  BY <1>3 DEF Readable, SessionInv
<1>6. \A j \in Call : j # k => exec'[j] = exec[j] /\ runs'[j] = runs[j]
  BY <1>3 DEF CalmInv, CalmTypes, SessionInv, Executed
<1>7. ~Answered(k)' BY <1>3 DEF Answered, SessionInv, Executed
<1>8. \A j \in Call : Concerned(j) /\ Answered(j)' =>
        newer'[j] = 0 \/ (Answered(j) /\ newer'[j] = newer[j])
  BY <1>3, <1>6, <1>7 DEF Answered
<1> QED BY <1>0, <1>1, <1>3, <1>4, <1>5, <1>6, <1>8, StillCalm DEF Concerned

\* The rest of what the server does for requests.
LEMMA ServeCalm ==
  ASSUME TypeOK, SessionInv, CalmInv, NEW k \in Call,
         \/ \E c \in Conn : Join(c, k) \/ Replay(c, k) \/ AnswerRequest(c, k)
         \/ RunEnds(k)
  PROVE  CalmInv'
<1>0. CallType /\ NetType BY TypeParts
<1>1. /\ CacheSize \in 0..CacheSize /\ newer \in [Call -> 0..CacheSize]
      /\ runs \in [Call -> {0, 1}]
  BY DEF CalmInv, CalmTypes
<1>2. ASSUME NEW n \in 0..CacheSize, newer' = [Overtaken(n) EXCEPT ![k] = 0],
             UNCHANGED runs
      PROVE  CalmTypes' /\ newer'[k] = 0
  BY <1>1, <1>2, OvertakenType DEF CalmTypes
<1>3. Concerned(k) => \A j \in Call : Concerned(j) => j = k BY DEF CalmInv, Lonely
<1>4. ASSUME NEW c \in Conn, Join(c, k) PROVE CalmInv'
  <2>1. /\ UNCHANGED <<call, up, home, server, exec, newer, runs>>
        /\ taken' = [taken EXCEPT ![c] = @ \cup {k}]
    BY <1>4 DEF Join, Take, vars, netVars
  <2>2. \A d \in Conn : \A i : Readable(d, i)' => Readable(d, i) BY <2>1 DEF Readable
  <2>3. CalmTypes' BY <2>1 DEF CalmInv, CalmTypes
  <2> QED BY <1>0, <2>1, <2>2, <2>3, StillCalm DEF Concerned, Answered
<1>5. ASSUME NEW c \in Conn, Replay(c, k) PROVE CalmInv'
  <2>1. /\ UNCHANGED <<call, up, home, server, exec, runs>>
        /\ taken' = [taken EXCEPT ![c] = @ \cup {k}]
        /\ newer' = [Overtaken(newer[k]) EXCEPT ![k] = 0]
    BY <1>5 DEF Replay, Take, vars, netVars
  <2>2. \A d \in Conn : \A i : Readable(d, i)' => Readable(d, i) BY <2>1 DEF Readable
  <2>3. CalmTypes' /\ newer'[k] = 0 BY <1>1, <1>2, <2>1
  <2>4. \A j \in Call : Concerned(j) => j = k BY <1>3, <1>5 DEF Replay, Concerned
  <2> QED BY <1>0, <2>1, <2>2, <2>3, <2>4, StillCalm DEF Concerned
<1>6. ASSUME NEW c \in Conn, AnswerRequest(c, k) PROVE CalmInv'
  <2>1. /\ UNCHANGED <<call, home, server, exec, newer, runs>>
        /\ taken' = [taken EXCEPT ![c] = @ \ {k}] /\ up' = [up EXCEPT ![c] = @ \ {k}]
    BY <1>6 DEF AnswerRequest, Reply
  <2>2. \A d \in Conn : \A i : Readable(d, i)' => Readable(d, i)
    BY <1>0, <2>1 DEF NetType, Readable
  <2>3. CalmTypes' BY <2>1 DEF CalmInv, CalmTypes
  <2> QED BY <1>0, <2>1, <2>2, <2>3, StillCalm DEF Concerned, Answered
<1>7. CASE RunEnds(k)
  <2>1. /\ UNCHANGED <<call, up, home, server, taken, runs>> /\ exec[k] = "running"
        /\ newer' = [Overtaken(CacheSize) EXCEPT ![k] = 0]
    BY <1>7 DEF RunEnds, vars, netVars
  <2>2. \A d \in Conn : \A i : Readable(d, i)' => Readable(d, i) BY <2>1 DEF Readable
  <2>3. CalmTypes' /\ newer'[k] = 0 BY <1>1, <1>2, <2>1
  <2>4. \A j \in Call : Concerned(j) => j = k BY <1>3, <2>1 DEF Concerned
  <2>5. \A j \in Call : exec'[j] = "running" => exec[j] = "running"
    BY <1>7 DEF RunEnds, SessionInv, Executed
  <2> QED BY <1>0, <2>1, <2>2, <2>3, <2>4, <2>5, StillCalm DEF Concerned
<1> QED BY <1>4, <1>5, <1>6, <1>7

\* A HELLO that is read becomes a cache entry, and is unread no more.
LEMMA TakeHelloCalm ==
  ASSUME TypeOK, Reads, CalmInv, NEW c \in Conn, TakeHello(c) PROVE CalmInv'
<1>0. CallType BY TypeParts
<1>1. /\ UNCHANGED <<call, up, home, server, exec, runs>> /\ Readable(c, c)
      /\ taken' = [taken EXCEPT ![c] = @ \cup {c}] /\ newer' = Overtaken(CacheSize)
  BY DEF TakeHello, Take, vars, netVars
<1>2. \A d \in Conn : \A i : Readable(d, i)' => Readable(d, i) BY <1>1 DEF Readable
<1>3. \A k \in Call : Concerned(k)' => Concerned(k) BY <1>1, <1>2 DEF Concerned, Active
<1>4. /\ newer' \in [Call -> 0..CacheSize] /\ \A k \in Call : newer'[k] <= newer[k] + 1
  <2>1. CacheSize \in 0..CacheSize OBVIOUS
  <2> QED BY <1>1, <2>1, OvertakenType
<1>5. /\ CalmTypes' /\ Shapes' /\ Unasked' /\ Lonely'
  BY <1>1, <1>3, <1>4 DEF CalmInv, CalmTypes, Shapes, Unasked, Lonely
<1>6. c \in Greetings /\ Greetings' \subseteq Greetings \ {c}
  <2>1. ~Readable(c, c)' BY <1>1 DEF Readable, Reads
  <2> QED BY <1>1, <1>2, <2>1 DEF Greetings
<1>7. IsFiniteSet(Greetings) /\ Cardinality(Greetings) \in Nat
  BY FS_CardinalityType DEF CalmInv
<1>8. /\ IsFiniteSet(Greetings') /\ Cardinality(Greetings') \in Nat
      /\ Cardinality(Greetings') <= Cardinality(Greetings) - 1
  <2>1. /\ IsFiniteSet(Greetings \ {c})
        /\ Cardinality(Greetings \ {c}) = Cardinality(Greetings) - 1
    BY <1>6, <1>7, FS_RemoveElement
  <2>2. IsFiniteSet(Greetings') BY <1>6, <2>1, FS_Subset
  <2>3. Cardinality(Greetings') <= Cardinality(Greetings \ {c}) BY <1>6, <2>1, FS_Subset
  <2>4. Cardinality(Greetings') \in Nat BY <2>2, FS_CardinalityType
  <2> QED BY <2>1, <2>2, <2>3, <2>4
<1>9. Few'
  <2> SUFFICES ASSUME NEW k \in Call, Concerned(k)'
               PROVE  /\ Cardinality(Greetings') <= Hellos(call'[k])
                      /\ Answered(k)' =>
                           newer'[k] + Cardinality(Greetings') <= Hellos(call'[k])
    BY DEF Few
  <2>1. /\ Cardinality(Greetings) <= Hellos(call[k])
        /\ Answered(k) => newer[k] + Cardinality(Greetings) <= Hellos(call[k])
    BY <1>3 DEF CalmInv, Few
  <2>2. /\ Hellos(call[k]) \in Int /\ newer[k] \in Int /\ newer'[k] \in Int
        /\ Hellos(call'[k]) = Hellos(call[k])
    BY <1>0, <1>1, <1>4, HellosType DEF CallType, CalmInv, CalmTypes
  <2>3. (Answered(k)' <=> Answered(k)) /\ newer'[k] <= newer[k] + 1 BY <1>1, <1>4 DEF Answered
  <2> QED BY <1>7, <1>8, <2>1, <2>2, <2>3
<1> QED BY <1>5, <1>8, <1>9 DEF CalmInv

\* The rest: the client's other steps, connections that break, restarts.
LEMMA OtherCalm ==
  ASSUME TypeOK, IInv, PinInv, CalmInv,
         \/ /\ Outside /\ UNCHANGED <<call, home>>
            /\ \A c \in Conn : up'[c] \subseteq up[c]
         \/ \E c \in Conn : Greet(c) \/ Vanish(c)
         \/ ServerRestart \/ UNCHANGED sessionVars
  PROVE  CalmInv'
<1>0. CallType /\ NetType BY TypeParts
<1>1. ASSUME UNCHANGED <<call, exec, newer, runs>>,
             \A c \in Conn : \A i : Readable(c, i)' => Readable(c, i)
      PROVE  CalmInv'
  <2>1. CalmTypes' BY <1>1 DEF CalmInv, CalmTypes
  <2> QED BY <1>0, <1>1, <2>1, StillCalm DEF Concerned, Answered
<1>2. CASE /\ Outside /\ UNCHANGED <<call, home>>
           /\ \A c \in Conn : up'[c] \subseteq up[c]
  <2>1. server' = server BY <1>2, ClientSendsNoFrames DEF Outside
  <2>2. \A c \in Conn : \A i : Readable(c, i)' => Readable(c, i)
    BY <1>2, <2>1, Unread DEF Readable
  <2> QED BY <1>1, <1>2, <2>2 DEF Outside
<1>3. ASSUME NEW c \in Conn, Greet(c) PROVE CalmInv'
  <2>1. /\ UNCHANGED <<call, home, server, exec, newer, runs>>
        /\ taken' = [taken EXCEPT ![c] = @ \ {c}] /\ up' = [up EXCEPT ![c] = @ \ {c}]
    BY <1>3 DEF Greet, Reply
  <2>2. \A d \in Conn : \A i : Readable(d, i)' => Readable(d, i)
    BY <1>0, <2>1 DEF NetType, Readable
  <2> QED BY <1>1, <2>1, <2>2
<1>4. ASSUME NEW c \in Conn, Vanish(c) PROVE CalmInv'
  <2>1. /\ UNCHANGED <<call, up, home, server, exec, newer, runs>>
        /\ taken' = [taken EXCEPT ![c] = up[c]]
    BY <1>4 DEF Vanish, vars, netVars
  <2>2. \A d \in Conn : \A i : Readable(d, i)' => Readable(d, i) BY <2>1 DEF Readable
  <2> QED BY <1>1, <2>1, <2>2
<1>5. CASE ServerRestart
  <2>1. /\ UNCHANGED <<call, home, up, taken, runs>> /\ server' = server + 1
        /\ exec' = [k \in Call |-> "none"] /\ newer' = [k \in Call |-> CacheSize]
    BY <1>5 DEF ServerRestart, Restart
  <2>2. \A c \in Conn : home[c] # server'
    <3>1. \A c \in Conn : home[c] \in Server \cup {NoServer} BY <1>0 DEF NetType
    <3>2. \A c \in Conn : home[c] # NoServer => home[c] <= server BY DEF PinInv, Homes
    <3>3. server \in Nat /\ NoServer # server + 1 BY <1>0 DEF NetType, Server
    <3> QED BY <2>1, <3>1, <3>2, <3>3 DEF Server
  <2>3. \A d \in Conn : \A i : ~Readable(d, i)' BY <2>1, <2>2 DEF Readable
  <2>4. CacheSize \in 0..CacheSize OBVIOUS
  <2>5. CalmTypes' BY <2>1, <2>4 DEF CalmInv, CalmTypes
  <2>6. \A k \in Call : ~Answered(k)' /\ exec'[k] # "running" BY <2>1 DEF Answered
  <2> QED BY <1>0, <2>1, <2>3, <2>5, <2>6, StillCalm
<1>6. CASE UNCHANGED sessionVars
  <2>1. UNCHANGED <<call, up, home, server, taken, exec, newer, runs>>
    BY <1>6 DEF sessionVars, serverVars, vars, netVars
  <2>2. \A d \in Conn : \A i : Readable(d, i)' => Readable(d, i) BY <2>1 DEF Readable
  <2> QED BY <1>1, <2>1, <2>2
<1> QED BY <1>2, <1>3, <1>4, <1>5, <1>6

LEMMA CalmStep ==
  /\ 3 * MaxAttempts < CacheSize /\ TypeOK /\ TypeOK' /\ IInv /\ PinInv /\ SessionInv
  /\ Reads /\ CalmInv /\ [SessionNext /\ Calm]_sessionVars
  => CalmInv'
<1> SUFFICES ASSUME 3 * MaxAttempts < CacheSize, TypeOK, TypeOK', IInv, PinInv, SessionInv,
                    Reads, CalmInv, [SessionNext /\ Calm]_sessionVars
             PROVE  CalmInv'
  OBVIOUS
<1>1. CASE Outside /\ Calm
  <2>1. [Next]_vars BY <1>1, SessionStepIsClients DEF SessionNext
  <2> QED BY <1>1, <2>1, Elsewhere, StartCalm, CoroutineCalm, OtherCalm
<1>2. ASSUME NEW k \in Call, Serve(k) PROVE CalmInv'
  BY <1>2, RunCalm, ServeCalm DEF Serve
<1>3. ASSUME NEW c \in Conn, Welcome(c) \/ Vanish(c) PROVE CalmInv'
  BY <1>3, TakeHelloCalm, OtherCalm DEF Welcome
<1>4. CASE ServerRestart \/ UNCHANGED sessionVars BY <1>4, OtherCalm
<1> QED BY <1>1, <1>2, <1>3, <1>4 DEF SessionNext

\* With a cache that holds more entries than a call can send HELLOs, and a caller
\* that lets the server finish the requests of an earlier call, no request is
\* executed twice: then the comment in request() is right.
THEOREM RunsOnceCorrect ==
  ASSUME 3 * MaxAttempts < CacheSize PROVE CalmSpec => []RunsOnce
<1>1. SessionInit => CalmInv BY CalmInit
<1>2. /\ TypeOK /\ TypeOK' /\ IInv /\ PinInv /\ SessionInv /\ Reads /\ CalmInv
      /\ [SessionNext /\ Calm]_sessionVars
      => CalmInv'
  BY CalmStep
<1>3. [SessionNext /\ Calm]_sessionVars => [SessionNext]_sessionVars OBVIOUS
<1>4. CalmInv => RunsOnce BY DEF CalmInv, CalmTypes, RunsOnce
<1> QED BY <1>1, <1>2, <1>3, <1>4, SessionInvariant, SessionReads, PTL DEF CalmSpec, SessionSpec
=============================================================================
