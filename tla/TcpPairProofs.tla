----------------------------- MODULE TcpPairProofs -----------------------------
(* Proofs about TcpPair, for every number of calls and of attempts.           *)
EXTENDS TcpPair, FiniteSetTheorems, TLAPS

USE CallsAssumption, TriesAssumption

\* The threads that hold a request: a Reset does not take it from them.
Busy == {"run", "error"}

\* Nothing is under way on the connection.
Quiet(k) == req[k] = 0 /\ th[k] \notin Busy /\ rep[k] = NoReply

\* A busy thread has its request, and the caller's thread has its call.
HeldOK ==
  /\ \A k \in Conns : th[k] \in Busy => req[k] # 0
  /\ pc \in {"send", "wait"} => call # 0
  /\ pc = "wait" => cur # 0

\* A connection that has not been made carries nothing.
Fresh == \A k \in Conns : k > conns => Quiet(k) /\ \A c \in Calls : k \notin sent[c]

\* The socket is the caller's only one, quiet between two calls; during a call
\* it carries that call's request or that call's reply, never both.
OneExchange ==
  /\ pc \in {"connect", "dead"} => cur = 0
  /\ pc \in {"idle", "send"} /\ cur # 0 => Quiet(cur)
  /\ pc = "wait" => /\ req[cur] \in {0, call} /\ rep[cur].of \in {0, call}
                    /\ req[cur] # 0 => rep[cur] = NoReply

\* What the model ran: a thread runs its own request, and a result was run.
Honest ==
  /\ \A k \in Conns : th[k] = "run" => <<req[k], k>> \in ran
  /\ \A k \in Conns : rep[k].kind = "res" => \E j \in Conns : <<rep[k].of, j>> \in ran
  /\ \A c \in Calls : answer[c].of \in {0, c}
  /\ \A c \in Calls : answer[c].kind = "res" => \E j \in Conns : <<c, j>> \in ran

\* A request is only found where the call was sent.
Sent ==
  /\ \A k \in Conns : req[k] # 0 => k \in sent[req[k]]
  /\ \A c \in Calls, k \in Conns : <<c, k>> \in ran => k \in sent[c]

\* How often a call has been sent, by where the caller is.
Twice ==
  /\ \A c \in Calls : c > call => sent[c] = {}
  /\ \A c \in Calls : Cardinality(sent[c]) <= 2
  /\ pc = "connect" /\ call # 0 => retried
  /\ pc = "send" /\ ~retried => sent[call] = {}
  /\ call # 0 /\ (pc = "connect" \/ (pc = "send" /\ retried) \/ (pc = "wait" /\ ~retried))
       => Cardinality(sent[call]) <= 1

LEMMA HeldStep == TypeOK /\ HeldOK /\ [Next]_vars => TypeOK' /\ HeldOK'
<1> SUFFICES ASSUME TypeOK, HeldOK, [Next]_vars PROVE TypeOK' /\ HeldOK'
  OBVIOUS
<1>1. CASE Connect
  <2>1. conns + 1 \in Conns /\ conns' = conns + 1 /\ cur' = conns + 1
    BY <1>1 DEF Connect
  <2>2. /\ cur' \in 0..conns' /\ conns' \in 0..(MaxCalls + 1) BY <2>1 DEF TypeOK, Conns
  <2>3. th' \in [Conns -> {"none", "backlog", "recv", "run", "error", "gone"}]
    BY <1>1 DEF Connect, TypeOK
  <2>4. open' \in [Conns -> BOOLEAN] BY <1>1 DEF Connect, TypeOK
  <2>5. pc' \in {"idle", "send"} /\ (pc' = "send" => call # 0) BY <1>1 DEF Connect
  <2>6. UNCHANGED <<call, retried, tries, answer, stage, ran, req, rep, skew, sent>>
    BY <1>1 DEF Connect
  <2>7. \A k \in Conns : th'[k] \in Busy => th[k] = th'[k]
    BY <1>1 DEF Connect, TypeOK, Busy
  <2>8. TypeOK' BY <2>2, <2>3, <2>4, <2>5, <2>6 DEF TypeOK
  <2>9. \A k \in Conns : th'[k] \in Busy => req'[k] # 0 BY <2>6, <2>7 DEF HeldOK
  <2> QED BY <2>5, <2>6, <2>8, <2>9 DEF HeldOK
<1>2. CASE ConnectFails
  <2>1. tries' \in 0..(MaxTries - 1) BY <1>2 DEF ConnectFails, TypeOK
  <2>2. pc' \in {"connect", "dead", "idle"} BY <1>2 DEF ConnectFails
  <2>3. answer' \in [Calls -> Replies \cup {NoReply, Raised}]
    BY <1>2 DEF ConnectFails, TypeOK
  <2>4. UNCHANGED <<call, retried, cur, conns, stage, th, ran, req, rep, open, skew, sent>>
    BY <1>2 DEF ConnectFails, server, wire
  <2>5. TypeOK' BY <2>1, <2>2, <2>3, <2>4 DEF TypeOK
  <2> QED BY <2>2, <2>4, <2>5 DEF HeldOK
<1>3. CASE Call
  <2>1. /\ pc' = "send" /\ call' \in 0..MaxCalls /\ call' # 0
    BY <1>3 DEF Call, TypeOK
  <2>3. retried' \in BOOLEAN BY <1>3 DEF Call
  <2>2. UNCHANGED <<tries, cur, answer, conns, stage, th, ran, req, rep, open, skew, sent>>
    BY <1>3 DEF Call, server, wire
  <2> QED BY <2>1, <2>2, <2>3 DEF TypeOK, HeldOK
<1>4. CASE Send
  <2>1. call \in Calls /\ call # 0 /\ cur # 0 /\ pc' = "wait"
    BY <1>4 DEF Send, TypeOK, HeldOK, Calls
  <2>2. UNCHANGED <<call, retried, tries, cur, answer, conns, stage, th, ran, rep, open, skew>>
    BY <1>4 DEF Send, server
  <2>3. req' \in [Conns -> 0..MaxCalls] BY <1>4, <2>1 DEF Send, TypeOK, Calls
  <2>4. \A k \in Conns : req[k] # 0 => req'[k] # 0 BY <1>4, <2>1 DEF Send, TypeOK
  <2>5. sent' \in [Calls -> SUBSET Conns]
    <3>1. cur \in Conns BY <2>1 DEF TypeOK, Conns
    <3>2. sent' = [sent EXCEPT ![call] = @ \cup {cur}] BY <1>4 DEF Send
    <3> QED BY <2>1, <3>1, <3>2 DEF TypeOK
  <2> QED BY <2>1, <2>2, <2>3, <2>4, <2>5 DEF TypeOK, HeldOK
<1>5. CASE NoSocket
  <2>1. Broken /\ pc \in {"send", "wait"} BY <1>5 DEF NoSocket
  <2>2. call \in Calls BY <2>1 DEF TypeOK, HeldOK, Calls
  <2>3. answer' \in [Calls -> Replies \cup {NoReply, Raised}]
    BY <2>1, <2>2 DEF Broken, TypeOK
  <2>4. open' \in [Conns -> BOOLEAN] BY <2>1 DEF Broken, TypeOK
  <2>7. cur' = 0 /\ pc' \in {"connect", "idle"} BY <2>1 DEF Broken
  <2>8. tries' \in 0..(MaxTries - 1)
    <3>1. 0 \in 0..(MaxTries - 1) OBVIOUS
    <3>2. tries' = tries \/ tries' = 0 BY <2>1 DEF Broken
    <3> QED BY <3>1, <3>2 DEF TypeOK
  <2>6. retried' \in BOOLEAN BY <2>1 DEF Broken, TypeOK
  <2>5. UNCHANGED <<call, conns, stage, th, ran, req, rep, skew, sent>>
    BY <2>1 DEF Broken, server
  <2> QED BY <2>3, <2>4, <2>5, <2>6, <2>7, <2>8 DEF TypeOK, HeldOK
<1>6. CASE Lose
  <2>1. Broken /\ pc \in {"send", "wait"} BY <1>6 DEF Lose
  <2>2. call \in Calls BY <2>1 DEF TypeOK, HeldOK, Calls
  <2>3. answer' \in [Calls -> Replies \cup {NoReply, Raised}]
    BY <2>1, <2>2 DEF Broken, TypeOK
  <2>4. open' \in [Conns -> BOOLEAN] BY <2>1 DEF Broken, TypeOK
  <2>7. cur' = 0 /\ pc' \in {"connect", "idle"} BY <2>1 DEF Broken
  <2>8. tries' \in 0..(MaxTries - 1)
    <3>1. 0 \in 0..(MaxTries - 1) OBVIOUS
    <3>2. tries' = tries \/ tries' = 0 BY <2>1 DEF Broken
    <3> QED BY <3>1, <3>2 DEF TypeOK
  <2>6. retried' \in BOOLEAN BY <2>1 DEF Broken, TypeOK
  <2>5. UNCHANGED <<call, conns, stage, th, ran, req, rep, skew, sent>>
    BY <2>1 DEF Broken, server
  <2> QED BY <2>3, <2>4, <2>5, <2>6, <2>7, <2>8 DEF TypeOK, HeldOK
<1>7. CASE Receive
  <2>1. call \in Calls BY <1>7 DEF Receive, TypeOK, HeldOK, Calls
  <2>2. cur \in Conns BY <1>7 DEF Receive, TypeOK, HeldOK, Conns
  <2>3. rep[cur] \in Replies \cup {NoReply} BY <2>2 DEF TypeOK
  <2>4. answer' \in [Calls -> Replies \cup {NoReply, Raised}]
    BY <1>7, <2>1, <2>3 DEF Receive, TypeOK
  <2>5. rep' \in [Conns -> Replies \cup {NoReply}] BY <1>7 DEF Receive, TypeOK
  <2>6. pc' = "idle" BY <1>7 DEF Receive
  <2>7. UNCHANGED <<call, retried, tries, cur, conns, stage, th, ran, req, open, skew, sent>>
    BY <1>7 DEF Receive, server
  <2> QED BY <2>4, <2>5, <2>6, <2>7 DEF TypeOK, HeldOK
<1>8. CASE ReceiveNumber
  <2>1. answer' \in [Calls -> Replies \cup {NoReply, Raised}]
    BY <1>8 DEF ReceiveNumber, TypeOK
  <2>2. rep' \in [Conns -> Replies \cup {NoReply}] BY <1>8 DEF ReceiveNumber, TypeOK
  <2>3. skew' \in [Conns -> BOOLEAN] BY <1>8 DEF ReceiveNumber, TypeOK
  <2>4. pc' = "idle" BY <1>8 DEF ReceiveNumber
  <2>5. UNCHANGED <<call, retried, tries, cur, conns, stage, th, ran, req, open, sent>>
    BY <1>8 DEF ReceiveNumber, server
  <2> QED BY <2>1, <2>2, <2>3, <2>4, <2>5 DEF TypeOK, HeldOK
<1>9. CASE Close
  <2>1. open' \in [Conns -> BOOLEAN] BY <1>9 DEF Close, TypeOK
  <2>2. cur' \in 0..conns /\ pc' = "idle" BY <1>9 DEF Close, TypeOK
  <2>3. UNCHANGED <<call, retried, tries, answer, conns, stage, th, ran, req, rep, skew, sent>>
    BY <1>9 DEF Close, server
  <2> QED BY <2>1, <2>2, <2>3 DEF TypeOK, HeldOK
<1>10. CASE AcceptFails
  <2>1. stage' = "deaf" /\ UNCHANGED <<client, conns, th, ran, wire>> BY <1>10 DEF AcceptFails
  <2> QED BY <2>1 DEF TypeOK, HeldOK, client, wire
<1>11. CASE Stop
  <2>1. /\ stage' = "stopping" /\ UNCHANGED <<client, conns, ran, wire>>
        /\ th' = [k \in Conns |-> IF th[k] = "backlog" THEN "gone" ELSE th[k]]
    BY <1>11 DEF Stop
  <2>2. th' \in [Conns -> {"none", "backlog", "recv", "run", "error", "gone"}]
    BY <2>1 DEF TypeOK
  <2>3. \A k \in Conns : th'[k] \in Busy => th[k] \in Busy BY <2>1 DEF Busy
  <2> QED BY <2>1, <2>2, <2>3 DEF TypeOK, HeldOK, client, wire
<1>12. CASE Exit
  BY <1>12 DEF Exit, TypeOK, HeldOK, Busy, client
<1>13. ASSUME NEW k \in Conns, Accept(k) PROVE TypeOK' /\ HeldOK'
  BY <1>13 DEF Accept, TypeOK, HeldOK, Busy, client, wire
<1>14. ASSUME NEW k \in Conns, Run(k) PROVE TypeOK' /\ HeldOK'
  BY <1>14 DEF Run, TypeOK, HeldOK, Calls, client, wire
<1>15. ASSUME NEW k \in Conns, Raise(k) PROVE TypeOK' /\ HeldOK'
  BY <1>15 DEF Raise, TypeOK, HeldOK, client, wire
<1>16. ASSUME NEW k \in Conns, Finish(k) PROVE TypeOK' /\ HeldOK'
  BY <1>16 DEF Finish, Answer, TypeOK, HeldOK, Busy, Calls, Replies, client
<1>17. ASSUME NEW k \in Conns, SendError(k) PROVE TypeOK' /\ HeldOK'
  BY <1>17 DEF SendError, Answer, TypeOK, HeldOK, Busy, Calls, Replies, client
<1>18. ASSUME NEW k \in Conns, Eof(k) PROVE TypeOK' /\ HeldOK'
  BY <1>18 DEF Eof, TypeOK, HeldOK, Busy, client, wire
<1>19. ASSUME NEW k \in Conns, Reset(k) PROVE TypeOK' /\ HeldOK'
  BY <1>19 DEF Reset, TypeOK, HeldOK, Busy, client, server
<1>20. CASE UNCHANGED vars
  BY <1>20 DEF vars, TypeOK, HeldOK, client, server, wire
<1> QED BY <1>1, <1>2, <1>3, <1>4, <1>5, <1>6, <1>7, <1>8, <1>9, <1>10, <1>11, <1>12, <1>13, <1>14, <1>15, <1>16, <1>17, <1>18, <1>19, <1>20 DEF Next, ClientStep, ThreadStep

LEMMA ExchangeStep ==
  TypeOK /\ HeldOK /\ Fresh /\ OneExchange /\ [Next]_vars => Fresh' /\ OneExchange'
<1> SUFFICES ASSUME TypeOK, HeldOK, Fresh, OneExchange, [Next]_vars
             PROVE  Fresh' /\ OneExchange'
  OBVIOUS
<1>1. CASE Connect
  BY <1>1 DEF Connect, TypeOK, Fresh, OneExchange, Quiet, Busy, Conns
<1>2. CASE ConnectFails
  BY <1>2 DEF ConnectFails, Fresh, OneExchange, Quiet, server, wire
<1>3. CASE Call
  BY <1>3 DEF Call, Fresh, OneExchange, Quiet, server, wire
<1>4. CASE Send
  BY <1>4 DEF Send, TypeOK, Fresh, OneExchange, Quiet, NoReply, server
<1>5. CASE NoSocket
  BY <1>5 DEF NoSocket, Broken, Fresh, OneExchange, Quiet, server
<1>6. CASE Lose
  BY <1>6 DEF Lose, Broken, Fresh, OneExchange, Quiet, server
<1>7. CASE Receive
  BY <1>7 DEF Receive, TypeOK, HeldOK, Fresh, OneExchange, Quiet, Conns, server
<1>8. CASE ReceiveNumber
  BY <1>8 DEF ReceiveNumber, TypeOK, HeldOK, Fresh, OneExchange, Quiet, Conns, server
<1>9. CASE Close
  BY <1>9 DEF Close, Fresh, OneExchange, Quiet, server
<1>10. CASE AcceptFails
  BY <1>10 DEF AcceptFails, Fresh, OneExchange, Quiet, client, wire
<1>11. CASE Stop
  BY <1>11 DEF Stop, TypeOK, Fresh, OneExchange, Quiet, Busy, Conns, client, wire
<1>12. CASE Exit
  BY <1>12 DEF Exit, TypeOK, HeldOK, Fresh, OneExchange, Quiet, Busy, Conns, client
<1>13. ASSUME NEW k \in Conns, Accept(k) PROVE Fresh' /\ OneExchange'
  BY <1>13 DEF Accept, Fresh, OneExchange, Quiet, Busy, client, wire
<1>14. ASSUME NEW k \in Conns, Run(k) PROVE Fresh' /\ OneExchange'
  BY <1>14 DEF Run, Fresh, OneExchange, Quiet, client, wire
<1>15. ASSUME NEW k \in Conns, Raise(k) PROVE Fresh' /\ OneExchange'
  BY <1>15 DEF Raise, Fresh, OneExchange, Quiet, client, wire
<1>16. ASSUME NEW k \in Conns, Finish(k) PROVE Fresh' /\ OneExchange'
  BY <1>16 DEF Finish, Answer, TypeOK, HeldOK, Fresh, OneExchange, Quiet, Busy, client
<1>17. ASSUME NEW k \in Conns, SendError(k) PROVE Fresh' /\ OneExchange'
  BY <1>17 DEF SendError, Answer, TypeOK, HeldOK, Fresh, OneExchange, Quiet, Busy, client
<1>18. ASSUME NEW k \in Conns, Eof(k) PROVE Fresh' /\ OneExchange'
  BY <1>18 DEF Eof, Fresh, OneExchange, Quiet, Busy, client, wire
<1>19. ASSUME NEW k \in Conns, Reset(k) PROVE Fresh' /\ OneExchange'
  BY <1>19 DEF Reset, Fresh, OneExchange, Quiet, NoReply, client, server
<1>20. CASE UNCHANGED vars
  BY <1>20 DEF vars, Fresh, OneExchange, Quiet, client, server, wire
<1> QED BY <1>1, <1>2, <1>3, <1>4, <1>5, <1>6, <1>7, <1>8, <1>9, <1>10, <1>11, <1>12, <1>13, <1>14, <1>15, <1>16, <1>17, <1>18, <1>19, <1>20 DEF Next, ClientStep, ThreadStep

\* Giving a call up keeps the answers honest.
LEMMA HonestKept ==
  ASSUME Honest, UNCHANGED <<th, ran, req, rep>>,
         \A c \in Calls : answer'[c] \in {answer[c], Raised}
  PROVE  Honest'
<1>1. ASSUME NEW c \in Calls
      PROVE  /\ answer'[c].of \in {0, c}
             /\ answer'[c].kind = "res" => \E j \in Conns : <<c, j>> \in ran
  <2>1. CASE answer'[c] = answer[c] BY <2>1 DEF Honest
  <2>2. CASE answer'[c] = Raised BY <2>2 DEF Raised
  <2> QED BY <2>1, <2>2
<1> QED BY <1>1 DEF Honest

LEMMA HonestStep ==
  TypeOK /\ HeldOK /\ OneExchange /\ Honest /\ [Next]_vars => Honest'
<1> SUFFICES ASSUME TypeOK, HeldOK, OneExchange, Honest, [Next]_vars
             PROVE  Honest'
  OBVIOUS
<1>1. CASE Connect
  BY <1>1 DEF Connect, Honest
<1>2. CASE ConnectFails
  <2>1. UNCHANGED answer \/ answer' = [answer EXCEPT ![call] = Raised]
    BY <1>2 DEF ConnectFails
  <2>2. UNCHANGED <<th, ran, req, rep>> BY <1>2 DEF ConnectFails, server, wire
  <2>3. answer \in [Calls -> Replies \cup {NoReply, Raised}] BY DEF TypeOK
  <2>4. \A c \in Calls : answer'[c] \in {answer[c], Raised} BY <2>1, <2>3
  <2> QED BY <2>2, <2>4, HonestKept
<1>3. CASE Call
  BY <1>3 DEF Call, Honest, server, wire
<1>4. CASE Send
  BY <1>4 DEF Send, Honest, OneExchange, Quiet, Busy, server
<1>5. CASE NoSocket
  <2>1. call \in Calls BY <1>5 DEF NoSocket, TypeOK, HeldOK, Calls
  <2>2. \/ UNCHANGED answer
        \/ answer' = [answer EXCEPT ![call] = Raised]
    BY <1>5 DEF NoSocket, Broken
  <2>3. UNCHANGED <<th, ran, req, rep>> BY <1>5 DEF NoSocket, Broken, server
  <2>4. answer \in [Calls -> Replies \cup {NoReply, Raised}] BY DEF TypeOK
  <2>5. \A c \in Calls : answer'[c] \in {answer[c], Raised} BY <2>1, <2>2, <2>4
  <2> QED BY <2>3, <2>5, HonestKept
<1>6. CASE Lose
  <2>1. call \in Calls BY <1>6 DEF Lose, TypeOK, HeldOK, Calls
  <2>2. \/ UNCHANGED answer
        \/ answer' = [answer EXCEPT ![call] = Raised]
    BY <1>6 DEF Lose, Broken
  <2>3. UNCHANGED <<th, ran, req, rep>> BY <1>6 DEF Lose, Broken, server
  <2>4. answer \in [Calls -> Replies \cup {NoReply, Raised}] BY DEF TypeOK
  <2>5. \A c \in Calls : answer'[c] \in {answer[c], Raised} BY <2>1, <2>2, <2>4
  <2> QED BY <2>3, <2>5, HonestKept
<1>7. CASE Receive
  <2>1. call \in Calls /\ cur \in Conns
    BY <1>7 DEF Receive, TypeOK, HeldOK, Calls, Conns
  <2>2. answer' = [answer EXCEPT ![call] = rep[cur]] /\ rep' = [rep EXCEPT ![cur] = NoReply]
    BY <1>7 DEF Receive
  <2>3. UNCHANGED <<th, ran, req>> BY <1>7 DEF Receive, server
  <2>4. rep[cur].of \in {0, call} /\ rep[cur] # NoReply
    BY <1>7 DEF Receive, OneExchange
  <2>5. rep[cur] \in Replies BY <2>1, <2>4 DEF TypeOK
  <2>6. rep[cur].of = call BY <2>4, <2>5 DEF Replies, Calls
  <2>7. /\ \A c \in Calls : answer'[c] = IF c = call THEN rep[cur] ELSE answer[c]
        /\ \A k \in Conns : rep'[k] = IF k = cur THEN NoReply ELSE rep[k]
    BY <2>1, <2>2 DEF TypeOK
  <2>8. NoReply.kind # "res" BY DEF NoReply
  <2>9. \A c \in Calls : /\ answer'[c].of \in {0, c}
                         /\ answer'[c].kind = "res" => \E j \in Conns : <<c, j>> \in ran
    BY <2>1, <2>6, <2>7 DEF Honest
  <2>10. \A k \in Conns : rep'[k].kind = "res" => \E j \in Conns : <<rep'[k].of, j>> \in ran
    BY <2>7, <2>8 DEF Honest
  <2> QED BY <2>3, <2>9, <2>10 DEF Honest
<1>8. CASE ReceiveNumber
  BY <1>8 DEF ReceiveNumber, Honest, NoReply, Raised, server
<1>9. CASE Close
  BY <1>9 DEF Close, Honest, server
<1>10. CASE AcceptFails
  BY <1>10 DEF AcceptFails, Honest, client, wire
<1>11. CASE Stop
  BY <1>11 DEF Stop, Honest, client, wire
<1>12. CASE Exit
  BY <1>12 DEF Exit, Honest, client
<1>13. ASSUME NEW k \in Conns, Accept(k) PROVE Honest'
  BY <1>13 DEF Accept, Honest, client, wire
<1>14. ASSUME NEW k \in Conns, Run(k) PROVE Honest'
  BY <1>14 DEF Run, TypeOK, Honest, client, wire
<1>15. ASSUME NEW k \in Conns, Raise(k) PROVE Honest'
  BY <1>15 DEF Raise, Honest, client, wire
<1>16. ASSUME NEW k \in Conns, Finish(k) PROVE Honest'
  BY <1>16 DEF Finish, Answer, TypeOK, Honest, NoReply, client
<1>17. ASSUME NEW k \in Conns, SendError(k) PROVE Honest'
  BY <1>17 DEF SendError, Answer, Honest, NoReply, client
<1>18. ASSUME NEW k \in Conns, Eof(k) PROVE Honest'
  BY <1>18 DEF Eof, HeldOK, Honest, client, wire
<1>19. ASSUME NEW k \in Conns, Reset(k) PROVE Honest'
  BY <1>19 DEF Reset, TypeOK, Honest, NoReply, client, server
<1>20. CASE UNCHANGED vars
  BY <1>20 DEF vars, Honest, client, server, wire
<1> QED BY <1>1, <1>2, <1>3, <1>4, <1>5, <1>6, <1>7, <1>8, <1>9, <1>10, <1>11, <1>12, <1>13, <1>14, <1>15, <1>16, <1>17, <1>18, <1>19, <1>20 DEF Next, ClientStep, ThreadStep

LEMMA SentStep == TypeOK /\ HeldOK /\ Sent /\ [Next]_vars => Sent'
<1> SUFFICES ASSUME TypeOK, HeldOK, Sent, [Next]_vars PROVE Sent'
  OBVIOUS
<1>1. CASE Connect
  BY <1>1 DEF Connect, Sent
<1>2. CASE ConnectFails
  BY <1>2 DEF ConnectFails, Sent, server, wire
<1>3. CASE Call
  BY <1>3 DEF Call, Sent, server, wire
<1>4. CASE Send
  BY <1>4 DEF Send, TypeOK, Sent, Calls, server
<1>5. CASE NoSocket
  BY <1>5 DEF NoSocket, Broken, Sent, server
<1>6. CASE Lose
  BY <1>6 DEF Lose, Broken, Sent, server
<1>7. CASE Receive
  BY <1>7 DEF Receive, Sent, server
<1>8. CASE ReceiveNumber
  BY <1>8 DEF ReceiveNumber, Sent, server
<1>9. CASE Close
  BY <1>9 DEF Close, Sent, server
<1>10. CASE AcceptFails
  BY <1>10 DEF AcceptFails, Sent, wire
<1>11. CASE Stop
  BY <1>11 DEF Stop, Sent, wire
<1>12. CASE Exit
  BY <1>12 DEF Exit, Sent
<1>13. ASSUME NEW k \in Conns, Accept(k) PROVE Sent'
  BY <1>13 DEF Accept, Sent, wire
<1>14. ASSUME NEW k \in Conns, Run(k) PROVE Sent'
  BY <1>14 DEF Run, Sent, wire
<1>15. ASSUME NEW k \in Conns, Raise(k) PROVE Sent'
  BY <1>15 DEF Raise, Sent, wire
<1>16. ASSUME NEW k \in Conns, Finish(k) PROVE Sent'
  BY <1>16 DEF Finish, Sent
<1>17. ASSUME NEW k \in Conns, SendError(k) PROVE Sent'
  BY <1>17 DEF SendError, Sent
<1>18. ASSUME NEW k \in Conns, Eof(k) PROVE Sent'
  BY <1>18 DEF Eof, Sent, wire
<1>19. ASSUME NEW k \in Conns, Reset(k) PROVE Sent'
  BY <1>19 DEF Reset, Sent, server
<1>20. CASE UNCHANGED vars
  BY <1>20 DEF vars, Sent, server, wire
<1> QED BY <1>1, <1>2, <1>3, <1>4, <1>5, <1>6, <1>7, <1>8, <1>9, <1>10, <1>11, <1>12, <1>13, <1>14, <1>15, <1>16, <1>17, <1>18, <1>19, <1>20 DEF Next, ClientStep, ThreadStep

\* Sending a call on one more connection adds at most one to the count.
LEMMA SendCount ==
  ASSUME NEW S \in SUBSET Conns, NEW k \in Conns
  PROVE  /\ Cardinality(S) \in Nat /\ Cardinality({}) = 0
         /\ Cardinality(S \cup {k}) \in Nat
         /\ Cardinality(S \cup {k}) <= Cardinality(S) + 1
<1>1. IsFiniteSet(Conns)
  <2>1. 1 \in Int /\ MaxCalls + 1 \in Int OBVIOUS
  <2> QED BY <2>1, FS_Interval DEF Conns
<1>2. IsFiniteSet(S) BY <1>1, FS_Subset
<1>3. Cardinality(S) \in Nat BY <1>2, FS_CardinalityType
<1>4. \/ Cardinality(S \cup {k}) = Cardinality(S)
      \/ Cardinality(S \cup {k}) = Cardinality(S) + 1
  BY <1>2, FS_AddElement
<1>5. Cardinality({}) = 0 BY FS_EmptySet
<1> QED BY <1>3, <1>4, <1>5

LEMMA TwiceStep == TypeOK /\ HeldOK /\ OneExchange /\ Twice /\ [Next]_vars => Twice'
<1> SUFFICES ASSUME TypeOK, HeldOK, OneExchange, Twice, [Next]_vars PROVE Twice'
  OBVIOUS
<1>1. CASE Connect
  BY <1>1 DEF Connect, Twice
<1>2. CASE ConnectFails
  BY <1>2 DEF ConnectFails, Twice, wire
<1>3. CASE Call
  BY <1>3 DEF Call, TypeOK, Twice, Calls, wire
<1>4. CASE Send
  <2>1. /\ call \in Calls /\ cur \in Conns /\ pc = "send" /\ pc' = "wait"
        /\ sent' = [sent EXCEPT ![call] = @ \cup {cur}] /\ UNCHANGED <<call, retried>>
    BY <1>4 DEF Send, TypeOK, HeldOK, Calls, Conns
  <2>2. \A c \in Calls : sent'[c] = IF c = call THEN sent[call] \cup {cur} ELSE sent[c]
    BY <2>1 DEF TypeOK
  <2>3. /\ Cardinality(sent[call]) \in Nat /\ Cardinality({}) = 0
        /\ Cardinality(sent[call] \cup {cur}) \in Nat
        /\ Cardinality(sent[call] \cup {cur}) <= Cardinality(sent[call]) + 1
    BY <2>1, SendCount DEF TypeOK
  <2>4. /\ retried => Cardinality(sent[call]) <= 1
        /\ ~retried => sent[call] = {}
    BY <2>1 DEF Twice, Calls
  <2>5. /\ Cardinality(sent'[call]) <= 2
        /\ ~retried => Cardinality(sent'[call]) <= 1
    <3>1. sent'[call] = sent[call] \cup {cur} BY <2>1, <2>2
    <3>2. CASE retried BY <2>3, <2>4, <3>1, <3>2
    <3>3. CASE ~retried
      <4>1. Cardinality(sent[call]) = 0 BY <2>3, <2>4, <3>3
      <4> QED BY <2>3, <3>1, <3>3, <4>1
    <3> QED BY <3>2, <3>3
  <2>6. call \in Nat /\ \A c \in Calls : c \in Nat BY <2>1 DEF Calls
  <2> QED BY <2>1, <2>2, <2>5, <2>6 DEF Twice
<1>5. CASE NoSocket
  <2>1. /\ call \in Calls /\ pc = "send" /\ Broken /\ UNCHANGED <<call, sent>>
    BY <1>5 DEF NoSocket, Broken, TypeOK, HeldOK, Calls
  <2>2. Cardinality({}) = 0 BY FS_EmptySet
  <2>3. pc' \in {"connect", "idle"} /\ (pc' = "connect" => ~retried /\ retried')
    BY <2>1 DEF Broken
  <2>4. ~retried => Cardinality(sent[call]) <= 1 BY <2>1, <2>2 DEF Twice
  <2> QED BY <2>1, <2>3, <2>4 DEF Twice
<1>6. CASE Lose
  BY <1>6 DEF Lose, Broken, Twice
<1>7. CASE Receive
  BY <1>7 DEF Receive, Twice
<1>8. CASE ReceiveNumber
  BY <1>8 DEF ReceiveNumber, Twice
<1>9. CASE Close
  BY <1>9 DEF Close, Twice
<1>10. CASE AcceptFails
  BY <1>10 DEF AcceptFails, Twice, client, wire
<1>11. CASE Stop
  BY <1>11 DEF Stop, Twice, client, wire
<1>12. CASE Exit
  BY <1>12 DEF Exit, Twice, client
<1>13. ASSUME NEW k \in Conns, Accept(k) PROVE Twice'
  BY <1>13 DEF Accept, Twice, client, wire
<1>14. ASSUME NEW k \in Conns, Run(k) PROVE Twice'
  BY <1>14 DEF Run, Twice, client, wire
<1>15. ASSUME NEW k \in Conns, Raise(k) PROVE Twice'
  BY <1>15 DEF Raise, Twice, client, wire
<1>16. ASSUME NEW k \in Conns, Finish(k) PROVE Twice'
  BY <1>16 DEF Finish, Twice, client
<1>17. ASSUME NEW k \in Conns, SendError(k) PROVE Twice'
  BY <1>17 DEF SendError, Twice, client
<1>18. ASSUME NEW k \in Conns, Eof(k) PROVE Twice'
  BY <1>18 DEF Eof, Twice, client, wire
<1>19. ASSUME NEW k \in Conns, Reset(k) PROVE Twice'
  BY <1>19 DEF Reset, Twice, client
<1>20. CASE UNCHANGED vars
  BY <1>20 DEF vars, Twice, client, wire
<1> QED BY <1>1, <1>2, <1>3, <1>4, <1>5, <1>6, <1>7, <1>8, <1>9, <1>10, <1>11, <1>12, <1>13, <1>14, <1>15, <1>16, <1>17, <1>18, <1>19, <1>20 DEF Next, ClientStep, ThreadStep

-----------------------------------------------------------------------------
TcpInv == TypeOK /\ HeldOK /\ Fresh /\ OneExchange /\ Honest /\ Sent /\ Twice

THEOREM TcpInvariant == Spec => []TcpInv
<1>1. Init => TcpInv
  <2> SUFFICES ASSUME Init PROVE TcpInv
    OBVIOUS
  <2>1. Cardinality({}) = 0 BY FS_EmptySet
  <2> QED
    <3>1. Init => TypeOK /\ HeldOK
      <4>1. Init => /\ call = 0 /\ retried = FALSE /\ tries = 0 /\ cur = 0 /\ conns = 0
                    /\ pc = "connect" /\ stage = "up" /\ ran = {} /\ answer = [c \in Calls |-> NoReply]
                    /\ th = [k \in Conns |-> "none"]
        BY DEF Init
      <4>2. Init => /\ req = [k \in Conns |-> 0] /\ rep = [k \in Conns |-> NoReply]
                    /\ open = [k \in Conns |-> FALSE] /\ skew = [k \in Conns |-> FALSE]
                    /\ sent = [c \in Calls |-> {}]
        BY DEF Init
      <4>3. Init => tries \in 0..(MaxTries - 1) BY <4>1
      <4>4. Init => HeldOK BY <4>1 DEF HeldOK, Busy
      <4>5. Init => /\ th \in [Conns -> {"none", "backlog", "recv", "run", "error", "gone"}]
                    /\ answer \in [Calls -> Replies \cup {NoReply, Raised}]
        BY <4>1
      <4>6. Init => /\ req \in [Conns -> 0..MaxCalls] /\ rep \in [Conns -> Replies \cup {NoReply}]
                    /\ sent \in [Calls -> SUBSET Conns]
        BY <4>2
      <4>7. Init => open \in [Conns -> BOOLEAN] /\ skew \in [Conns -> BOOLEAN] BY <4>2
      <4>8. Init => /\ call \in 0..MaxCalls /\ cur \in 0..conns /\ conns \in 0..(MaxCalls + 1)
                    /\ ran \subseteq Calls \X Conns
        BY <4>1
      <4>9. Init => retried \in BOOLEAN BY <4>1
      <4> QED BY <4>1, <4>3, <4>4, <4>5, <4>6, <4>7, <4>8, <4>9 DEF TypeOK
    <3>2. Init => Fresh /\ OneExchange BY DEF Init, Fresh, OneExchange, Quiet, Busy, Conns
    <3>3. Init => Honest /\ Sent BY DEF Init, Honest, Sent, NoReply, Calls, Conns
    <3>4. Init => Twice BY <2>1 DEF Init, Twice, Calls
    <3> QED BY <3>1, <3>2, <3>3, <3>4 DEF TcpInv
<1>2. TcpInv /\ [Next]_vars => TcpInv'
  BY HeldStep, ExchangeStep, HonestStep, SentStep, TwiceStep DEF TcpInv
<1> QED BY <1>1, <1>2, PTL DEF Spec

\* Every reachable state is well typed; in particular _connect() never makes
\* more than CONNECT_MAX_ATTEMPTS attempts.
THEOREM TcpTypeCorrect == Spec => []TypeOK
<1>1. TcpInv => TypeOK BY DEF TcpInv
<1> QED BY <1>1, TcpInvariant, PTL

\* call() returns the reply to its own call, and a value means the model ran it,
\* although requests and replies carry no identifier.
THEOREM OwnAnswerCorrect == Spec => []OwnAnswer
<1>1. TcpInv => OwnAnswer
  BY DEF TcpInv, Honest, OwnAnswer, RunsOf
<1> QED BY <1>1, TcpInvariant, PTL

\* The retry without an identifier runs a call at most twice, never more.
THEOREM AtMostTwiceCorrect == Spec => []AtMostTwice
<1>1. TcpInv => AtMostTwice
  <2> SUFFICES ASSUME TcpInv, NEW c \in Calls PROVE Cardinality(RunsOf(c)) <= 2
    BY DEF AtMostTwice
  <2>1. RunsOf(c) \subseteq sent[c] BY DEF RunsOf, TcpInv, Sent
  <2>2. sent[c] \subseteq Conns BY DEF TcpInv, TypeOK
  <2>3. IsFiniteSet(Conns)
    <3>1. 1 \in Int /\ MaxCalls + 1 \in Int OBVIOUS
    <3> QED BY <3>1, FS_Interval DEF Conns
  <2>4. IsFiniteSet(sent[c]) BY <2>2, <2>3, FS_Subset
  <2>5. /\ Cardinality(RunsOf(c)) <= Cardinality(sent[c])
        /\ IsFiniteSet(RunsOf(c))
    BY <2>1, <2>4, FS_Subset
  <2>6. Cardinality(sent[c]) <= 2 BY DEF TcpInv, Twice
  <2>7. Cardinality(sent[c]) \in Nat /\ Cardinality(RunsOf(c)) \in Nat
    BY <2>4, <2>5, FS_CardinalityType
  <2> QED BY <2>5, <2>6, <2>7
<1> QED BY <1>1, TcpInvariant, PTL
=============================================================================
