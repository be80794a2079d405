-------------------------------- MODULE TcpPair --------------------------------
(***************************************************************************)
(* The legacy TCP pair: one ModelClient (client_server/tcp/model_client.py) *)
(* and the ModelServer it talks to (client_server/tcp/model_server.py).     *)
(*                                                                         *)
(* The server runs one thread per connection, with no lock around the       *)
(* model, so a connection the client gave up on keeps running beside the    *)
(* one that replaced it.  Requests carry no identifier: what ties a reply   *)
(* to a call is only that a connection never holds more than one of them.   *)
(***************************************************************************)
EXTENDS Naturals, FiniteSets

CONSTANTS MaxCalls,   \* calls the environment makes (bound)
          MaxTries    \* CONNECT_MAX_ATTEMPTS, 180 in the code

ASSUME CallsAssumption == MaxCalls \in Nat
ASSUME TriesAssumption == MaxTries \in Nat \ {0}

Calls == 1..MaxCalls
Conns == 1..(MaxCalls + 1)   \* the constructor's, and one for each retry

NoReply == [kind |-> "none", of |-> 0]
Replies == [kind : {"res", "error"}, of : Calls]
Raised == [kind |-> "raised", of |-> 0]

VARIABLES
  pc,      \* the caller's thread: "connect", "idle", "send", "wait", "dead"
  call,    \* the call it makes, 0 while the constructor connects
  retried, \* _reconnect_attempted
  tries,   \* failed attempts of the running _connect()
  cur,     \* the connection behind self.sock, 0 for None
  answer,  \* what each call returned or raised, NoReply while it has not
  conns,   \* connections made so far
  stage,   \* the server: "up", "deaf" (accept loop over), "stopping", "down"
  th,      \* each connection's thread on the server
  req,     \* the request on a connection the server has not answered, or 0
  rep,     \* the reply on its way on a connection
  open,    \* neither end closed it nor did it break
  skew,    \* the client read only part of a header from it
  sent,    \* history: the connections each call was sent on
  ran      \* history: which call was run for which connection

client == <<pc, call, retried, tries, cur, answer>>
server == <<stage, th, ran>>
wire == <<req, rep, open, skew, sent>>
vars == <<client, conns, server, wire>>

TypeOK ==
  /\ pc \in {"connect", "idle", "send", "wait", "dead"}
  /\ call \in 0..MaxCalls /\ retried \in BOOLEAN /\ tries \in 0..(MaxTries - 1)
  /\ cur \in 0..conns /\ conns \in 0..(MaxCalls + 1)
  /\ answer \in [Calls -> Replies \cup {NoReply, Raised}]
  /\ stage \in {"up", "deaf", "stopping", "down"}
  /\ th \in [Conns -> {"none", "backlog", "recv", "run", "error", "gone"}]
  /\ req \in [Conns -> 0..MaxCalls]
  /\ rep \in [Conns -> Replies \cup {NoReply}]
  /\ open \in [Conns -> BOOLEAN] /\ skew \in [Conns -> BOOLEAN]
  /\ sent \in [Calls -> SUBSET Conns]
  /\ ran \subseteq Calls \X Conns

Init ==
  /\ pc = "connect" /\ call = 0 /\ retried = FALSE /\ tries = 0 /\ cur = 0
  /\ answer = [c \in Calls |-> NoReply] /\ conns = 0
  /\ stage = "up" /\ th = [k \in Conns |-> "none"]
  /\ req = [k \in Conns |-> 0] /\ rep = [k \in Conns |-> NoReply]
  /\ open = [k \in Conns |-> FALSE] /\ skew = [k \in Conns |-> FALSE]
  /\ sent = [c \in Calls |-> {}] /\ ran = {}

-----------------------------------------------------------------------------
(* The client. *)

\* _connect() gets through: the handshake needs the listening socket only, not
\* the accept loop.  After it, the constructor is done, or call() repeats itself.
Connect ==
  /\ pc = "connect" /\ stage \in {"up", "deaf"}
  /\ LET k == conns + 1
     IN  /\ k \in Conns /\ conns' = k /\ cur' = k
         /\ th' = [th EXCEPT ![k] = "backlog"]
         /\ open' = [open EXCEPT ![k] = TRUE]
  /\ pc' = IF call = 0 THEN "idle" ELSE "send"
  /\ UNCHANGED <<call, retried, tries, answer, stage, ran, req, rep, skew, sent>>

\* An attempt fails.  The last one raises, out of the constructor or of call().
\* (mutant: one attempt too many)
ConnectFailsLate ==
  /\ pc = "connect"
  /\ IF tries < MaxTries
       THEN /\ tries' = tries + 1
            /\ UNCHANGED <<pc, answer>>
       ELSE /\ pc' = IF call = 0 THEN "dead" ELSE "idle"
            /\ answer' = IF call = 0 THEN answer ELSE [answer EXCEPT ![call] = Raised]
            /\ UNCHANGED tries
  /\ UNCHANGED <<call, retried, cur, conns, server, wire>>

ConnectFails ==
  /\ pc = "connect"
  /\ IF tries + 1 < MaxTries
       THEN /\ tries' = tries + 1
            /\ UNCHANGED <<pc, answer>>
       ELSE /\ pc' = IF call = 0 THEN "dead" ELSE "idle"
            /\ answer' = IF call = 0 THEN answer ELSE [answer EXCEPT ![call] = Raised]
            /\ UNCHANGED tries
  /\ UNCHANGED <<call, retried, cur, conns, server, wire>>

\* The environment makes its next call.
Call ==
  /\ pc = "idle" /\ call < MaxCalls
  /\ pc' = "send" /\ call' = call + 1 /\ retried' = FALSE
  /\ UNCHANGED <<tries, cur, answer, conns, server, wire>>

\* The two sendall() of _send_recv.  A connection the server has closed, or that
\* broke, swallows them.
Send ==
  /\ pc = "send" /\ cur # 0
  /\ pc' = "wait"
  /\ req' = IF open[cur] /\ th[cur] # "gone" THEN [req EXCEPT ![cur] = call] ELSE req
  /\ sent' = [sent EXCEPT ![call] = @ \cup {cur}]
  /\ UNCHANGED <<call, retried, tries, cur, answer, conns, server, rep, open, skew>>

\* Any exception inside _send_recv: close(), then one reconnect, then give up.
\* (mutant: _send_recv leaves the socket open)
BrokenKeepsSocket ==
  /\ IF retried THEN /\ pc' = "idle" /\ answer' = [answer EXCEPT ![call] = Raised]
                     /\ UNCHANGED <<retried, tries>>
                ELSE /\ pc' = "connect" /\ retried' = TRUE /\ tries' = 0
                     /\ UNCHANGED answer
  /\ UNCHANGED <<call, conns, server, req, rep, skew, sent, cur, open>>

\* (mutant: call() repeats itself without _reconnect_attempted=True)
BrokenForgetsRetry ==
  /\ open' = IF cur = 0 THEN open ELSE [open EXCEPT ![cur] = FALSE]
  /\ cur' = 0
  /\ IF retried THEN /\ pc' = "idle" /\ answer' = [answer EXCEPT ![call] = Raised]
                     /\ UNCHANGED <<retried, tries>>
                ELSE /\ pc' = "connect" /\ tries' = 0
                     /\ UNCHANGED <<answer, retried>>
  /\ UNCHANGED <<call, conns, server, req, rep, skew, sent>>

Broken ==
  /\ open' = IF cur = 0 THEN open ELSE [open EXCEPT ![cur] = FALSE]
  /\ cur' = 0
  /\ IF retried THEN /\ pc' = "idle" /\ answer' = [answer EXCEPT ![call] = Raised]
                     /\ UNCHANGED <<retried, tries>>
                ELSE /\ pc' = "connect" /\ retried' = TRUE /\ tries' = 0
                     /\ UNCHANGED answer
  /\ UNCHANGED <<call, conns, server, req, rep, skew, sent>>

\* self.sock is None after close() or a call that raised: sendall is an
\* AttributeError, caught like the rest, so the call's first attempt is spent.
NoSocket == pc = "send" /\ cur = 0 /\ Broken

\* A timeout (settimeout in _connect), a reset, the end of the stream, or a
\* reply that does not decode, a short header's among them.
\* (mutant: no timeout on the socket, only a closed connection is noticed)
LoseNeverTimesOut == pc = "wait" /\ (~open[cur] \/ th[cur] = "gone") /\ Broken

Lose == pc = "wait" /\ Broken

\* A whole reply: "res" is returned, {"error": ...} makes call() return None.
Receive ==
  /\ pc = "wait" /\ rep[cur] # NoReply /\ ~skew[cur]
  /\ pc' = "idle"
  /\ answer' = [answer EXCEPT ![call] = rep[cur]]
  /\ rep' = [rep EXCEPT ![cur] = NoReply]
  /\ UNCHANGED <<call, retried, tries, cur, conns, server, req, open, skew, sent>>

\* recv(4) returned part of the header and the bytes it announced spell a bare
\* number: response.keys() raises outside the try, the socket stays.
ReceiveNumber ==
  /\ pc = "wait" /\ rep[cur] # NoReply /\ ~skew[cur]
  /\ pc' = "idle"
  /\ answer' = [answer EXCEPT ![call] = Raised]
  /\ rep' = [rep EXCEPT ![cur] = NoReply]
  /\ skew' = [skew EXCEPT ![cur] = TRUE]
  /\ UNCHANGED <<call, retried, tries, cur, conns, server, req, open, sent>>

\* close(), between two calls.
Close ==
  /\ pc = "idle" /\ cur # 0
  /\ open' = [open EXCEPT ![cur] = FALSE] /\ cur' = 0
  /\ UNCHANGED <<pc, call, retried, tries, answer, conns, server, req, rep, skew, sent>>

-----------------------------------------------------------------------------
(* The server. *)

\* _accept_connections hands the connection to a new thread.
Accept(k) ==
  /\ stage = "up" /\ th[k] = "backlog"
  /\ th' = [th EXCEPT ![k] = "recv"]
  /\ UNCHANGED <<client, conns, stage, ran, wire>>

\* accept() raises anything but a timeout: the loop, and start(), are over, while
\* the main thread sleeps on and the port stays bound.
AcceptFails ==
  /\ stage = "up" /\ stage' = "deaf"
  /\ UNCHANGED <<client, conns, th, ran, wire>>

\* The request is read and decoded and the method called.
Run(k) ==
  /\ th[k] = "recv" /\ req[k] # 0
  /\ th' = [th EXCEPT ![k] = "run"]
  /\ ran' = ran \cup {<<req[k], k>>}
  /\ UNCHANGED <<client, conns, stage, wire>>

\* A short header, an undecodable body, an unknown method; or the method, or
\* turning its result into JSON, raises.
Raise(k) ==
  /\ th[k] \in {"recv", "run"} /\ req[k] # 0
  /\ th' = [th EXCEPT ![k] = "error"]
  /\ UNCHANGED <<client, conns, stage, ran, wire>>

Answer(k, kind) == IF open[k] THEN [kind |-> kind, of |-> req[k]] ELSE NoReply

\* The method returns and the reply is sent; `while self.running` decides.
Finish(k) ==
  /\ th[k] = "run"
  /\ rep' = [rep EXCEPT ![k] = Answer(k, "res")]
  /\ req' = [req EXCEPT ![k] = 0]
  /\ th' = [th EXCEPT ![k] = IF stage \in {"up", "deaf"} THEN "recv" ELSE "gone"]
  /\ UNCHANGED <<client, conns, stage, ran, open, skew, sent>>

\* The generic except: an error reply, then break, which closes the socket.
SendError(k) ==
  /\ th[k] = "error"
  /\ rep' = [rep EXCEPT ![k] = Answer(k, "error")]
  /\ req' = [req EXCEPT ![k] = 0]
  /\ th' = [th EXCEPT ![k] = "gone"]
  /\ UNCHANGED <<client, conns, stage, ran, open, skew, sent>>

\* recv() returns nothing or raises ConnectionResetError: the thread ends.
\* (mutant: `continue` in place of `break`)
EofIgnored(k) ==
  /\ th[k] = "recv" /\ ~open[k] /\ req[k] = 0
  /\ UNCHANGED vars

Eof(k) ==
  /\ th[k] = "recv" /\ ~open[k] /\ req[k] = 0
  /\ th' = [th EXCEPT ![k] = "gone"]
  /\ UNCHANGED <<client, conns, stage, ran, wire>>

\* stop(): the listener is closed, and what it had not accepted with it.
Stop ==
  /\ stage \in {"up", "deaf"} /\ stage' = "stopping"
  /\ th' = [k \in Conns |-> IF th[k] = "backlog" THEN "gone" ELSE th[k]]
  /\ UNCHANGED <<client, conns, ran, wire>>

\* The main thread returns; the connection threads are daemons and die with it.
Exit ==
  /\ stage = "stopping" /\ stage' = "down"
  /\ th' = [k \in Conns |-> IF th[k] = "none" THEN "none" ELSE "gone"]
  /\ req' = [k \in Conns |-> 0]
  /\ UNCHANGED <<client, conns, ran, rep, open, skew, sent>>

\* The network breaks a connection: what was under way on it is lost, except
\* the request its thread has in hand.
Reset(k) ==
  /\ open[k]
  /\ open' = [open EXCEPT ![k] = FALSE]
  /\ rep' = [rep EXCEPT ![k] = NoReply]
  /\ req' = IF th[k] \in {"run", "error"} THEN req ELSE [req EXCEPT ![k] = 0]
  /\ UNCHANGED <<client, conns, server, skew, sent>>

-----------------------------------------------------------------------------
ClientStep ==
  \/ Connect \/ ConnectFails \/ Call \/ Send \/ NoSocket \/ Lose
  \/ Receive \/ ReceiveNumber \/ Close

ThreadStep(k) == Accept(k) \/ Run(k) \/ Raise(k) \/ Finish(k) \/ SendError(k) \/ Eof(k)

Next ==
  \/ ClientStep
  \/ \E k \in Conns : ThreadStep(k) \/ Reset(k)
  \/ AcceptFails \/ Stop \/ Exit

Spec == Init /\ [][Next]_vars

\* Sockets time out, attempts to connect end, threads are scheduled and model
\* methods end; nothing makes the environment call again or the network break.
FairSpec ==
  /\ Spec
  /\ WF_vars(Connect \/ ConnectFails) /\ WF_vars(Send \/ NoSocket) /\ WF_vars(Lose)
  /\ WF_vars(Exit) /\ \A k \in Conns : WF_vars(ThreadStep(k))

-----------------------------------------------------------------------------
RunsOf(c) == {k \in Conns : <<c, k>> \in ran}

\* A call the environment makes once reaches the model at most twice: once for
\* the connection it was sent on and once for the reconnect, whatever breaks.
AtMostTwice == \A c \in Calls : Cardinality(RunsOf(c)) <= 2

\* What call() returns is the reply to that very call, and a value means the
\* model ran it: a reply that comes late is never taken for the next call's.
OwnAnswer ==
  \A c \in Calls : /\ answer[c].of \in {0, c}
                   /\ answer[c].kind = "res" => RunsOf(c) # {}

\* No call hangs, however the server fails: it returns or raises.
CallEnds == pc \in {"connect", "send", "wait"} ~> pc \in {"idle", "dead"}

\* The server does not keep a thread for a connection the client has left,
\* provided it goes on accepting or is stopped.
ThreadsEnd ==
  \A k \in Conns : (th[k] # "none" /\ k # cur)
                     ~> (th[k] = "gone" \/ (stage = "deaf" /\ th[k] = "backlog"))
=============================================================================
