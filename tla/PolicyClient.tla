------------------------------ MODULE PolicyClient ------------------------------
(***************************************************************************)
(* The websocket policy client, client_server/ws/protocol/client.py.        *)
(*                                                                          *)
(* The caller (WsModelClient) runs one request at a time on the client's    *)
(* event loop, but a KeyboardInterrupt makes it abandon the coroutine,      *)
(* which goes on while close() runs.  A request connects when it has no     *)
(* connection, retries once under the same id, and is answered through a    *)
(* future that the receive loop of its connection completes.  An action is  *)
(* the code between two awaits.  The network loses connections, the server  *)
(* answers late, with errors or never, and may be restarted.                *)
(***************************************************************************)
EXTENDS Integers, FiniteSets

CONSTANTS Call,         \* requests, the request id of each being its name
          Conn,         \* connections that may exist at a time
          MaxAttempts,  \* max_connect_attempts
          HasDeadline,  \* whether max_connect_seconds is positive
          MaxRestarts,  \* bound on the server's restarts
          NoConn, NoServer

ASSUME AttemptsAssumption ==
  MaxAttempts \in Nat \ {0} /\ HasDeadline \in BOOLEAN /\ MaxRestarts \in Nat
ASSUME IdsAssumption == Call \cap Conn = {} /\ NoConn \notin Conn
ASSUME ServersAssumption == NoServer \notin Nat

\* A connection carries one HELLO, whose request id is the connection's name.
Ids == Call \cup Conn
Server == 0..MaxRestarts    \* _instance_id of each server process

VARIABLES
  call,       \* the request() coroutine of each call
  abandoned,  \* whether the caller gave up the running request
  closer,     \* close(): "idle", "goodbye" (send_close), "teardown", "done"
  closed,     \* _closed
  ws,         \* _ws
  recvTask,   \* _recv_task, by the connection it reads
  recv,       \* the receive loop of each connection
  pending,    \* the keys of _pending
  fut,        \* the future of each request id
  pinned,     \* _server_instance_id
  net,        \* each connection: "none" or closed, "open", "lost" (unnoticed)
  home,       \* the server process a connection reached
  up, down,   \* frames on the way to the server and to the client
  server      \* the running server process

connVars == <<ws, recvTask, recv>>
futVars  == <<pending, fut>>
netVars  == <<net, home, up, down, server>>
vars == <<call, abandoned, closer, closed, connVars, futVars, pinned, netVars>>

\* `conn` is the connection a coroutine awaits, `tries` connect()'s attempt,
\* `retried` _reconnect_attempted, `entry` whether connect() was called at the
\* entry of request() rather than from its retry.
Fresh(pc) == [pc |-> pc, conn |-> NoConn, tries |-> 0, retried |-> FALSE,
              entry |-> FALSE]

Init ==
  /\ call = [k \in Call |-> Fresh("idle")]
  /\ abandoned = FALSE /\ closed = FALSE
  /\ closer = [pc |-> "idle", conn |-> NoConn]
  /\ ws = NoConn /\ recvTask = NoConn
  /\ recv = [c \in Conn |-> "none"]
  /\ pending = {}
  /\ fut = [i \in Ids |-> "none"]
  /\ pinned = NoServer
  /\ net = [c \in Conn |-> "none"]
  /\ home = [c \in Conn |-> NoServer]
  /\ up = [c \in Conn |-> {}] /\ down = [c \in Conn |-> {}]
  /\ server = 0

-----------------------------------------------------------------------------
(* What the steps share.                                                     *)

Goes(k, pc, c, n, r, e) ==
  call' = [call EXCEPT ![k] = [pc |-> pc, conn |-> c, tries |-> n,
                               retried |-> r, entry |-> e]]
Ends(k, outcome) == call' = [call EXCEPT ![k] = Fresh(outcome)]

\* A request pops its entry and drops its future.
Forget(i) ==
  /\ pending' = pending \ {i}
  /\ fut' = [j \in Ids |-> IF j = i THEN "none" ELSE fut[j]]

\* _fail_pending, by a coroutine that has forgotten i.
FailPending(i) ==
  /\ pending' = {}
  /\ fut' = [j \in Ids |-> IF j = i THEN "none"
                           ELSE IF j \in pending /\ fut[j] = "waiting" THEN "reset"
                           ELSE fut[j]]

\* (mutant: the receive loop of a detached connection is not cancelled)
DetachReading(i) ==
  /\ ws' = NoConn /\ recvTask' = NoConn
  /\ IF ws = NoConn THEN Forget(i) ELSE FailPending(i)
  /\ UNCHANGED recv
\* _reset_connection_state up to its first await: the connection is detached,
\* its futures failed, its receive loop cancelled, for a coroutine that has
\* forgotten i.
Detach(i) ==
  /\ ws' = NoConn /\ recvTask' = NoConn
  /\ recv' = [c \in Conn |-> IF c = recvTask THEN "done" ELSE recv[c]]
  /\ IF ws = NoConn THEN Forget(i) ELSE FailPending(i)

\* The head of connect()'s loop: attempt n.
Dial(k, n, r, e) ==
  IF closed THEN Ends(k, "failed") ELSE Goes(k, "dial", NoConn, n, r, e)

\* (mutant: the second attempt may be retried as well)
SendFailedRetries(k, r) ==
  IF closed
  THEN Ends(k, "failed") /\ Forget(k) /\ UNCHANGED connVars
  ELSE Goes(k, "tearRetry", ws, 0, TRUE, FALSE) /\ Detach(k)
\* (mutant: a failed send is not retried)
SendFailedRaises(k, r) ==
  Ends(k, "failed") /\ Forget(k) /\ UNCHANGED connVars
\* send() raised: the first attempt resets, reconnects and goes round again.
SendFailed(k, r) ==
  IF r \/ closed
  THEN Ends(k, "failed") /\ Forget(k) /\ UNCHANGED connVars
  ELSE Goes(k, "tearRetry", ws, 0, TRUE, FALSE) /\ Detach(k)

\* request() from the encoded frame to the await of send().  A connection that
\* broke after its HELLO was acknowledged has left _ws None.
Submit(k, r) ==
  IF ws = NoConn THEN SendFailed(k, r)
  ELSE /\ Goes(k, "send", ws, 0, r, FALSE)
       /\ pending' = pending \cup {k} /\ fut' = [fut EXCEPT ![k] = "waiting"]
       /\ UNCHANGED connVars

\* request() from its entry.
Request(k, r) ==
  IF ws # NoConn THEN Submit(k, r)
  ELSE Dial(k, 1, r, TRUE) /\ UNCHANGED <<connVars, futVars>>

Active(k) == call[k].pc \notin {"idle", "ok", "failed"}

-----------------------------------------------------------------------------
(* The caller.                                                               *)

Start(k) ==
  /\ call[k].pc = "idle" /\ ~abandoned /\ closer.pc = "idle"
  /\ \A j \in Call : ~Active(j)
  /\ Request(k, FALSE)
  /\ UNCHANGED <<abandoned, closer, closed, pinned, netVars>>

\* KeyboardInterrupt in _run: the coroutine goes on without its caller.
Abandon ==
  /\ ~abandoned /\ \E k \in Call : Active(k)
  /\ abandoned' = TRUE
  /\ UNCHANGED <<call, closer, closed, connVars, futVars, pinned, netVars>>

-----------------------------------------------------------------------------
(* connect().                                                                *)

NeverClosed == FALSE
ClosedDuringConnect == closed

AnyProcess(c) == TRUE
\* _check_server_identity.
SameProcess(c) == pinned \in {NoServer, home[c]}

\* The names of connections that are over are used again.
Unused(c) == /\ net[c] # "open" /\ recv[c] # "running" /\ closer.conn # c
             /\ \A k \in Call : call[k].conn # c

\* The connection is open: its receive loop starts and the HELLO is sent,
\* unless close() ran meanwhile.
Opened(k, c) ==
  /\ call[k].pc = "dial" /\ Unused(c)
  /\ net' = [net EXCEPT ![c] = "open"]
  /\ home' = [home EXCEPT ![c] = server]
  /\ up' = [up EXCEPT ![c] = {}] /\ down' = [down EXCEPT ![c] = {}]
  /\ IF ClosedDuringConnect
     THEN /\ call' = [call EXCEPT ![k].pc = "tearRaise", ![k].conn = c]
          /\ ws' = NoConn /\ recvTask' = NoConn
          /\ recv' = [recv EXCEPT ![c] = "done"]
          /\ FailPending(c)
     ELSE /\ call' = [call EXCEPT ![k].pc = "helloSend", ![k].conn = c]
          /\ ws' = c /\ recvTask' = c
          /\ recv' = [recv EXCEPT ![c] = "running"]
          /\ pending' = pending \cup {c} /\ fut' = [fut EXCEPT ![c] = "waiting"]
  /\ UNCHANGED <<abandoned, closer, closed, pinned, server>>

\* An attempt failed: what it opened is torn down before the next one.
AttemptFailed(k, c) ==
  /\ call' = [call EXCEPT ![k].pc = "tearRedial", ![k].conn = ws]
  /\ Detach(c)

Refused(k) ==
  /\ call[k].pc = "dial"
  /\ AttemptFailed(k, NoConn)
  /\ UNCHANGED <<abandoned, closer, closed, pinned, netVars>>

\* send() of a HELLO.
HelloSent(k) ==
  LET c == call[k].conn
  IN  /\ call[k].pc = "helloSend"
      /\ IF net[c] = "open"
         THEN /\ call' = [call EXCEPT ![k].pc = "helloWait"]
              /\ up' = [up EXCEPT ![c] = @ \cup {c}]
              /\ UNCHANGED <<connVars, futVars>>
         ELSE AttemptFailed(k, c) /\ UNCHANGED up
      /\ UNCHANGED <<abandoned, closer, closed, pinned, net, home, down, server>>

\* connect() returns, into the request or into its retry.
Connected(k) ==
  IF call[k].entry THEN Submit(k, call[k].retried)
  ELSE Request(k, call[k].retried)

\* The HELLO was answered, failed or timed out.
HelloDone(k) ==
  LET c == call[k].conn
      acked == fut[c] = "reply"
  IN  /\ call[k].pc = "helloWait" /\ fut[c] # "waiting"
      /\ IF ~acked
         THEN AttemptFailed(k, c) /\ UNCHANGED pinned
         ELSE IF SameProcess(c)
           THEN /\ pinned' = home[c]
                /\ IF ClosedDuringConnect
                   THEN /\ call' = [call EXCEPT ![k].pc = "tearRaise", ![k].conn = ws]
                        /\ Detach(c)
                   ELSE Connected(k)
           ELSE /\ call' = [call EXCEPT ![k].pc = "tearRaise", ![k].conn = ws]
                /\ Detach(c) /\ UNCHANGED pinned
      /\ UNCHANGED <<abandoned, closer, closed, netVars>>

\* ws.close() ended or was given up after close_timeout_s.
Drop(c) == net' = [d \in Conn |-> IF d = c THEN "none" ELSE net[d]]

\* (mutant: one attempt too many)
TornDownOffByOne(k) ==
  LET s == call[k]
  IN  /\ \/ s.pc = "tearRaise" /\ Ends(k, "failed")
         \/ s.pc = "tearRedial" /\ s.tries > MaxAttempts /\ Ends(k, "failed")
         \/ /\ s.pc = "tearRedial" /\ s.tries <= MaxAttempts
            /\ Dial(k, s.tries + 1, s.retried, s.entry)
         \/ s.pc = "tearRetry" /\ Dial(k, 1, s.retried, FALSE)
      /\ Drop(s.conn)
      /\ UNCHANGED <<abandoned, closer, closed, connVars, futVars, pinned, home,
                     up, down, server>>
\* The rest of _reset_connection_state, and what follows it: the error is
\* raised, the next attempt is made after the delay unless the attempts or the
\* time are used up, or the request is retried.
TornDown(k) ==
  LET s == call[k]
  IN  /\ \/ s.pc = "tearRaise" /\ Ends(k, "failed")
         \/ /\ s.pc = "tearRedial" /\ (s.tries = MaxAttempts \/ HasDeadline)
            /\ Ends(k, "failed")
         \/ /\ s.pc = "tearRedial" /\ s.tries < MaxAttempts
            /\ Dial(k, s.tries + 1, s.retried, s.entry)
         \/ s.pc = "tearRetry" /\ Dial(k, 1, s.retried, FALSE)
      /\ Drop(s.conn)
      /\ UNCHANGED <<abandoned, closer, closed, connVars, futVars, pinned, home,
                     up, down, server>>

-----------------------------------------------------------------------------
(* The request itself.                                                       *)

Sent(k) ==
  LET c == call[k].conn
  IN  /\ call[k].pc = "send"
      /\ IF net[c] = "open"
         THEN /\ call' = [call EXCEPT ![k].pc = "wait"]
              /\ up' = [up EXCEPT ![c] = @ \cup {k}]
              /\ UNCHANGED <<connVars, futVars>>
         ELSE SendFailed(k, call[k].retried) /\ UNCHANGED up
      /\ UNCHANGED <<abandoned, closer, closed, pinned, net, home, down, server>>

Awaits(i) == \E k \in Call :
  \/ call[k].pc = "wait" /\ i = k
  \/ call[k].pc = "helloWait" /\ i = call[k].conn

\* wait_for cancels the future; request() pops it when it resumes.
Timeout(i) ==
  /\ Awaits(i) /\ fut[i] = "waiting"
  /\ fut' = [fut EXCEPT ![i] = "cancelled"]
  /\ UNCHANGED <<call, abandoned, closer, closed, connVars, pending, pinned, netVars>>

\* (mutant: an entry is left behind when the request times out)
SettleKeeps(k) ==
  /\ call[k].pc = "wait" /\ fut[k] # "waiting"
  /\ fut' = [fut EXCEPT ![k] = "none"]
  /\ pending' = IF fut[k] = "cancelled" THEN pending ELSE pending \ {k}
  /\ Ends(k, IF fut[k] = "reply" THEN "ok" ELSE "failed")
  /\ UNCHANGED <<abandoned, closer, closed, connVars, pinned, netVars>>
\* request() resumes with the outcome of its future.  A failure is retried
\* when the connection is gone, also an ERROR answer that came before it went.
Settle(k) ==
  LET retries == /\ fut[k] \in {"error", "reset"} /\ ws = NoConn
                 /\ ~call[k].retried /\ ~closed
  IN  /\ call[k].pc = "wait" /\ fut[k] # "waiting"
      /\ Forget(k)
      /\ IF fut[k] = "reply" THEN Ends(k, "ok")
         ELSE IF retries THEN Dial(k, 1, TRUE, FALSE)
         ELSE Ends(k, "failed")
      /\ UNCHANGED <<abandoned, closer, closed, connVars, pinned, netVars>>

-----------------------------------------------------------------------------
(* The receive loop of a connection.                                         *)

\* _dispatch_incoming: an answer nobody waits for any more is dropped.
Dispatch(c, m) ==
  /\ recv[c] = "running" /\ m \in down[c]
  /\ down' = [down EXCEPT ![c] = @ \ {m}]
  /\ pending' = pending \ {m.id}
  /\ fut' = IF m.id \in pending /\ fut[m.id] = "waiting"
            THEN [fut EXCEPT ![m.id] = m.kind] ELSE fut
  /\ UNCHANGED <<call, abandoned, closer, closed, connVars, pinned, net, home, up,
                 server>>

\* (mutant: the ended loop does not fail the futures of its connection)
RecvEndForgets(c) ==
  /\ recv[c] = "running" /\ net[c] = "lost"
  /\ recv' = [recv EXCEPT ![c] = "done"]
  /\ ws' = IF ws = c THEN NoConn ELSE ws
  /\ UNCHANGED <<call, abandoned, closer, closed, recvTask, futVars, pinned, netVars>>
\* The loop ends with its connection.  It cleans up only what is still its
\* own; the ws.close() it then awaits finds the connection lost already.
RecvEnd(c) ==
  /\ recv[c] = "running" /\ net[c] = "lost"
  /\ recv' = [recv EXCEPT ![c] = "done"]
  /\ IF ws = c /\ ~closed
     THEN ws' = NoConn /\ FailPending(NoConn)
     ELSE UNCHANGED <<ws, futVars>>
  /\ UNCHANGED <<call, abandoned, closer, closed, recvTask, pinned, netVars>>

-----------------------------------------------------------------------------
(* close().                                                                  *)

\* _fail_pending and _reset_connection_state, up to its first await.
Disconnect ==
  /\ closer' = [pc |-> "teardown", conn |-> ws]
  /\ ws' = NoConn /\ recvTask' = NoConn
  /\ recv' = [c \in Conn |-> IF c = recvTask THEN "done" ELSE recv[c]]
  /\ FailPending(NoConn)

\* With a connection, close() first awaits send_close.
Close ==
  /\ closer.pc = "idle" /\ (abandoned \/ \A k \in Call : ~Active(k))
  /\ closed' = TRUE
  /\ IF ws = NoConn THEN Disconnect
     ELSE closer' = [closer EXCEPT !.pc = "goodbye"] /\ UNCHANGED <<connVars, futVars>>
  /\ UNCHANGED <<call, abandoned, pinned, netVars>>

\* (mutant: the farewell waits for the server to close the connection)
GoodbyeWaits ==
  /\ closer.pc = "goodbye" /\ \A c \in Conn : c = ws => net[c] # "open"
  /\ Disconnect
  /\ UNCHANGED <<call, abandoned, closed, pinned, netVars>>
\* send_close ended, failed or timed out.
Goodbye ==
  /\ closer.pc = "goodbye"
  /\ Disconnect
  /\ UNCHANGED <<call, abandoned, closed, pinned, netVars>>

Closed ==
  /\ closer.pc = "teardown"
  /\ closer' = [pc |-> "done", conn |-> NoConn]
  /\ Drop(closer.conn)
  /\ UNCHANGED <<call, abandoned, closed, connVars, futVars, pinned, home, up,
                 down, server>>

-----------------------------------------------------------------------------
(* The network and the server.                                               *)

Lose(c) ==
  /\ net[c] = "open"
  /\ net' = [net EXCEPT ![c] = "lost"]
  /\ UNCHANGED <<call, abandoned, closer, closed, connVars, futVars, pinned, home,
                 up, down, server>>

\* The server answers frame i of connection c.
Reply(c, i, kind) ==
  /\ net[c] = "open" /\ i \in up[c]
  /\ up' = [up EXCEPT ![c] = @ \ {i}]
  /\ down' = [down EXCEPT ![c] = @ \cup {[id |-> i, kind |-> kind]}]
  /\ UNCHANGED <<call, abandoned, closer, closed, connVars, futVars, pinned, net,
                 home, server>>

\* The server process dies and is started again.
Restart ==
  /\ server < MaxRestarts
  /\ server' = server + 1
  /\ net' = [c \in Conn |-> IF net[c] = "open" THEN "lost" ELSE net[c]]
  /\ UNCHANGED <<call, abandoned, closer, closed, connVars, futVars, pinned, home,
                 up, down>>

-----------------------------------------------------------------------------
Coroutine(k) == Refused(k) \/ (\E c \in Conn : Opened(k, c)) \/ HelloSent(k)
                \/ HelloDone(k) \/ TornDown(k) \/ Sent(k) \/ Settle(k)
Receive(c)   == (\E m \in down[c] : Dispatch(c, m)) \/ RecvEnd(c)
Closing      == Goodbye \/ Closed

Client == \/ \E k \in Call : Start(k) \/ Coroutine(k)
          \/ \E i \in Ids : Timeout(i)
          \/ \E c \in Conn : Receive(c)
          \/ Abandon \/ Close \/ Closing

Next == \/ Client
        \/ \E c \in Conn : \/ Lose(c)
                           \/ \E i \in Ids, kind \in {"reply", "error"} : Reply(c, i, kind)
        \/ Restart

Spec == Init /\ [][Next]_vars

\* The event loop runs what is ready and every wait of the client is bounded
\* by a timeout.  Nothing is assumed of the network, the server or the caller.
Fairness == /\ \A k \in Call : WF_vars(Coroutine(k))
            /\ \A i \in Ids : WF_vars(Timeout(i))
            /\ \A c \in Conn : WF_vars(Receive(c))
            /\ WF_vars(Closing)

FairSpec == Spec /\ Fairness

-----------------------------------------------------------------------------
(* What the client promises.                                                 *)

Pcs == {"idle", "dial", "helloSend", "helloWait", "tearRaise", "tearRedial",
        "tearRetry", "send", "wait", "ok", "failed"}
Coroutines == [pc : Pcs, conn : Conn \cup {NoConn}, tries : 0..MaxAttempts,
               retried : BOOLEAN, entry : BOOLEAN]
Frames == [id : Ids, kind : {"reply", "error"}]

\* connect() makes at most MaxAttempts attempts, among the rest.
TypeOK ==
  /\ call \in [Call -> Coroutines]
  /\ abandoned \in BOOLEAN /\ closed \in BOOLEAN
  /\ closer \in [pc : {"idle", "goodbye", "teardown", "done"}, conn : Conn \cup {NoConn}]
  /\ ws \in Conn \cup {NoConn} /\ recvTask \in Conn \cup {NoConn}
  /\ recv \in [Conn -> {"none", "running", "done"}]
  /\ pending \in SUBSET Ids
  /\ fut \in [Ids -> {"none", "waiting", "reply", "error", "reset", "cancelled"}]
  /\ pinned \in Server \cup {NoServer} /\ server \in Server
  /\ net \in [Conn -> {"none", "open", "lost"}]
  /\ home \in [Conn -> Server \cup {NoServer}]
  /\ up \in [Conn -> SUBSET Ids] /\ down \in [Conn -> SUBSET Frames]

\* The request id a coroutine has registered.
Registered(k) ==
  IF call[k].pc \in {"send", "wait"} THEN {k}
  ELSE IF call[k].pc \in {"helloSend", "helloWait"} THEN {call[k].conn} ELSE {}

\* No lost wakeup: a future somebody waits for, or is about to, can still be
\* completed.  It is registered, and the receive loop of its connection runs
\* or close() is going to fail it.
WaiterServed ==
  \A k \in Call : \A i \in Registered(k) : fut[i] = "waiting" =>
    /\ i \in pending
    /\ ws = call[k].conn
    /\ recv[ws] = "running" \/ closer.pc = "goodbye"

\* _pending holds no entry of a request that is over, whichever way it ended:
\* answer, timeout, failed send, lost connection, or close().
PendingOwned ==
  \A i \in pending : \E k \in Call : i \in Registered(k)

\* close() is terminal: when it has returned and the request its caller
\* abandoned is over, none of the client's connections is left open, also not
\* one that was being established meanwhile.
NoConnectionLeaks ==
  closer.pc = "done" /\ (\A k \in Call : ~Active(k)) =>
    \A c \in Conn : net[c] # "open"

\* The receive loop of one connection never serves another: at most one loop
\* runs, that of the current connection.
OneReader ==
  \A c \in Conn : recv[c] = "running" => c = ws

\* Every request ends, whatever the network and the server do, and so does
\* close().
CallSettles == \A k \in Call : call[k].pc # "idle" ~> call[k].pc \in {"ok", "failed"}
CloseReturns == closed ~> closer.pc = "done"

=============================================================================
