------------------------------ MODULE PolicySession ------------------------------
(***************************************************************************)
(* One evaluation: the websocket client of PolicyClient, a network that     *)
(* loses connections, and a policy server that may be restarted.  The       *)
(* server takes the steps of AnsweredOnce, which PolicyServer implements: it *)
(* runs a request id it does not know, keeps the answer, tells it to whoever *)
(* asks, drops it when its response cache is full of newer ones, and loses   *)
(* all of that with its process.                                            *)
(***************************************************************************)
EXTENDS PolicyClient

CONSTANT CacheSize    \* _response_cache_size

ASSUME CacheAssumption == CacheSize \in Nat \ {0}

VARIABLES
  taken,  \* frames of each connection that its process has read, or never will
  exec,   \* this process's last execution of each request: "none", "running",
          \* its answer, which the respond tasks that wait for it hold themselves
  newer,  \* how many cache entries are newer than a request's: CacheSize when it
          \* has none
  runs,   \* history: how often any process executed each request
  hosts   \* history: the processes that executed requests

serverVars  == <<taken, exec, newer, runs, hosts>>
sessionVars == <<vars, serverVars>>

SessionInit ==
  /\ Init
  /\ taken = [c \in Conn |-> {}]
  /\ exec = [k \in Call |-> "none"] /\ newer = [k \in Call |-> CacheSize]
  /\ runs = [k \in Call |-> 0] /\ hosts = {}

\* The running process can read frame i of connection c.
Readable(c, i) == i \in up[c] \ taken[c] /\ home[c] = server

Take(c, i) == taken' = [taken EXCEPT ![c] = @ \cup {i}]

Answered(k) == exec[k] \in {"reply", "error"}
Kept(k) == newer[k] < CacheSize

\* An entry with n newer ones becomes the newest, and with n = CacheSize a new one
\* is cached: the entries it overtakes have one more newer entry, and the oldest of
\* a full cache is evicted.
Overtaken(n) == [k \in Call |-> IF newer[k] < n THEN newer[k] + 1 ELSE newer[k]]

\* (mutant: an answered request runs again)
RunAgain(c, k) ==
  /\ Readable(c, k) /\ exec[k] # "running"
  /\ Take(c, k)
  /\ exec' = [exec EXCEPT ![k] = "running"]
  /\ runs' = [runs EXCEPT ![k] = @ + 1]
  /\ hosts' = hosts \cup {server}
  /\ UNCHANGED <<vars, newer>>
\* A request that is neither running nor in the cache enters the model.
Run(c, k) ==
  /\ Readable(c, k) /\ exec[k] # "running" /\ ~Kept(k)
  /\ Take(c, k)
  /\ exec' = [exec EXCEPT ![k] = "running"]
  /\ runs' = [runs EXCEPT ![k] = @ + 1]
  /\ hosts' = hosts \cup {server}
  /\ UNCHANGED <<vars, newer>>

Join(c, k) ==
  /\ Readable(c, k) /\ exec[k] = "running"
  /\ Take(c, k)
  /\ UNCHANGED <<vars, exec, newer, runs, hosts>>

\* A cached answer is the newest entry again.
Replay(c, k) ==
  /\ Readable(c, k) /\ exec[k] # "running" /\ Kept(k)
  /\ Take(c, k)
  /\ newer' = [Overtaken(newer[k]) EXCEPT ![k] = 0]
  /\ UNCHANGED <<vars, exec, runs, hosts>>

RunEnds(k) ==
  /\ exec[k] = "running"
  /\ \E answer \in {"reply", "error"} : exec' = [exec EXCEPT ![k] = answer]
  /\ newer' = [Overtaken(CacheSize) EXCEPT ![k] = 0]
  /\ UNCHANGED <<vars, taken, runs, hosts>>

\* The answer goes to every connection that asked and is still there.
AnswerRequest(c, k) ==
  /\ k \in taken[c] /\ Answered(k) /\ Reply(c, k, exec[k])
  /\ taken' = [taken EXCEPT ![c] = @ \ {k}]
  /\ UNCHANGED <<exec, newer, runs, hosts>>

\* A HELLO is answered through the cache like any other request.
TakeHello(c) ==
  /\ Readable(c, c)
  /\ Take(c, c)
  /\ newer' = Overtaken(CacheSize)
  /\ UNCHANGED <<vars, exec, runs, hosts>>

Greet(c) ==
  /\ c \in taken[c] /\ Reply(c, c, "reply")
  /\ taken' = [taken EXCEPT ![c] = @ \ {c}]
  /\ UNCHANGED <<exec, newer, runs, hosts>>

\* What is still on its way on a connection that broke may never arrive.
Vanish(c) ==
  /\ net[c] # "open" /\ ~(up[c] \subseteq taken[c])
  /\ taken' = [taken EXCEPT ![c] = up[c]]
  /\ UNCHANGED <<vars, exec, newer, runs, hosts>>

\* The new process knows nothing of the old one's requests.
ServerRestart ==
  /\ Restart
  /\ exec' = [k \in Call |-> "none"] /\ newer' = [k \in Call |-> CacheSize]
  /\ UNCHANGED <<taken, runs, hosts>>

\* A step of the client or the network: a new connection has nothing to read yet.
Outside ==
  /\ Client \/ \E c \in Conn : Lose(c)
  /\ taken' = [c \in Conn |-> taken[c] \cap up'[c]]
  /\ UNCHANGED <<exec, newer, runs, hosts>>

Serve(k) ==
  \/ \E c \in Conn : Run(c, k) \/ Join(c, k) \/ Replay(c, k) \/ AnswerRequest(c, k)
  \/ RunEnds(k)
Welcome(c) == TakeHello(c) \/ Greet(c)

SessionNext ==
  \/ Outside
  \/ \E k \in Call : Serve(k)
  \/ \E c \in Conn : Welcome(c) \/ Vanish(c)
  \/ ServerRestart

SessionSpec == SessionInit /\ [][SessionNext]_sessionVars

\* A session whose caller lets the server finish what an earlier call left with it.
Idle == /\ \A c \in Conn : \A i \in up[c] : ~Readable(c, i)
        /\ \A k \in Call : exec[k] # "running"
Calm == (\E k \in Call : call[k].pc = "idle" /\ call'[k].pc # "idle") => Idle

CalmSpec == SessionInit /\ [][SessionNext /\ Calm]_sessionVars

\* A steady environment: a server that answers and is never restarted, a caller
\* that does not give up, and connections that break, at the worst moment, but
\* not again while that is being recovered from.
Recovering(k) == /\ Active(k)
                 /\ \/ call[k].retried \/ call[k].tries > 1
                    \/ call[k].pc \in {"tearRaise", "tearRedial", "tearRetry"}
Breaks(c) == net[c] = "open" /\ net'[c] = "lost"

Steady ==
  /\ ~closed' /\ ~abandoned' /\ server' = server
  /\ \A k \in Call : exec'[k] # "error"
  /\ \A i \in Ids : fut'[i] # "cancelled"
  /\ \A k \in Call : call[k].pc = "dial" => call'[k].pc # "tearRedial"
  /\ (\E c \in Conn : Breaks(c)) =>
       (\A c \in Conn : net[c] # "lost") /\ \A k \in Call : ~Recovering(k)

SteadyFairness ==
  /\ \A k \in Call : /\ WF_sessionVars(Outside /\ Coroutine(k) /\ Steady)
                     /\ WF_sessionVars(Serve(k) /\ Steady)
  /\ \A c \in Conn : /\ WF_sessionVars(Outside /\ Receive(c))
                     /\ WF_sessionVars(Welcome(c))

SteadySpec ==
  SessionInit /\ [][SessionNext /\ Steady]_sessionVars /\ SteadyFairness

-----------------------------------------------------------------------------
(* What the session promises.                                                *)

Outcome ==
  [k \in Call |-> CASE call[k].pc = "idle" -> "unasked"
                    [] call[k].pc \in {"ok", "failed"} -> call[k].pc
                    [] OTHER -> "asked"]

\* What the running process answered and has evicted since.
Evicted == {k \in Call : Answered(k) /\ ~Kept(k)}

Once == INSTANCE AtMostOnce WITH runs <- runs, outcome <- Outcome, forgotten <- Evicted

\* Retries, reconnects, a lost answer, a restarted server, an abandoned call:
\* the session implements AtMostOnce, in which a call runs again only if the server
\* has evicted its answer.
RetriesAreSafe == Once!Spec

\* "A retried request that already executed is answered from the cache instead of
\* running twice" (the comment in request()).
RunsOnce == \A k \in Call : runs[k] <= 1

\* Two processes never execute requests of one evaluation: a restart aborts it
\* instead of going on with a model that lost its state ("Server restarts abort
\* the run", README).
OneProcess == Cardinality(hosts) <= 1

\* In a steady environment every call returns its result: it survives a
\* connection lost while it connects and another one while it is sent, executed
\* or answered.
SurvivesDrop == \A k \in Call : call[k].pc # "idle" ~> call[k].pc = "ok"

=============================================================================
