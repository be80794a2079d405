------------------------------ MODULE PolicyServer ------------------------------
(***************************************************************************)
(* The websocket policy server, client_server/ws/model_server.py.           *)
(*                                                                          *)
(* One asyncio event loop runs a handler per connection, a respond task per *)
(* accepted frame and one shared execution per request id; every await is   *)
(* a point where the others may run, so an action is the code between two   *)
(* awaits.  Model methods and image decoding run on worker threads and are  *)
(* the steps between two actions.  The environment chooses the frames:      *)
(* retries, duplicates, reused ids and malformed envelopes included.        *)
(***************************************************************************)
EXTENDS Integers, FiniteSets, SequencesExt

CONSTANTS Conn,        \* connections, each opened at most once
          Task,        \* respond tasks, one per frame accepted in a behaviour
          Id,          \* request ids
          Types,       \* the message types the environment sends
          CacheSize,   \* _RESPONSE_CACHE_SIZE
          MaxPending,  \* _MAX_INFLIGHT_RESPONSES
          NoConn, NoId

Immediate == {"HELLO", "HEARTBEAT"}           \* answered without the model
Locked    == {"PREPARE_CASE", "RESET", "TRIAL_END"}
Decoded   == {"CALL", "INFER"}                \* may carry images to decode
\* "OTHER" is a valid envelope whose type is no request (an ack, an ERROR);
\* "MALFORMED" an envelope that fails validation but carries a message id.
Requests  == Immediate \cup Locked \cup Decoded \cup {"CLOSE", "OTHER"}

ASSUME TypesAssumption == Types \subseteq Requests \cup {"MALFORMED"}
ASSUME BoundsAssumption == CacheSize \in Nat \ {0} /\ MaxPending \in Nat
ASSUME NoneAssumption == NoId \notin Id /\ NoConn \notin Conn

VARIABLES
  phase,      \* stop(): "up", "closing" (wait_closed), "draining", "stopped"
  handler,    \* _handle_connection of each connection
  open,       \* whether the websocket can still carry a frame
  task,       \* the respond tasks
  inflight,   \* _inflight: the execution of each id, by its place in _execute_frame
  lock,       \* the holder of _model_lock, NoId when it is free
  lockQ,      \* its waiters, in arrival order
  seen,       \* the id whose observation the model holds
  cache,      \* _response_cache: id -> (type, response)
  lru,        \* its order, oldest first
  calls,      \* history: how often the model was entered for each id
  evictions,  \* history: how often each id lost its cache entry
  since       \* history: the ids cached or replayed since each id last was

vars == <<phase, handler, open, task, inflight, lock, lockQ, seen, cache, lru,
          calls, evictions, since>>

execVars  == <<inflight, lock, lockQ, seen, calls>>
cacheVars == <<cache, lru, evictions, since>>

Kinds == {"none", "ok", "error", "unencodable", "reused", "closing", "rejected"}
\* `run` tells the executions of one id apart, `obs` is what an INFER result
\* was computed from.
Response == [kind : Kinds, type : Requests \cup {"none"}, run : Nat,
             obs : Id \cup {NoId}]
NoResponse == [kind |-> "none", type |-> "none", run |-> 0, obs |-> NoId]
Reply(kind, type, run, obs) ==
  [kind |-> kind, type |-> type, run |-> run, obs |-> obs]

Idle == [pc |-> "idle", conn |-> NoConn, id |-> NoId, type |-> "none",
         inline |-> FALSE, resp |-> NoResponse]
NotRunning == [pc |-> "none", type |-> "none", resp |-> NoResponse]

Init ==
  /\ phase = "up"
  /\ handler = [c \in Conn |-> "absent"]
  /\ open = [c \in Conn |-> FALSE]
  /\ task = [t \in Task |-> Idle]
  /\ inflight = [i \in Id |-> NotRunning]
  /\ lock = NoId
  /\ lockQ = <<>>
  /\ seen = NoId
  /\ cache = [i \in Id |-> NoResponse]
  /\ lru = <<>>
  /\ calls = [i \in Id |-> 0]
  /\ evictions = [i \in Id |-> 0]
  /\ since = [i \in Id |-> {}]

-----------------------------------------------------------------------------
(* The replay cache and the answer of a respond task.                        *)

Cached(i) == cache[i].kind # "none"

MismatchIgnored(r, t) == FALSE
TypeMismatch(r, t) == r.type # task[t].type

\* (mutant: an entry that is there keeps its place)
NewestInPlace(i) == IF \E k \in 1..Len(lru) : lru[k] = i THEN lru ELSE Append(lru, i)
\* The order after entry i became the newest: move_to_end.
Newest(i) ==
  LET at == {k \in 1..Len(lru) : lru[k] = i}
  IN  Append(IF at = {} THEN lru ELSE RemoveAt(lru, CHOOSE k \in at : TRUE), i)

\* Entry i is cached or replayed, which since records.
Use(i) == since' = [j \in Id |-> IF j = i THEN {} ELSE since[j] \cup {i}]

\* _cache_response: the entry becomes the newest one, and the oldest goes
\* when the cache is over its size.  The oldest may be i itself.
CacheResponse(i, r) ==
  LET order == Newest(i)
      over == Len(order) > CacheSize
      out == IF over THEN {Head(order)} ELSE {}
  IN  /\ lru' = IF over THEN Tail(order) ELSE order
      /\ cache' = [j \in Id |-> IF j \in out THEN NoResponse
                                ELSE IF j = i THEN r ELSE cache[j]]
      /\ evictions' = [j \in Id |-> evictions[j] + (IF j \in out THEN 1 ELSE 0)]
      /\ Use(i)

\* The respond task t goes on with response r of its process_frame, up to
\* its next await: a None closes the websocket, an unencodable response is
\* replaced in the reply and in the cache, anything else waits for its send.
Encodable(r) == r.kind # "unencodable"
\* (mutant: the error is kept without the type of its request)
AsErrorUntyped(r) == [kind |-> "error", run |-> r.run, obs |-> r.obs]
AsError(r) == [r EXCEPT !.kind = "error"]
Final(r) == IF Encodable(r) THEN r ELSE AsError(r)

Answer(t, r) ==
  /\ task' = [task EXCEPT
       ![t].pc = IF r.kind = "closing" THEN "closing" ELSE "sending",
       ![t].resp = Final(r)]

-----------------------------------------------------------------------------
(* Connections: accepting, reading, losing.                                  *)

Accept(c) ==
  /\ phase = "up" /\ handler[c] = "absent"
  /\ handler' = [handler EXCEPT ![c] = "reading"]
  /\ open' = [open EXCEPT ![c] = TRUE]
  /\ UNCHANGED <<phase, task, execVars, cacheVars>>

Live(t) == task[t].pc \notin {"idle", "done", "cancelled"}
\* The handler's set of respond tasks; an inline one is not in it.
Pending(c) == {t \in Task : Live(t) /\ task[t].conn = c /\ ~task[t].inline}

AtLimitOffByOne(c) == Cardinality(Pending(c)) > MaxPending
AtLimit(c) == Cardinality(Pending(c)) >= MaxPending

\* The handler takes the next frame.  Frames buffered before a connection
\* broke are still read, so `open` is no guard.  A malformed envelope is
\* rejected inline; at the limit the handler itself awaits the answer.
Receive(c, t, i, type) ==
  LET malformed == type = "MALFORMED"
      inline == malformed \/ AtLimit(c)
  IN  /\ handler[c] = "reading" /\ task[t].pc = "idle"
      /\ task' = [task EXCEPT ![t] =
           [pc |-> IF malformed THEN "sending" ELSE "new",
            conn |-> c, id |-> i, inline |-> inline,
            type |-> IF malformed THEN "none" ELSE type,
            resp |-> IF malformed THEN Reply("rejected", "none", 0, NoId)
                     ELSE NoResponse]]
      /\ handler' = IF inline THEN [handler EXCEPT ![c] = "inline"] ELSE handler
      /\ UNCHANGED <<phase, open, execVars, cacheVars>>

\* The peer is gone, or the closing handshake of stop() is over.
Lose(c) ==
  /\ open[c]
  /\ open' = [open EXCEPT ![c] = FALSE]
  /\ UNCHANGED <<phase, handler, task, execVars, cacheVars>>

\* The read loop ends: the handler waits for its respond tasks, if any.
LeaveLoop(c) ==
  /\ handler[c] = "reading" /\ ~open[c]
  /\ handler' = [handler EXCEPT
       ![c] = IF Pending(c) = {} THEN "done" ELSE "draining"]
  /\ UNCHANGED <<phase, open, task, execVars, cacheVars>>

Drained(c) ==
  /\ handler[c] = "draining" /\ Pending(c) = {}
  /\ handler' = [handler EXCEPT ![c] = "done"]
  /\ UNCHANGED <<phase, open, task, execVars, cacheVars>>

\* (mutant: the handler waits for its respond tasks without a bound)
DrainUnbounded(c) == Drained(c)
\* The drain timeout: cancelling a respond task only detaches the waiter,
\* the shielded execution goes on.
DrainTimeout(c) ==
  /\ handler[c] = "draining" /\ Pending(c) # {}
  /\ handler' = [handler EXCEPT ![c] = "done"]
  /\ task' = [t \in Task |-> IF t \in Pending(c)
                             THEN [task[t] EXCEPT !.pc = "cancelled"]
                             ELSE task[t]]
  /\ UNCHANGED <<phase, open, execVars, cacheVars>>

-----------------------------------------------------------------------------
(* A respond task: process_frame, _execute_once, encode, send.               *)

NotTracked(i) == FALSE
Running(i) == inflight[i].pc # "none"

ReusedId(t) == Reply("reused", task[t].type, 0, NoId)

\* A duplicate of an answered request replays the cached response.
Replay(t) ==
  LET i == task[t].id
      r == cache[i]
  IN  /\ task[t].pc = "new" /\ Cached(i)
      /\ Answer(t, IF TypeMismatch(r, t) THEN ReusedId(t) ELSE r)
      /\ IF TypeMismatch(r, t) THEN UNCHANGED cacheVars
         ELSE IF Encodable(r)
           THEN lru' = Newest(i) /\ Use(i) /\ UNCHANGED <<cache, evictions>>
           ELSE CacheResponse(i, AsError(r))
      /\ UNCHANGED <<phase, handler, open, execVars>>

\* A duplicate of a running request awaits the same execution.  One that has
\* finished and is not yet reaped answers at once: a done task never suspends.
Join(t) ==
  LET i == task[t].id
      e == inflight[i]
  IN  /\ task[t].pc = "new" /\ ~Cached(i) /\ Running(i)
      /\ IF TypeMismatch(e, t)
         THEN Answer(t, ReusedId(t)) /\ UNCHANGED cacheVars
         ELSE IF e.pc = "done"
           THEN /\ Answer(t, e.resp)
                /\ IF Encodable(e.resp) THEN UNCHANGED cacheVars
                   ELSE CacheResponse(i, AsError(e.resp))
           ELSE /\ task' = [task EXCEPT ![t].pc = "waiting"]
                /\ UNCHANGED cacheVars
      /\ UNCHANGED <<phase, handler, open, execVars>>

\* A new request creates the execution and awaits it behind a shield.
Execute(t) ==
  LET i == task[t].id
  IN  /\ task[t].pc = "new" /\ ~Cached(i) /\ ~Running(i)
      /\ inflight' = [inflight EXCEPT ![i] =
           [pc |-> "created", type |-> task[t].type, resp |-> NoResponse]]
      /\ task' = [task EXCEPT ![t].pc = "waiting"]
      /\ UNCHANGED <<phase, handler, open, lock, lockQ, seen, calls, cacheVars>>

\* The awaited execution is over.
Wake(t) ==
  LET r == task[t].resp
  IN  /\ task[t].pc = "woken"
      /\ Answer(t, r)
      /\ IF Encodable(r) THEN UNCHANGED cacheVars
         ELSE CacheResponse(task[t].id, AsError(r))
      /\ UNCHANGED <<phase, handler, open, execVars>>

\* The end of respond: the handler goes on if it awaited it.
Finish(t) ==
  /\ task' = [task EXCEPT ![t].pc = "done"]
  /\ handler' = IF task[t].inline THEN [handler EXCEPT ![task[t].conn] = "reading"]
                ELSE handler

\* On a lost connection the send fails and is only logged: the reply stays in
\* the cache for the retry.
Send(t) ==
  /\ task[t].pc = "sending"
  /\ Finish(t)
  /\ UNCHANGED <<phase, open, execVars, cacheVars>>

\* A CLOSE has no response: the server closes the websocket.
CloseSocket(t) ==
  /\ task[t].pc = "closing"
  /\ Finish(t)
  /\ open' = [open EXCEPT ![task[t].conn] = FALSE]
  /\ UNCHANGED <<phase, execVars, cacheVars>>

-----------------------------------------------------------------------------
(* The shared execution of a request id: _execute_frame and its handlers.    *)

\* (mutant: error replies are not cached)
ExecDoneNoErrors(i, kind, run, obs) ==
  LET r == Reply(kind, inflight[i].type, run, obs)
  IN  /\ inflight' = [inflight EXCEPT ![i].pc = "done", ![i].resp = r]
      /\ IF kind \in {"closing", "error"} THEN UNCHANGED cacheVars
         ELSE CacheResponse(i, r)
\* The end of _execute_frame: the reply is cached, an error reply too.
ExecDone(i, kind, run, obs) ==
  LET r == Reply(kind, inflight[i].type, run, obs)
  IN  /\ inflight' = [inflight EXCEPT ![i].pc = "done", ![i].resp = r]
      /\ IF kind = "closing" THEN UNCHANGED cacheVars ELSE CacheResponse(i, r)

\* An INFER first hands its observation to the model, under the same lock.
FirstModelStep(type) == IF type = "INFER" THEN "observe" ELSE "act"

\* The body of `async with _model_lock`: the model method is called.
EnterModel(i) ==
  /\ lock' = i
  /\ calls' = [calls EXCEPT ![i] = @ + 1]
  /\ inflight' = [inflight EXCEPT ![i].pc = FirstModelStep(inflight[i].type)]

\* (mutant: the model is called without the lock when it is busy)
AcquireLockNever(i) == EnterModel(i) /\ UNCHANGED lockQ
\* asyncio.Lock: a free lock nobody waits for is taken at once, else the
\* execution queues.
AcquireLock(i) ==
  IF lock = NoId /\ lockQ = <<>>
  THEN EnterModel(i) /\ UNCHANGED lockQ
  ELSE /\ lockQ' = Append(lockQ, i)
       /\ inflight' = [inflight EXCEPT ![i].pc = "locking"]
       /\ UNCHANGED <<lock, calls>>

\* What is answered without the model: the handshake, the heartbeat, CLOSE,
\* an unsupported type, an invalid payload, an absent method (an error for
\* RESET, CALL and INFER, an ok for the optional hooks).
AnswerWithoutModel(i) ==
  LET type == inflight[i].type
  IN  /\ inflight[i].pc = "created"
      /\ \/ type \in Immediate \cup {"PREPARE_CASE", "TRIAL_END"}
            /\ ExecDone(i, "ok", 0, NoId)
         \/ type \in {"RESET", "CALL", "INFER", "OTHER"}
            /\ ExecDone(i, "error", 0, NoId)
         \/ type = "CLOSE" /\ ExecDone(i, "closing", 0, NoId)
      /\ UNCHANGED <<phase, handler, open, task, lock, lockQ, seen, calls>>

\* prepare_case, reset, on_trial_end and a CALL without obs.
CallModel(i) ==
  /\ inflight[i].pc = "created" /\ inflight[i].type \in Locked \cup {"CALL"}
  /\ AcquireLock(i)
  /\ UNCHANGED <<phase, handler, open, task, seen, cacheVars>>

\* A CALL with obs, or an INFER: its images are decoded on a worker thread,
\* before the lock.
StartDecode(i) ==
  /\ inflight[i].pc = "created" /\ inflight[i].type \in Decoded
  /\ inflight' = [inflight EXCEPT ![i].pc = "decoding"]
  /\ UNCHANGED <<phase, handler, open, task, lock, lockQ, seen, calls, cacheVars>>

EndDecode(i) ==
  /\ inflight[i].pc = "decoding"
  /\ \/ AcquireLock(i) /\ UNCHANGED cacheVars
     \/ ExecDone(i, "error", 0, NoId) /\ UNCHANGED <<lock, lockQ, calls>>
  /\ UNCHANGED <<phase, handler, open, task, seen>>

\* The released lock goes to its oldest waiter.
Grant(i) ==
  /\ lock = NoId /\ lockQ # <<>> /\ Head(lockQ) = i
  /\ EnterModel(i)
  /\ lockQ' = Tail(lockQ)
  /\ UNCHANGED <<phase, handler, open, task, seen, cacheVars>>

\* (mutant: an exception leaves the lock held)
LeaveModelKeepsLock(i, kind, obs) ==
  /\ lock' = IF kind = "error" THEN lock ELSE NoId
  /\ ExecDone(i, kind, calls[i], obs)
  /\ UNCHANGED <<phase, handler, open, task, lockQ, calls>>
\* The model method of i returned or raised: the lock is released and the
\* reply cached before the next await.
LeaveModel(i, kind, obs) ==
  /\ lock' = NoId
  /\ ExecDone(i, kind, calls[i], obs)
  /\ UNCHANGED <<phase, handler, open, task, lockQ, calls>>

\* (mutant: the lock is released between the two halves)
ObserveUnlocked(i) ==
  /\ inflight[i].pc = "observe"
  /\ seen' = i /\ lock' = NoId
  /\ inflight' = [inflight EXCEPT ![i].pc = "act"]
  /\ UNCHANGED <<phase, handler, open, task, lockQ, calls, cacheVars>>
\* update_obs of an INFER, the first half of the pair.
Observe(i) ==
  /\ inflight[i].pc = "observe"
  /\ \/ /\ seen' = i
        /\ inflight' = [inflight EXCEPT ![i].pc = "act"]
        /\ UNCHANGED <<phase, handler, open, task, lock, lockQ, calls, cacheVars>>
     \/ LeaveModel(i, "error", NoId) /\ UNCHANGED seen

\* What a method leaves in the model: any CALL may be an update_obs, a RESET
\* forgets the observation unless it raises first.
SeenAfter(i) ==
  CASE inflight[i].type = "CALL" -> {seen, i}
    [] inflight[i].type = "RESET" -> {seen, NoId}
    [] OTHER -> {seen}

Act(i) ==
  /\ inflight[i].pc = "act"
  /\ seen' \in SeenAfter(i)
  /\ \E kind \in {"ok", "error", "unencodable"} :
       LeaveModel(i, kind, IF inflight[i].type = "INFER" THEN seen ELSE NoId)

\* (mutant: waiters are not told of a failed execution)
ReapForgetsErrors(i) ==
  /\ inflight[i].pc = "done"
  /\ inflight' = [inflight EXCEPT ![i] = NotRunning]
  /\ task' = [t \in Task |->
       IF task[t].pc = "waiting" /\ task[t].id = i /\ inflight[i].resp.kind = "ok"
       THEN [task[t] EXCEPT !.pc = "woken", !.resp = inflight[i].resp]
       ELSE task[t]]
  /\ UNCHANGED <<phase, handler, open, lock, lockQ, seen, calls, cacheVars>>
\* The done callbacks of the execution: _inflight forgets it and the shields
\* of its waiters complete.
Reap(i) ==
  /\ inflight[i].pc = "done"
  /\ inflight' = [inflight EXCEPT ![i] = NotRunning]
  /\ task' = [t \in Task |->
       IF task[t].pc = "waiting" /\ task[t].id = i
       THEN [task[t] EXCEPT !.pc = "woken", !.resp = inflight[i].resp]
       ELSE task[t]]
  /\ UNCHANGED <<phase, handler, open, lock, lockQ, seen, calls, cacheVars>>

-----------------------------------------------------------------------------
(* stop(), from serve_forever's finally.                                     *)

Stop ==
  /\ phase = "up"
  /\ phase' = "closing"
  /\ UNCHANGED <<handler, open, task, execVars, cacheVars>>

\* wait_closed returns once no connection and no handler is left.
Closed ==
  /\ phase = "closing"
  /\ \A c \in Conn : ~open[c] /\ handler[c] \in {"absent", "done"}
  /\ phase' = "draining"
  /\ UNCHANGED <<handler, open, task, execVars, cacheVars>>

\* (mutant: stop() waits for the executions without a bound)
StopDoneUnbounded ==
  /\ phase = "draining" /\ \A i \in Id : ~Running(i)
  /\ phase' = "stopped"
  /\ UNCHANGED <<handler, open, task, execVars, cacheVars>>
\* The remaining executions end, or the drain timeout abandons them.
StopDone ==
  /\ phase = "draining"
  /\ phase' = "stopped"
  /\ UNCHANGED <<handler, open, task, execVars, cacheVars>>

-----------------------------------------------------------------------------
Respond(t) == Replay(t) \/ Join(t) \/ Execute(t) \/ Wake(t) \/ Send(t)
              \/ CloseSocket(t)
Handle(c)  == LeaveLoop(c) \/ Drained(c) \/ DrainTimeout(c)
Exec(i)    == AnswerWithoutModel(i) \/ CallModel(i) \/ StartDecode(i)
              \/ EndDecode(i) \/ Grant(i) \/ Reap(i)
Model(i)   == Observe(i) \/ Act(i)
Peer(c)    == Accept(c) \/ Lose(c)
              \/ \E t \in Task, i \in Id, type \in Types : Receive(c, t, i, type)

\* Once stopped, the process is gone.
Alive == phase # "stopped"

Next ==
  /\ Alive
  /\ \/ \E t \in Task : Respond(t)
     \/ \E c \in Conn : Handle(c) \/ Peer(c)
     \/ \E i \in Id : Exec(i) \/ Model(i)
     \/ Stop \/ Closed \/ StopDone

Spec == Init /\ [][Next]_vars

\* The event loop runs every ready task, the decoding thread ends and both
\* timeouts expire; stop() closes every connection.  Nothing makes a peer
\* send, a connection break or a model method return.
Fairness ==
  /\ \A t \in Task : WF_vars(Alive /\ Respond(t))
  /\ \A c \in Conn : WF_vars(Alive /\ Handle(c))
                    /\ WF_vars(phase = "closing" /\ Lose(c))
  /\ \A i \in Id : WF_vars(Alive /\ Exec(i))
  /\ WF_vars(Closed \/ StopDone)

\* Model methods may hang: the promises that need them to return say so.
HungSpec == Spec /\ Fairness

-----------------------------------------------------------------------------
(* What the server promises.                                                 *)

Pcs == {"idle", "new", "waiting", "woken", "sending", "closing", "done", "cancelled"}
ExecPcs == {"none", "created", "decoding", "locking", "observe", "act", "done"}
Tasks == [pc : Pcs, conn : Conn \cup {NoConn}, id : Id \cup {NoId},
          type : Requests \cup {"none"}, inline : BOOLEAN, resp : Response]
Execs == [pc : ExecPcs, type : Requests \cup {"none"}, resp : Response]

TaskOK ==
  /\ task \in [Task -> Tasks]
  /\ \A t \in Task : task[t].pc # "idle" => task[t].conn \in Conn /\ task[t].id \in Id
CacheOK ==
  /\ cache \in [Id -> Response] /\ lru \in Seq(Id)
  /\ evictions \in [Id -> Nat] /\ since \in [Id -> SUBSET Id]

TypeOK ==
  /\ phase \in {"up", "closing", "draining", "stopped"}
  /\ handler \in [Conn -> {"absent", "reading", "inline", "draining", "done"}]
  /\ open \in [Conn -> BOOLEAN]
  /\ TaskOK
  /\ inflight \in [Id -> Execs]
  /\ lock \in Id \cup {NoId} /\ lockQ \in Seq(Id) /\ seen \in Id \cup {NoId}
  /\ CacheOK
  /\ calls \in [Id -> Nat]

InModel(i) == inflight[i].pc \in {"observe", "act"}
\* Whether the running execution of i has entered the model.
Entered(i) == InModel(i) \/ inflight[i].pc = "done"

\* The model runs a request once for every time its response could have been
\* kept: whatever duplicates arrive while it runs or afterwards, and whoever
\* disconnects meanwhile, it runs again only after the cache has dropped the
\* answer ("exactly-once semantics across client reconnect retries").
OneRunPerCacheEntry ==
  \A i \in Id :
    calls[i] <= evictions[i] + (IF Entered(i) \/ Cached(i) THEN 1 ELSE 0)

\* One model method at a time, run by the holder of the lock: the worker
\* threads of two requests are never inside the model together.
ModelSerial ==
  \A i \in Id : InModel(i) => lock = i

\* An INFER result is computed from the request's own observation, although
\* update_obs and get_action are two calls and other requests observe too.
InferSeesOwnObservation ==
  \A i \in Id : cache[i].type = "INFER" /\ cache[i].kind = "ok" => cache[i].obs = i

Answered(t) == task[t].pc \in {"sending", "closing", "done"}
               /\ task[t].resp.kind \notin {"reused", "rejected"}

\* While the response of an id was never dropped, everybody who asks for it
\* with the same type gets the same answer: the first waiter, one who joined
\* the running execution, and a replay, on whatever connection.
SameAnswer ==
  \A t, u \in Task :
    /\ Answered(t) /\ Answered(u)
    /\ task[t].id = task[u].id /\ task[t].type = task[u].type
    /\ evictions[task[t].id] = 0
    => task[t].resp = task[u].resp

\* A frame is answered with the result of its own message type, or refused.
AnswerOfOwnType ==
  \A t \in Task : Answered(t) => task[t].resp.type = task[t].type

\* The cache keeps the answers used last: an answer has fewer than CacheSize others
\* that were cached or replayed after it, and one that was dropped has that many.
KeepsRecent ==
  \A i \in Id :
    /\ Cached(i) => Cardinality(since[i]) < CacheSize
    /\ evictions[i] > 0 /\ ~Cached(i) => Cardinality(since[i]) >= CacheSize

\* A connection never has more than MaxPending unfinished respond tasks and
\* the one its handler awaits itself.
PendingBounded ==
  \A c \in Conn :
    Cardinality({t \in Task : Live(t) /\ task[t].conn = c}) <= MaxPending + 1

\* What was sent in answer to frames of id i: results, not refusals.
Told(i) ==
  {task[t].resp : t \in {u \in Task :
     /\ task[u].pc = "done" /\ task[u].id = i
     /\ task[u].resp.kind \notin {"reused", "rejected", "closing"}}}

\* What AnsweredOnce says of id i.  The loss of its answer ends the promise; a
\* CLOSE is executed and has no answer.
Progress(i) ==
  CASE evictions[i] > 0 -> "dropped"
    [] evictions[i] = 0 /\ Cached(i) -> "answered"
    [] evictions[i] = 0 /\ ~Cached(i) ->
         IF inflight[i].pc # "none" /\ inflight[i].type # "CLOSE" THEN "running" ELSE "new"
Requested(i) ==
  [state  |-> Progress(i),
   runs   |-> IF evictions[i] > 0 THEN 0 ELSE calls[i],
   answer |-> IF Progress(i) = "answered" THEN {Final(cache[i])} ELSE {},
   told   |-> IF evictions[i] > 0 THEN {} ELSE Told(i)]

Once == INSTANCE AnsweredOnce WITH Result <- Response, req <- [i \in Id |-> Requested(i)]

\* Duplicates, retries on other connections, lost connections, failed calls,
\* unencodable results, eviction, stop(): the server implements AnsweredOnce.
AnswersOnce == Once!Spec

ModelReturns == \A i \in Id : InModel(i) ~> ~InModel(i)

\* Every frame read from a connection is answered, or its waiter was detached
\* by the shutdown of its connection, as long as model methods return.
FrameSettles ==
  ModelReturns => \A t \in Task : task[t].pc = "new" ~>
                    task[t].pc \in {"done", "cancelled"} \/ phase = "stopped"

\* What was started ends and leaves the model lock, cancelled waiters or not,
\* as long as model methods return.
ExecutionEnds ==
  ModelReturns => \A i \in Id : Running(i) ~> ~Running(i) \/ phase = "stopped"

\* stop() returns although a model call hangs (the drain timeout's comment).
StopReturns == phase = "closing" ~> phase = "stopped"

\* The handler of a lost connection ends although a model call hangs (same
\* comment).
HandlerReturns ==
  \A c \in Conn : handler[c] = "reading" /\ ~open[c] ~>
    handler[c] = "done" \/ phase = "stopped"

=============================================================================
