--------------------------- MODULE PolicyServerProofs ---------------------------
(* Proofs about PolicyServer, for every set of connections, tasks, ids and   *)
(* types and every cache size and limit.                                     *)
EXTENDS PolicyServer, SequenceTheorems, FiniteSetTheorems, TLAPS

USE TypesAssumption, BoundsAssumption, NoneAssumption

\* Moving an entry to the end of the order keeps it a sequence of ids, and
\* never leaves it empty (move_to_end in _cache_response and process_frame).
LEMMA NewestType ==
  ASSUME lru \in Seq(Id), NEW i \in Id
  PROVE  Newest(i) \in Seq(Id) /\ Newest(i) # <<>>
<1> DEFINE at == {k \in 1..Len(lru) : lru[k] = i}
           rest == IF at = {} THEN lru ELSE RemoveAt(lru, CHOOSE k \in at : TRUE)
<1>1. ASSUME NEW k \in 1..Len(lru) PROVE RemoveAt(lru, k) \in Seq(Id)
  <2>1. SubSeq(lru, 1, k - 1) \in Seq(Id) /\ SubSeq(lru, k + 1, Len(lru)) \in Seq(Id)
    OBVIOUS
  <2> QED BY <2>1 DEF RemoveAt
<1>2. rest \in Seq(Id)
  <2>1. CASE at = {} BY <2>1
  <2>2. CASE at # {}
    <3>1. (CHOOSE k \in at : TRUE) \in at BY <2>2
    <3>2. (CHOOSE k \in at : TRUE) \in 1..Len(lru) BY <3>1
    <3>3. rest = RemoveAt(lru, CHOOSE k \in at : TRUE) BY <2>2
    <3> QED BY <1>1, <3>2, <3>3
  <2> QED BY <2>1, <2>2
<1> HIDE DEF rest
<1>3. Append(rest, i) \in Seq(Id) /\ Append(rest, i) # <<>> BY <1>2
<1> QED BY <1>3 DEF Newest, rest

\* A response that is made or rewritten is a response (_reply, _error_reply).
LEMMA ResponseType ==
  /\ NoResponse \in Response
  /\ \A kind \in Kinds, type \in Requests \cup {"none"}, run \in Nat, obs \in Id \cup {NoId} :
       Reply(kind, type, run, obs) \in Response
  /\ \A r \in Response : AsError(r) \in Response /\ AsError(r).kind = "error"
BY DEF Response, NoResponse, Reply, AsError, Kinds

\* Caching a response keeps the cache's type and loses no entry without
\* counting it (_cache_response).
LEMMA CacheResponseStep ==
  ASSUME TypeOK, NEW i \in Id, NEW r \in Response, r.kind # "none", CacheResponse(i, r)
  PROVE  /\ CacheOK'
         /\ \A j \in Id : evictions'[j] >= evictions[j]
         /\ \A j \in Id : Cached(j) \/ j = i => Cached(j)' \/ evictions'[j] > evictions[j]
         /\ \A j \in Id : Cached(j)' /\ j # i => cache'[j] = cache[j]
         /\ Cached(i)' => cache'[i] = r
<1> DEFINE order == Newest(i)
           over == Len(order) > CacheSize
           out == IF over THEN {Head(order)} ELSE {}
<1>1. order \in Seq(Id) /\ order # <<>> BY NewestType DEF TypeOK, CacheOK
<1> HIDE DEF order
<1>2. lru' = IF over THEN Tail(order) ELSE order BY DEF CacheResponse, order
<1>3. lru' \in Seq(Id) BY <1>1, <1>2
<1>4. cache' = [j \in Id |-> IF j \in out THEN NoResponse ELSE IF j = i THEN r ELSE cache[j]]
  BY DEF CacheResponse, order
<1>5. evictions' = [j \in Id |-> evictions[j] + (IF j \in out THEN 1 ELSE 0)]
  BY DEF CacheResponse, order
<1>9. since' \in [Id -> SUBSET Id] BY DEF CacheResponse, Use, TypeOK, CacheOK
<1> HIDE DEF out
<1>6. cache' \in [Id -> Response] BY <1>4, ResponseType DEF TypeOK, CacheOK
<1>7. evictions \in [Id -> Nat] /\ evictions' \in [Id -> Nat] BY <1>5 DEF TypeOK, CacheOK
<1>8. ASSUME NEW j \in Id
      PROVE /\ evictions'[j] >= evictions[j]
            /\ Cached(j) \/ j = i => Cached(j)' \/ evictions'[j] > evictions[j]
            /\ Cached(j)' /\ j # i => cache'[j] = cache[j]
            /\ Cached(j)' /\ j = i => cache'[j] = r
  <2>1. CASE j \in out
    <3>1. evictions'[j] = evictions[j] + 1 BY <1>5, <2>1
    <3>2. ~Cached(j)' BY <1>4, <2>1 DEF Cached, NoResponse
    <3> QED BY <1>7, <3>1, <3>2
  <2>2. CASE j \notin out
    <3>1. evictions'[j] = evictions[j] BY <1>5, <1>7, <2>2
    <3>2. cache'[j] = IF j = i THEN r ELSE cache[j] BY <1>4, <2>2
    <3> QED BY <1>7, <3>1, <3>2 DEF Cached
  <2> QED BY <2>1, <2>2
<1> QED BY <1>3, <1>6, <1>9, <1>7, <1>8 DEF CacheOK

\* What respond does with a response keeps the tasks' type.
LEMMA AnswerType ==
  ASSUME TypeOK, NEW t \in Task, task[t].pc # "idle", NEW r \in Response, Answer(t, r)
  PROVE  TaskOK'
<1> DEFINE pc == IF r.kind = "closing" THEN "closing" ELSE "sending"
           resp == Final(r)
<1>1. TaskOK BY DEF TypeOK
<1>2. pc \in Pcs BY DEF Pcs
<1>3. resp \in Response BY ResponseType DEF Final
<1>4. task' = [task EXCEPT ![t].pc = pc, ![t].resp = resp] BY DEF Answer
<1> HIDE DEF pc, resp
<1>5. [task[t] EXCEPT !.pc = pc, !.resp = resp] \in Tasks
  BY <1>1, <1>2, <1>3 DEF TaskOK, Tasks
<1>6. task' = [task EXCEPT ![t] = [task[t] EXCEPT !.pc = pc, !.resp = resp]]
  BY <1>1, <1>4 DEF TaskOK, Tasks
<1>7. task' \in [Task -> Tasks] BY <1>1, <1>5, <1>6 DEF TaskOK
<1>8. \A u \in Task : u # t => task'[u] = task[u] BY <1>1, <1>6 DEF TaskOK
<1>9. task'[t].conn = task[t].conn /\ task'[t].id = task[t].id
  BY <1>1, <1>6 DEF TaskOK, Tasks
<1> QED BY <1>1, <1>7, <1>8, <1>9 DEF TaskOK

\* The end of an execution keeps the types and makes its reply the cached
\* one, unless it has none (_execute_frame).
LEMMA ExecDoneStep ==
  ASSUME TypeOK, NEW i \in Id, NEW kind \in Kinds \ {"none"}, NEW run \in Nat,
         NEW obs \in Id \cup {NoId}, ExecDone(i, kind, run, obs)
  PROVE  /\ inflight' \in [Id -> Execs]
         /\ CacheOK'
<1> DEFINE r == Reply(kind, inflight[i].type, run, obs)
<1>1. r \in Response /\ r.kind # "none"
  <2>1. inflight[i].type \in Requests \cup {"none"} BY DEF TypeOK, Execs
  <2>2. r \in Response
    <3> HIDE DEF r
    <3>1. r = Reply(kind, inflight[i].type, run, obs) BY DEF r
    <3> QED BY <2>1, <3>1, ResponseType
  <2>3. r.kind = kind BY DEF Reply
  <2> QED BY <2>2, <2>3
<1> HIDE DEF r
<1>2. inflight' = [inflight EXCEPT ![i].pc = "done", ![i].resp = r] BY DEF ExecDone, r
<1>3. inflight' \in [Id -> Execs]
  <2>1. inflight \in [Id -> Execs] BY DEF TypeOK
  <2>2. [inflight[i] EXCEPT !.pc = "done", !.resp = r] \in Execs
    BY <1>1, <2>1 DEF Execs, ExecPcs
  <2>3. inflight' = [inflight EXCEPT ![i] = [inflight[i] EXCEPT !.pc = "done", !.resp = r]]
    BY <1>2, <2>1 DEF Execs
  <2> QED BY <2>1, <2>2, <2>3
<1>4. CASE kind = "closing" BY <1>3, <1>4 DEF ExecDone, cacheVars, TypeOK, CacheOK
<1>5. CASE kind # "closing"
  <2>1. CacheResponse(i, r) BY <1>5 DEF ExecDone, r
  <2> QED BY <1>1, <1>3, <2>1, CacheResponseStep
<1> QED BY <1>4, <1>5

\* A step that only moves an execution on keeps their type.
LEMMA ExecPcType ==
  ASSUME inflight \in [Id -> Execs], NEW i \in Id, NEW pc \in ExecPcs,
         inflight' = [inflight EXCEPT ![i].pc = pc]
  PROVE  inflight' \in [Id -> Execs]
BY DEF Execs

\* Entering the model, or queueing for it, keeps the types.
LEMMA EnterModelType ==
  ASSUME TypeOK, NEW i \in Id, EnterModel(i)
  PROVE  /\ lock' \in Id \cup {NoId} /\ calls' \in [Id -> Nat]
         /\ inflight' \in [Id -> Execs]
<1>1. inflight \in [Id -> Execs] BY DEF TypeOK
<1>2. FirstModelStep(inflight[i].type) \in ExecPcs BY DEF FirstModelStep, ExecPcs
<1>3. inflight' = [inflight EXCEPT ![i].pc = FirstModelStep(inflight[i].type)]
  BY DEF EnterModel
<1>4. inflight' \in [Id -> Execs] BY <1>1, <1>2, <1>3, ExecPcType
<1> QED BY <1>4 DEF EnterModel, TypeOK

LEMMA AcquireLockType ==
  ASSUME TypeOK, NEW i \in Id, AcquireLock(i)
  PROVE  /\ lock' \in Id \cup {NoId} /\ lockQ' \in Seq(Id) /\ calls' \in [Id -> Nat]
         /\ inflight' \in [Id -> Execs]
<1>1. CASE lock = NoId /\ lockQ = <<>>
  <2>1. EnterModel(i) /\ lockQ' = lockQ BY <1>1 DEF AcquireLock
  <2> QED BY <2>1, EnterModelType DEF TypeOK
<1>2. CASE ~(lock = NoId /\ lockQ = <<>>)
  <2>1. inflight \in [Id -> Execs] BY DEF TypeOK
  <2>2. inflight' = [inflight EXCEPT ![i].pc = "locking"] BY <1>2 DEF AcquireLock
  <2>3. inflight' \in [Id -> Execs] BY <2>1, <2>2, ExecPcType DEF ExecPcs
  <2>4. lockQ' = Append(lockQ, i) /\ lock' = lock /\ calls' = calls
    BY <1>2 DEF AcquireLock
  <2> QED BY <2>3, <2>4 DEF TypeOK
<1> QED BY <1>1, <1>2

\* The steps of the model, of the executions and of the respond tasks that
\* cache a response do so through one operator each.
LEMMA LeaveModelType ==
  ASSUME TypeOK, NEW i \in Id, NEW kind \in Kinds \ {"none"},
         NEW obs \in Id \cup {NoId}, LeaveModel(i, kind, obs)
  PROVE  /\ lock' \in Id \cup {NoId} /\ inflight' \in [Id -> Execs]
         /\ CacheOK'
<1>1. calls[i] \in Nat BY DEF TypeOK
<1> QED BY <1>1, ExecDoneStep DEF LeaveModel

\* A step that only moves a respond task on keeps their type.
LEMMA TaskPcType ==
  ASSUME TaskOK, NEW t \in Task, task[t].pc # "idle", NEW pc \in Pcs,
         task' = [task EXCEPT ![t].pc = pc]
  PROVE  TaskOK'
BY DEF TaskOK, Tasks

\* The steps of a connection's handler and of its peer keep the types.
LEMMA ConnTypeStep ==
  ASSUME TypeOK, NEW c \in Conn, Handle(c) \/ Peer(c)
  PROVE  TypeOK'
<1> USE DEF execVars, cacheVars
<1>1. CASE Accept(c) BY <1>1 DEF Accept, TypeOK, TaskOK, CacheOK
<1>2. ASSUME NEW t \in Task, NEW i \in Id, NEW type \in Types, Receive(c, t, i, type)
      PROVE TypeOK'
  <2> DEFINE malformed == type = "MALFORMED"
             got == [pc |-> IF malformed THEN "sending" ELSE "new", conn |-> c, id |-> i,
                     inline |-> malformed \/ AtLimit(c),
                     type |-> IF malformed THEN "none" ELSE type,
                     resp |-> IF malformed THEN Reply("rejected", "none", 0, NoId)
                              ELSE NoResponse]
  <2>1. Reply("rejected", "none", 0, NoId) \in Response BY ResponseType DEF Kinds
  <2>2. got.resp \in Response BY <2>1, ResponseType
  <2>3. got.type \in Requests \cup {"none"} BY TypesAssumption
  <2>4. got.inline \in BOOLEAN
    <3>1. AtLimit(c) \in BOOLEAN BY DEF AtLimit
    <3> QED BY <3>1
  <2>5. got.pc \in Pcs BY DEF Pcs
  <2>6. got \in Tasks /\ got.conn \in Conn /\ got.id \in Id
    BY <2>2, <2>3, <2>4, <2>5 DEF Tasks
  <2>7. task' = [task EXCEPT ![t] = got] BY <1>2 DEF Receive
  <2> HIDE DEF got
  <2>8. TaskOK'
    <3>1. TaskOK BY DEF TypeOK
    <3> QED BY <2>6, <2>7, <3>1 DEF TaskOK
  <2>9. /\ handler' \in [Conn -> {"absent", "reading", "inline", "draining", "done"}]
        /\ UNCHANGED <<phase, open, execVars, cacheVars>>
    BY <1>2 DEF Receive, TypeOK
  <2> QED BY <2>8, <2>9 DEF TypeOK, TaskOK, CacheOK
<1>3. CASE Lose(c) BY <1>3 DEF Lose, TypeOK, TaskOK, CacheOK
<1>4. CASE LeaveLoop(c) \/ Drained(c) BY <1>4 DEF LeaveLoop, Drained, TypeOK, TaskOK, CacheOK
<1>5. CASE DrainTimeout(c)
  <2>1. TaskOK BY DEF TypeOK
  <2>2. ASSUME NEW t \in Pending(c)
        PROVE  task'[t] \in Tasks /\ task'[t].conn \in Conn /\ task'[t].id \in Id
    <3>1. t \in Task /\ task[t].pc # "idle" BY DEF Pending, Live
    <3>2. task[t] \in Tasks /\ task[t].conn \in Conn /\ task[t].id \in Id
      BY <2>1, <3>1 DEF TaskOK
    <3>3. task'[t] = [task[t] EXCEPT !.pc = "cancelled"] BY <1>5, <3>1 DEF DrainTimeout
    <3> QED BY <3>2, <3>3 DEF Tasks, Pcs
  <2>3. \A t \in Task \ Pending(c) : task'[t] = task[t] BY <1>5 DEF DrainTimeout
  <2>4. task' = [t \in Task |-> task'[t]] BY <1>5 DEF DrainTimeout
  <2>5. TaskOK' BY <2>1, <2>2, <2>3, <2>4 DEF TaskOK
  <2>6. UNCHANGED <<phase, open, execVars, cacheVars>>
        /\ handler' \in [Conn -> {"absent", "reading", "inline", "draining", "done"}]
    BY <1>5 DEF DrainTimeout, TypeOK
  <2> QED BY <2>5, <2>6 DEF TypeOK, TaskOK, CacheOK
<1> QED BY <1>1, <1>2, <1>3, <1>4, <1>5 DEF Handle, Peer

\* The steps of a respond task keep the types.
LEMMA RespondTypeStep ==
  ASSUME TypeOK, NEW t \in Task, Respond(t)
  PROVE  TypeOK'
<1> DEFINE i == task[t].id
<1>1. task[t].pc # "idle"
  BY DEF Respond, Replay, Join, Execute, Wake, Send, CloseSocket
<1>2. i \in Id /\ task[t] \in Tasks BY <1>1 DEF TypeOK, TaskOK
<1>3. ReusedId(t) \in Response BY <1>2, ResponseType DEF ReusedId, Kinds, Tasks
<1>4. CASE Replay(t)
  <2> DEFINE r == cache[i]
  <2>1. r \in Response BY <1>2 DEF TypeOK, CacheOK
  <2>2. TaskOK'
    <3>1. Answer(t, ReusedId(t)) \/ Answer(t, r) BY <1>4 DEF Replay
    <3> QED BY <1>1, <1>3, <2>1, <3>1, AnswerType
  <2>3. CacheOK'
    <3>1. CASE CacheResponse(i, AsError(r))
      BY <1>2, <2>1, <3>1, ResponseType, CacheResponseStep
    <3>2. CASE lru' = Newest(i) /\ Use(i) /\ UNCHANGED <<cache, evictions>>
      BY <1>2, <3>2, NewestType DEF Use, TypeOK, CacheOK
    <3>3. CASE UNCHANGED cacheVars BY <3>3 DEF TypeOK, CacheOK, cacheVars
    <3> QED BY <1>4, <3>1, <3>2, <3>3 DEF Replay
  <2> QED BY <1>4, <2>2, <2>3 DEF Replay, TypeOK, execVars
<1>5. CASE Join(t)
  <2> DEFINE r == inflight[i].resp
  <2>1. r \in Response BY <1>2 DEF TypeOK, Execs
  <2>2. TaskOK'
    <3>1. CASE Answer(t, ReusedId(t)) \/ Answer(t, r)
      BY <1>1, <1>3, <2>1, <3>1, AnswerType
    <3>2. CASE task' = [task EXCEPT ![t].pc = "waiting"]
      BY <1>1, <3>2, TaskPcType DEF TypeOK, Pcs
    <3> QED BY <1>5, <3>1, <3>2 DEF Join
  <2>3. CacheOK'
    <3>1. CASE CacheResponse(i, AsError(r))
      BY <1>2, <2>1, <3>1, ResponseType, CacheResponseStep
    <3>2. CASE UNCHANGED cacheVars BY <3>2 DEF TypeOK, CacheOK, cacheVars
    <3> QED BY <1>5, <3>1, <3>2 DEF Join
  <2> QED BY <1>5, <2>2, <2>3 DEF Join, TypeOK, execVars
<1>6. CASE Execute(t)
  <2> DEFINE e == [pc |-> "created", type |-> task[t].type, resp |-> NoResponse]
  <2>1. e \in Execs BY <1>2, ResponseType DEF Execs, ExecPcs, Tasks
  <2>2. inflight' = [inflight EXCEPT ![i] = e] BY <1>6 DEF Execute
  <2>3. task' = [task EXCEPT ![t].pc = "waiting"] BY <1>6 DEF Execute
  <2> HIDE DEF e
  <2>4. inflight' \in [Id -> Execs] BY <1>2, <2>1, <2>2 DEF TypeOK
  <2>5. TaskOK' BY <1>1, <2>3, TaskPcType DEF TypeOK, Pcs
  <2>6. UNCHANGED <<phase, handler, open, lock, lockQ, seen, calls, cacheVars>>
    BY <1>6 DEF Execute, cacheVars
  <2> QED BY <2>4, <2>5, <2>6 DEF TypeOK, CacheOK, cacheVars
<1>7. CASE Wake(t)
  <2> DEFINE r == task[t].resp
  <2>1. r \in Response BY <1>2 DEF Tasks
  <2>2. TaskOK'
    <3>1. Answer(t, r) BY <1>7 DEF Wake
    <3> QED BY <1>1, <2>1, <3>1, AnswerType
  <2>3. CacheOK'
    <3>1. CASE CacheResponse(i, AsError(r))
      BY <1>2, <2>1, <3>1, ResponseType, CacheResponseStep
    <3>2. CASE UNCHANGED cacheVars BY <3>2 DEF TypeOK, CacheOK, cacheVars
    <3> QED BY <1>7, <3>1, <3>2 DEF Wake
  <2> QED BY <1>7, <2>2, <2>3 DEF Wake, TypeOK, execVars
<1>8. CASE Send(t) \/ CloseSocket(t)
  <2>1. task' = [task EXCEPT ![t].pc = "done"] BY <1>8 DEF Send, CloseSocket, Finish
  <2>2. TaskOK' BY <1>1, <2>1, TaskPcType DEF TypeOK, Pcs
  <2>3. handler' \in [Conn -> {"absent", "reading", "inline", "draining", "done"}]
    BY <1>8 DEF Send, CloseSocket, Finish, TypeOK
  <2>4. open' \in [Conn -> BOOLEAN] /\ UNCHANGED <<phase, execVars, cacheVars>>
    BY <1>8 DEF Send, CloseSocket, TypeOK
  <2> QED BY <2>2, <2>3, <2>4 DEF TypeOK, CacheOK, execVars, cacheVars
<1> QED BY <1>4, <1>5, <1>6, <1>7, <1>8 DEF Respond

\* The steps of an execution and of the model method it calls keep the types.
LEMMA ExecTypeStep ==
  ASSUME TypeOK, NEW i \in Id, Exec(i) \/ Model(i)
  PROVE  TypeOK'
<1>1. CASE AnswerWithoutModel(i)
  <2>1. \E kind \in {"ok", "error", "closing"} : ExecDone(i, kind, 0, NoId)
    BY <1>1 DEF AnswerWithoutModel
  <2>2. inflight' \in [Id -> Execs] /\ CacheOK' BY <2>1, ExecDoneStep DEF Kinds
  <2> QED BY <1>1, <2>2 DEF AnswerWithoutModel, TypeOK, TaskOK
<1>2. CASE CallModel(i)
  BY <1>2, AcquireLockType DEF CallModel, TypeOK, TaskOK, CacheOK, cacheVars
<1>3. CASE StartDecode(i)
  <2>1. inflight' \in [Id -> Execs] BY <1>3, ExecPcType DEF StartDecode, TypeOK, ExecPcs
  <2> QED BY <1>3, <2>1 DEF StartDecode, TypeOK, TaskOK, CacheOK, cacheVars
<1>4. CASE EndDecode(i)
  <2>1. CASE AcquireLock(i) /\ UNCHANGED cacheVars
    BY <1>4, <2>1, AcquireLockType DEF EndDecode, TypeOK, TaskOK, CacheOK, cacheVars
  <2>2. CASE ExecDone(i, "error", 0, NoId) /\ UNCHANGED <<lock, lockQ, calls>>
    BY <1>4, <2>2, ExecDoneStep DEF EndDecode, Kinds, TypeOK, TaskOK
  <2> QED BY <1>4, <2>1, <2>2 DEF EndDecode
<1>5. CASE Grant(i)
  <2>1. /\ lock' \in Id \cup {NoId} /\ calls' \in [Id -> Nat] /\ inflight' \in [Id -> Execs]
    BY <1>5, EnterModelType DEF Grant
  <2>2. lockQ' \in Seq(Id) BY <1>5 DEF Grant, TypeOK
  <2>3. UNCHANGED <<phase, handler, open, task, seen, cacheVars>> BY <1>5 DEF Grant
  <2> QED BY <2>1, <2>2, <2>3 DEF TypeOK, TaskOK, CacheOK, cacheVars
<1>6. CASE Reap(i)
  <2>1. inflight[i].resp \in Response BY DEF TypeOK, Execs
  <2>2. NotRunning \in Execs BY ResponseType DEF NotRunning, Execs, ExecPcs
  <2>3. inflight' \in [Id -> Execs] BY <1>6, <2>2 DEF Reap, TypeOK
  <2>4. ASSUME NEW t \in Task
        PROVE  task'[t] \in Tasks /\ (task'[t].pc # "idle" =>
                 task'[t].conn \in Conn /\ task'[t].id \in Id)
    <3> DEFINE woken == [task[t] EXCEPT !.pc = "woken", !.resp = inflight[i].resp]
    <3>1. task[t] \in Tasks /\ (task[t].pc # "idle" =>
            task[t].conn \in Conn /\ task[t].id \in Id)
      BY DEF TypeOK, TaskOK
    <3>2. woken \in Tasks /\ woken.conn = task[t].conn /\ woken.id = task[t].id
      BY <2>1, <3>1 DEF Tasks, Pcs
    <3>3. task'[t] = IF task[t].pc = "waiting" /\ task[t].id = i THEN woken ELSE task[t]
      BY <1>6 DEF Reap
    <3> HIDE DEF woken
    <3> QED BY <3>1, <3>2, <3>3
  <2>5. task' = [t \in Task |-> task'[t]] BY <1>6 DEF Reap
  <2>6. TaskOK' BY <2>4, <2>5 DEF TaskOK
  <2> QED BY <1>6, <2>3, <2>6 DEF Reap, TypeOK, CacheOK, cacheVars
<1>7. CASE Observe(i)
  <2>1. CASE LeaveModel(i, "error", NoId) /\ UNCHANGED seen
    <3>1. /\ lock' \in Id \cup {NoId} /\ inflight' \in [Id -> Execs] /\ CacheOK'
      BY <2>1, LeaveModelType DEF Kinds
    <3> QED BY <2>1, <3>1 DEF LeaveModel, TypeOK, TaskOK
  <2>2. CASE /\ seen' = i /\ inflight' = [inflight EXCEPT ![i].pc = "act"]
             /\ UNCHANGED <<phase, handler, open, task, lock, lockQ, calls, cacheVars>>
    <3>1. inflight' \in [Id -> Execs] BY <2>2, ExecPcType DEF TypeOK, ExecPcs
    <3> QED BY <2>2, <3>1 DEF TypeOK, TaskOK, CacheOK, cacheVars
  <2> QED BY <1>7, <2>1, <2>2 DEF Observe
<1>8. CASE Act(i)
  <2>1. PICK kind \in {"ok", "error", "unencodable"} :
          LeaveModel(i, kind, IF inflight[i].type = "INFER" THEN seen ELSE NoId)
    BY <1>8 DEF Act
  <2>2. seen \in Id \cup {NoId} BY DEF TypeOK
  <2>3. seen' \in Id \cup {NoId} BY <1>8, <2>2 DEF Act, SeenAfter
  <2>4. lock' \in Id \cup {NoId} /\ inflight' \in [Id -> Execs] /\ CacheOK'
    BY <2>1, <2>2, LeaveModelType DEF Kinds
  <2> QED BY <2>1, <2>3, <2>4 DEF LeaveModel, TypeOK, TaskOK
<1> QED BY <1>1, <1>2, <1>3, <1>4, <1>5, <1>6, <1>7, <1>8 DEF Exec, Model

\* Every step keeps the types.
LEMMA TypeStep == TypeOK /\ [Next]_vars => TypeOK'
<1> SUFFICES ASSUME TypeOK, [Next]_vars PROVE TypeOK'
  OBVIOUS
<1>1. CASE Stop \/ Closed \/ StopDone
  BY <1>1 DEF Stop, Closed, StopDone, TypeOK, TaskOK, CacheOK, execVars, cacheVars
<1>2. CASE UNCHANGED vars
  BY <1>2 DEF vars, TypeOK, TaskOK, CacheOK
<1> QED BY <1>1, <1>2, ConnTypeStep, RespondTypeStep, ExecTypeStep DEF Next

\* The state of the server has its type in every reachable state, whatever the
\* number of connections, tasks and ids and whatever the cache size.
THEOREM TypeCorrect == Spec => []TypeOK
<1>1. Init => TypeOK
  BY ResponseType DEF Init, TypeOK, TaskOK, CacheOK, Idle, NotRunning, Tasks, Execs, Pcs, ExecPcs
<1> QED BY <1>1, TypeStep, PTL DEF Spec

-----------------------------------------------------------------------------
(* The model lock.                                                           *)

\* The waiters of the lock are executions parked in `async with _model_lock`,
\* each once; whoever is in the model holds the lock.
LockInv ==
  /\ \A k \in 1..Len(lockQ) : inflight[lockQ[k]].pc = "locking"
  /\ \A k, m \in 1..Len(lockQ) : lockQ[k] = lockQ[m] => k = m
  /\ ModelSerial

\* A step that leaves the lock, its queue and the executions' places alone, or
\* moves an execution between places outside the lock, keeps LockInv.
LEMMA OutsideLock ==
  ASSUME TypeOK, LockInv, UNCHANGED <<lock, lockQ>>,
         \A j \in Id : inflight'[j].pc = inflight[j].pc
                       \/ /\ inflight[j].pc # "locking"
                          /\ inflight'[j].pc \notin {"observe", "act"}
  PROVE  LockInv'
<1>1. \A k \in 1..Len(lockQ) : lockQ[k] \in Id BY DEF TypeOK
<1>2. \A k \in 1..Len(lockQ) : inflight'[lockQ[k]].pc = "locking"
  BY <1>1 DEF LockInv
<1>3. ModelSerial' BY DEF LockInv, ModelSerial, InModel
<1> QED BY <1>2, <1>3 DEF LockInv

\* The place of the executions after one of them moved to place pc.
Moved(i, pc) ==
  /\ inflight'[i].pc = pc
  /\ \A j \in Id \ {i} : inflight'[j].pc = inflight[j].pc

LEMMA MovedByPc ==
  ASSUME TypeOK, NEW i \in Id, NEW pc, inflight' = [inflight EXCEPT ![i].pc = pc]
  PROVE  Moved(i, pc)
BY DEF Moved, TypeOK, Execs

LEMMA MovedByExecDone ==
  ASSUME TypeOK, NEW i \in Id, NEW kind, NEW run, NEW obs, ExecDone(i, kind, run, obs)
  PROVE  Moved(i, "done")
BY DEF Moved, TypeOK, Execs, ExecDone

\* Taking the free lock, directly or from the head of the queue.
LEMMA EnterModelLock ==
  ASSUME TypeOK, LockInv, NEW i \in Id, EnterModel(i), lock = NoId,
         \/ lockQ = <<>> /\ lockQ' = lockQ
         \/ lockQ # <<>> /\ i = Head(lockQ) /\ lockQ' = Tail(lockQ)
  PROVE  LockInv'
<1>1. Moved(i, FirstModelStep(inflight[i].type)) BY MovedByPc DEF EnterModel
<1>2. lock' = i BY DEF EnterModel
<1>3. \A j \in Id : ~InModel(j) BY NoneAssumption DEF LockInv, ModelSerial
<1>4. ModelSerial' BY <1>1, <1>2, <1>3 DEF ModelSerial, InModel, Moved
<1>5. CASE lockQ = <<>> /\ lockQ' = lockQ BY <1>4, <1>5 DEF LockInv
<1>6. CASE lockQ # <<>> /\ i = Head(lockQ) /\ lockQ' = Tail(lockQ)
  <2>1. lockQ \in Seq(Id) BY DEF TypeOK
  <2>2. Len(lockQ') = Len(lockQ) - 1 /\ \A k \in 1..Len(lockQ') : lockQ'[k] = lockQ[k + 1]
    BY <1>6, <2>1
  <2>3. i = lockQ[1] /\ Len(lockQ) \in Nat /\ Len(lockQ) >= 1 BY <1>6, <2>1
  <2>4. \A k \in 1..Len(lockQ') : k + 1 \in 1..Len(lockQ) BY <2>2, <2>3
  <2>5. \A k \in 1..Len(lockQ') : lockQ'[k] \in Id /\ lockQ'[k] # i
    <3>1. \A k \in 1..Len(lockQ') : lockQ'[k] \in Id BY <2>1, <2>2, <2>4
    <3>2. ASSUME NEW k \in 1..Len(lockQ'), lockQ'[k] = i PROVE FALSE
      <4>1. lockQ[k + 1] = lockQ[1] /\ 1 \in 1..Len(lockQ) BY <2>2, <2>3, <3>2
      <4>2. k + 1 = 1 BY <2>4, <4>1 DEF LockInv
      <4> QED BY <4>2
    <3> QED BY <3>1, <3>2
  <2>6. \A k \in 1..Len(lockQ') : inflight'[lockQ'[k]].pc = "locking"
    BY <1>1, <2>2, <2>4, <2>5 DEF Moved, LockInv
  <2>7. ASSUME NEW k \in 1..Len(lockQ'), NEW m \in 1..Len(lockQ'), lockQ'[k] = lockQ'[m]
        PROVE k = m
    <3>1. k + 1 = m + 1 BY <2>2, <2>4, <2>7 DEF LockInv
    <3> QED BY <3>1
  <2> QED BY <1>4, <2>6, <2>7 DEF LockInv
<1> QED BY <1>5, <1>6

\* Asking for the lock from outside it (`async with self._model_lock`).
LEMMA AcquireLockInv ==
  ASSUME TypeOK, LockInv, NEW i \in Id, AcquireLock(i),
         inflight[i].pc \in {"created", "decoding"}
  PROVE  LockInv'
<1>1. CASE lock = NoId /\ lockQ = <<>>
  BY <1>1, EnterModelLock DEF AcquireLock
<1>2. CASE ~(lock = NoId /\ lockQ = <<>>)
  <2>1. lockQ' = Append(lockQ, i) /\ lock' = lock
        /\ inflight' = [inflight EXCEPT ![i].pc = "locking"]
    BY <1>2 DEF AcquireLock
  <2>2. Moved(i, "locking") BY <2>1, MovedByPc
  <2>3. ModelSerial' BY <2>1, <2>2 DEF ModelSerial, InModel, Moved, LockInv
  <2>4. lockQ \in Seq(Id) BY DEF TypeOK
  <2>5. /\ Len(lockQ') = Len(lockQ) + 1 /\ lockQ'[Len(lockQ) + 1] = i
        /\ \A k \in 1..Len(lockQ) : lockQ'[k] = lockQ[k] /\ lockQ[k] \in Id
    BY <2>1, <2>4
  <2>6. \A k \in 1..Len(lockQ) : lockQ[k] # i BY DEF LockInv
  <2>7. \A k \in 1..Len(lockQ') : k \in 1..Len(lockQ) \/ k = Len(lockQ) + 1
    BY <2>4, <2>5
  <2>8. \A k \in 1..Len(lockQ') : inflight'[lockQ'[k]].pc = "locking"
    BY <2>2, <2>5, <2>6, <2>7 DEF Moved, LockInv
  <2>9. \A k, m \in 1..Len(lockQ') : lockQ'[k] = lockQ'[m] => k = m
    BY <2>5, <2>6, <2>7 DEF LockInv
  <2> QED BY <2>3, <2>8, <2>9 DEF LockInv
<1> QED BY <1>1, <1>2

\* Leaving the model releases the lock (the end of the `async with`).
LEMMA LeaveModelLock ==
  ASSUME TypeOK, LockInv, NEW i \in Id, InModel(i), NEW kind, NEW obs, LeaveModel(i, kind, obs)
  PROVE  LockInv'
<1>1. Moved(i, "done") /\ lockQ' = lockQ BY MovedByExecDone DEF LeaveModel
<1>2. \A j \in Id : InModel(j) => j = i BY DEF LockInv, ModelSerial
<1>3. \A j \in Id : ~InModel(j)' BY <1>1, <1>2 DEF Moved, InModel
<1>4. lockQ \in Seq(Id) BY DEF TypeOK
<1>5. \A k \in 1..Len(lockQ) : lockQ[k] \in Id /\ lockQ[k] # i
  BY <1>4 DEF LockInv, InModel
<1> QED BY <1>1, <1>3, <1>5 DEF LockInv, ModelSerial, Moved

\* Every step keeps LockInv.
LEMMA LockStep == TypeOK /\ LockInv /\ [Next]_vars => LockInv'
<1> SUFFICES ASSUME TypeOK, LockInv, [Next]_vars PROVE LockInv'
  OBVIOUS
<1>1. CASE UNCHANGED <<inflight, lock, lockQ>>
  BY <1>1 DEF LockInv, ModelSerial, InModel
<1>2. ASSUME NEW t \in Task, Execute(t) PROVE LockInv'
  <2>1. task[t].id \in Id BY <1>2 DEF Execute, TypeOK, TaskOK
  <2>2. Moved(task[t].id, "created") /\ inflight[task[t].id].pc = "none"
    BY <1>2, <2>1 DEF Execute, Moved, Running, TypeOK
  <2> QED BY <1>2, <2>1, <2>2, OutsideLock DEF Execute, Moved
<1>3. ASSUME NEW i \in Id, AnswerWithoutModel(i) PROVE LockInv'
  <2>1. Moved(i, "done") BY <1>3, MovedByExecDone DEF AnswerWithoutModel
  <2> QED BY <1>3, <2>1, OutsideLock DEF AnswerWithoutModel, Moved
<1>4. ASSUME NEW i \in Id, CallModel(i) PROVE LockInv'
  BY <1>4, AcquireLockInv DEF CallModel
<1>5. ASSUME NEW i \in Id, StartDecode(i) PROVE LockInv'
  <2>1. Moved(i, "decoding") BY <1>5, MovedByPc DEF StartDecode
  <2> QED BY <1>5, <2>1, OutsideLock DEF StartDecode, Moved
<1>6. ASSUME NEW i \in Id, EndDecode(i) PROVE LockInv'
  <2>1. CASE AcquireLock(i) BY <1>6, <2>1, AcquireLockInv DEF EndDecode
  <2>2. CASE ExecDone(i, "error", 0, NoId) /\ UNCHANGED <<lock, lockQ, calls>>
    <3>1. Moved(i, "done") BY <2>2, MovedByExecDone
    <3> QED BY <1>6, <2>2, <3>1, OutsideLock DEF EndDecode, Moved
  <2> QED BY <1>6, <2>1, <2>2 DEF EndDecode
<1>7. ASSUME NEW i \in Id, Grant(i) PROVE LockInv'
  BY <1>7, EnterModelLock DEF Grant
<1>8. ASSUME NEW i \in Id, Reap(i) PROVE LockInv'
  <2>1. Moved(i, "none") BY <1>8 DEF Reap, Moved, NotRunning, TypeOK
  <2> QED BY <1>8, <2>1, OutsideLock DEF Reap, Moved
<1>9. ASSUME NEW i \in Id, Observe(i) PROVE LockInv'
  <2>1. CASE LeaveModel(i, "error", NoId) BY <1>9, <2>1, LeaveModelLock DEF Observe, InModel
  <2>2. CASE inflight' = [inflight EXCEPT ![i].pc = "act"] /\ UNCHANGED <<lock, lockQ>>
    <3>1. Moved(i, "act") BY <2>2, MovedByPc
    <3> QED BY <1>9, <2>2, <3>1 DEF Observe, Moved, LockInv, ModelSerial, InModel, TypeOK
  <2> QED BY <1>9, <2>1, <2>2 DEF Observe
<1>10. ASSUME NEW i \in Id, Act(i) PROVE LockInv'
  BY <1>10, LeaveModelLock DEF Act, InModel
<1>11. CASE Stop \/ Closed \/ StopDone \/ UNCHANGED vars
  BY <1>1, <1>11 DEF Stop, Closed, StopDone, vars, execVars
<1>12. ASSUME NEW c \in Conn, Handle(c) \/ Peer(c) PROVE LockInv'
  BY <1>1, <1>12 DEF Handle, Peer, LeaveLoop, Drained, DrainTimeout, Accept, Lose, Receive, execVars
<1>13. ASSUME NEW t \in Task, Respond(t), ~Execute(t) PROVE LockInv'
  BY <1>1, <1>13 DEF Respond, Replay, Join, Wake, Send, CloseSocket, execVars
<1> QED BY <1>2, <1>3, <1>4, <1>5, <1>6, <1>7, <1>8, <1>9, <1>10, <1>11, <1>12, <1>13
    DEF Next, Exec, Model

\* One model method runs at a time, and its caller holds the model lock.
THEOREM ModelSerialCorrect == Spec => []ModelSerial
<1>1. Init => LockInv
  BY DEF Init, LockInv, ModelSerial, InModel, NotRunning
<1>2. LockInv => ModelSerial BY DEF LockInv
<1> QED BY <1>1, <1>2, LockStep, TypeCorrect, PTL DEF Spec

-----------------------------------------------------------------------------
(* At most one run of the model per cache entry.                             *)

\* The inductive form.  Before the model every earlier run has lost its entry;
\* once outside it again, the last run is the one the cache may hold.
RunInvOf(i) ==
  /\ inflight[i].pc \in {"created", "decoding", "locking"} => calls[i] <= evictions[i]
  /\ InModel(i) => calls[i] <= evictions[i] + 1
  /\ inflight[i].pc \in {"none", "done"} =>
       calls[i] <= evictions[i] \/ (Cached(i) /\ calls[i] <= evictions[i] + 1)

RunInv == \A i \in Id : RunInvOf(i)

\* No entry is lost without being counted.
CacheKept(j) ==
  /\ evictions'[j] \in Nat /\ evictions'[j] >= evictions[j]
  /\ Cached(j) => Cached(j)' \/ evictions'[j] > evictions[j]

LEMMA CacheKeptSame ==
  ASSUME TypeOK, NEW j \in Id, UNCHANGED <<cache, evictions>>
  PROVE  CacheKept(j)
BY DEF CacheKept, Cached, TypeOK, CacheOK

LEMMA CacheKeptResponse ==
  ASSUME TypeOK, NEW i \in Id, NEW r \in Response, r.kind # "none", CacheResponse(i, r),
         NEW j \in Id
  PROVE  CacheKept(j)
BY CacheResponseStep DEF CacheKept, CacheOK

\* An execution that does not move and does not run keeps its part.
LEMMA RunKept ==
  ASSUME TypeOK, NEW j \in Id, RunInvOf(j), CacheKept(j), calls'[j] = calls[j],
         inflight'[j].pc = inflight[j].pc
  PROVE  RunInvOf(j)'
<1>1. calls[j] \in Nat /\ evictions[j] \in Nat BY DEF TypeOK, CacheOK
<1> QED BY <1>1 DEF RunInvOf, CacheKept, InModel

\* A step of the executions, with the cache left alone: i enters the model from
\* before it, or moves on before it.
LEMMA BeforeModel ==
  ASSUME TypeOK, RunInv, NEW i \in Id, UNCHANGED <<cache, evictions>>,
         inflight[i].pc \in {"created", "decoding", "locking"},
         \/ EnterModel(i)
         \/ UNCHANGED calls /\ \E pc \in {"decoding", "locking"} : Moved(i, pc)
  PROVE  RunInv'
<1>1. calls[i] \in Nat /\ evictions[i] \in Nat /\ calls[i] <= evictions[i]
  BY DEF TypeOK, CacheOK, RunInv, RunInvOf
<1>2. CASE EnterModel(i)
  <2>1. Moved(i, FirstModelStep(inflight[i].type)) BY <1>2, MovedByPc DEF EnterModel
  <2>2. calls'[i] = calls[i] + 1 /\ \A j \in Id \ {i} : calls'[j] = calls[j]
    BY <1>2 DEF EnterModel, TypeOK
  <2>3. RunInvOf(i)'
    <3>1. inflight'[i].pc \in {"observe", "act"} BY <2>1 DEF Moved, FirstModelStep
    <3> QED BY <1>1, <2>2, <3>1 DEF RunInvOf
  <2>4. \A j \in Id \ {i} : RunInvOf(j)'
    BY <2>1, <2>2, CacheKeptSame, RunKept DEF RunInv, Moved
  <2> QED BY <2>3, <2>4 DEF RunInv
<1>3. CASE UNCHANGED calls /\ \E pc \in {"decoding", "locking"} : Moved(i, pc)
  <2>1. RunInvOf(i)' BY <1>1, <1>3 DEF RunInvOf, Moved, InModel
  <2>2. \A j \in Id \ {i} : RunInvOf(j)'
    BY <1>3, CacheKeptSame, RunKept DEF RunInv, Moved
  <2> QED BY <2>1, <2>2 DEF RunInv
<1> QED BY <1>2, <1>3

LEMMA AcquireLockRun ==
  ASSUME TypeOK, RunInv, NEW i \in Id, AcquireLock(i), UNCHANGED cacheVars,
         inflight[i].pc \in {"created", "decoding"}
  PROVE  RunInv'
<1>1. CASE lock = NoId /\ lockQ = <<>>
  BY <1>1, BeforeModel DEF AcquireLock, cacheVars
<1>2. CASE ~(lock = NoId /\ lockQ = <<>>)
  <2>1. Moved(i, "locking") /\ UNCHANGED calls BY <1>2, MovedByPc DEF AcquireLock
  <2> QED BY <2>1, BeforeModel DEF cacheVars
<1> QED BY <1>1, <1>2

\* The end of an execution: its reply is cached, or it never ran the model.
LEMMA ExecDoneRun ==
  ASSUME TypeOK, RunInv, NEW i \in Id, NEW kind \in Kinds \ {"none"}, NEW run \in Nat,
         NEW obs \in Id \cup {NoId}, ExecDone(i, kind, run, obs), UNCHANGED calls,
         inflight[i].pc \in ExecPcs \ {"none", "done"},
         kind = "closing" => ~InModel(i)
  PROVE  RunInv'
<1> DEFINE r == Reply(kind, inflight[i].type, run, obs)
<1>1. Moved(i, "done") BY MovedByExecDone
<1>2. /\ calls[i] \in Nat /\ evictions[i] \in Nat
      /\ calls[i] <= evictions[i] + 1
      /\ ~InModel(i) => calls[i] <= evictions[i]
  BY DEF TypeOK, CacheOK, RunInv, RunInvOf, InModel, ExecPcs
<1>3. CASE kind = "closing"
  <2>1. UNCHANGED <<cache, evictions>> BY <1>3 DEF ExecDone, cacheVars
  <2>2. RunInvOf(i)' BY <1>1, <1>2, <1>3, <2>1 DEF RunInvOf, Moved, InModel
  <2>3. \A j \in Id \ {i} : RunInvOf(j)'
    BY <1>1, <2>1, CacheKeptSame, RunKept DEF RunInv, Moved
  <2> QED BY <2>2, <2>3 DEF RunInv
<1>4. CASE kind # "closing"
  <2>1. inflight[i].type \in Requests \cup {"none"} BY DEF TypeOK, Execs
  <2>2. r \in Response BY <2>1, ResponseType
  <2>3. r.kind # "none" BY DEF Reply
  <2>4. CacheResponse(i, r) BY <1>4 DEF ExecDone
  <2> HIDE DEF r
  <2>5. evictions'[i] \in Nat /\ (\/ Cached(i)' /\ evictions'[i] >= evictions[i]
                                \/ evictions'[i] > evictions[i])
    BY <2>2, <2>3, <2>4, CacheResponseStep DEF CacheOK
  <2>6. RunInvOf(i)' BY <1>1, <1>2, <2>5 DEF RunInvOf, Moved, InModel
  <2>7. \A j \in Id \ {i} : CacheKept(j) BY <2>2, <2>3, <2>4, CacheKeptResponse
  <2>8. \A j \in Id \ {i} : RunInvOf(j)' BY <1>1, <2>7, RunKept DEF RunInv, Moved
  <2> QED BY <2>6, <2>8 DEF RunInv
<1> QED BY <1>3, <1>4

\* The steps of a respond task: a response written over its own entry keeps the
\* cache, a new execution starts only for an id that has none.
LEMMA RespondRun ==
  ASSUME TypeOK, RunInv, NEW t \in Task, Respond(t)
  PROVE  RunInv'
<1>1. task[t].id \in Id /\ task[t].resp \in Response
  BY DEF Respond, Replay, Join, Execute, Wake, Send, CloseSocket, TypeOK, TaskOK, Tasks
<1>i. PICK i \in Id : i = task[t].id
  BY <1>1
<1>2. CASE Execute(t)
  <2>1. UNCHANGED <<cache, evictions, calls>> BY <1>2 DEF Execute, cacheVars
  <2>2. Moved(i, "created") BY <1>i, <1>2 DEF Execute, Moved, TypeOK
  <2>3. RunInvOf(i)'
    <3>1. inflight[i].pc = "none" /\ ~Cached(i) BY <1>i, <1>2 DEF Execute, Running
    <3>2. RunInvOf(i) BY DEF RunInv
    <3>3. calls[i] <= evictions[i] BY <3>1, <3>2 DEF RunInvOf
    <3>4. calls'[i] <= evictions'[i] /\ inflight'[i].pc = "created"
      BY <2>1, <2>2, <3>3 DEF Moved
    <3> QED BY <3>4 DEF RunInvOf, InModel
  <2>4. \A j \in Id \ {i} : RunInvOf(j)'
    <3>1. \A j \in Id \ {i} : CacheKept(j) /\ calls'[j] = calls[j]
                            /\ inflight'[j].pc = inflight[j].pc
      BY <2>1, <2>2, CacheKeptSame DEF Moved
    <3> QED BY <3>1, RunKept DEF RunInv
  <2> QED BY <2>3, <2>4 DEF RunInv
<1>3. CASE ~Execute(t)
  <2>1. UNCHANGED <<inflight, calls>>
    BY <1>3 DEF Respond, Replay, Join, Wake, Send, CloseSocket, execVars
  <2>2. cache[i] \in Response /\ inflight[i].resp \in Response
    BY DEF TypeOK, CacheOK, Execs
  <2>3. \/ UNCHANGED <<cache, evictions>>
        \/ \E r \in Response : CacheResponse(i, AsError(r))
    BY <1>1, <1>i, <1>3, <2>2
       DEF Respond, Replay, Join, Wake, Send, CloseSocket, cacheVars
  <2>4. \A j \in Id : CacheKept(j)
    <3>1. CASE UNCHANGED <<cache, evictions>> BY <3>1, CacheKeptSame
    <3>2. ASSUME NEW r \in Response, CacheResponse(i, AsError(r))
          PROVE \A j \in Id : CacheKept(j)
      <4>1. AsError(r) \in Response /\ AsError(r).kind # "none" BY ResponseType
      <4> QED BY <1>1, <3>2, <4>1, CacheKeptResponse
    <3> QED BY <2>3, <3>1, <3>2
  <2> QED BY <2>1, <2>4, RunKept DEF RunInv
<1> QED BY <1>2, <1>3

\* Every step keeps RunInv.  A granted lock finds its waiter before the model.
LEMMA RunStep == TypeOK /\ LockInv /\ RunInv /\ [Next]_vars => RunInv'
<1> SUFFICES ASSUME TypeOK, LockInv, RunInv, [Next]_vars PROVE RunInv'
  OBVIOUS
<1>1. CASE UNCHANGED <<inflight, calls, cache, evictions>>
  BY <1>1, CacheKeptSame, RunKept DEF RunInv
<1>2. ASSUME NEW i \in Id, AnswerWithoutModel(i) PROVE RunInv'
  <2>1. \E kind \in {"ok", "error", "closing"} : ExecDone(i, kind, 0, NoId)
    BY <1>2 DEF AnswerWithoutModel
  <2>2. inflight[i].pc = "created" /\ UNCHANGED calls BY <1>2 DEF AnswerWithoutModel
  <2> QED BY <2>1, <2>2, ExecDoneRun DEF Kinds, ExecPcs, InModel
<1>3. ASSUME NEW i \in Id, CallModel(i) PROVE RunInv'
  BY <1>3, AcquireLockRun DEF CallModel
<1>4. ASSUME NEW i \in Id, StartDecode(i) PROVE RunInv'
  <2>1. Moved(i, "decoding") BY <1>4, MovedByPc DEF StartDecode
  <2> QED BY <1>4, <2>1, BeforeModel DEF StartDecode, cacheVars
<1>5. ASSUME NEW i \in Id, EndDecode(i) PROVE RunInv'
  <2>1. CASE AcquireLock(i) /\ UNCHANGED cacheVars
    BY <1>5, <2>1, AcquireLockRun DEF EndDecode
  <2>2. CASE ExecDone(i, "error", 0, NoId) /\ UNCHANGED <<lock, lockQ, calls>>
    BY <1>5, <2>2, ExecDoneRun DEF EndDecode, Kinds, ExecPcs, InModel
  <2> QED BY <1>5, <2>1, <2>2 DEF EndDecode
<1>6. ASSUME NEW i \in Id, Grant(i) PROVE RunInv'
  <2>1. lockQ \in Seq(Id) BY DEF TypeOK
  <2>2. 1 \in 1..Len(lockQ) /\ lockQ[1] = i BY <1>6, <2>1 DEF Grant
  <2>3. inflight[i].pc = "locking" BY <2>2 DEF LockInv
  <2> QED BY <1>6, <2>3, BeforeModel DEF Grant, cacheVars
<1>7. ASSUME NEW i \in Id, Reap(i) PROVE RunInv'
  <2>1. Moved(i, "none") BY <1>7 DEF Reap, Moved, NotRunning, TypeOK
  <2>2. UNCHANGED <<cache, evictions, calls>> BY <1>7 DEF Reap, cacheVars
  <2>3. RunInvOf(i)' BY <1>7, <2>1, <2>2 DEF Reap, RunInv, RunInvOf, Moved, InModel, Cached
  <2>4. \A j \in Id \ {i} : RunInvOf(j)'
    BY <2>1, <2>2, CacheKeptSame, RunKept DEF RunInv, Moved
  <2> QED BY <2>3, <2>4 DEF RunInv
<1>8. ASSUME NEW i \in Id, Model(i) PROVE RunInv'
  <2>1. InModel(i) /\ inflight[i].pc \in ExecPcs \ {"none", "done"}
    BY <1>8 DEF Model, Observe, Act, InModel, ExecPcs
  <2>2. ASSUME NEW kind \in {"ok", "error", "unencodable"}, NEW obs \in Id \cup {NoId},
               LeaveModel(i, kind, obs)
        PROVE RunInv'
    <3>1. calls[i] \in Nat BY DEF TypeOK
    <3>2. ExecDone(i, kind, calls[i], obs) /\ UNCHANGED calls BY <2>2 DEF LeaveModel
    <3>3. kind \in Kinds \ {"none"} /\ kind # "closing" BY DEF Kinds
    <3> QED BY <2>1, <3>1, <3>2, <3>3, ExecDoneRun
  <2>3. CASE /\ inflight[i].pc = "observe" /\ inflight' = [inflight EXCEPT ![i].pc = "act"]
             /\ UNCHANGED <<phase, handler, open, task, lock, lockQ, calls, cacheVars>>
    <3>1. Moved(i, "act") BY <2>3, MovedByPc
    <3>2. UNCHANGED <<cache, evictions>> BY <2>3 DEF cacheVars
    <3>3. RunInvOf(i)' BY <2>1, <2>3, <3>1, <3>2 DEF RunInv, RunInvOf, Moved, InModel
    <3>4. \A j \in Id \ {i} : RunInvOf(j)'
      BY <2>3, <3>1, <3>2, CacheKeptSame, RunKept DEF RunInv, Moved
    <3> QED BY <3>3, <3>4 DEF RunInv
  <2>4. CASE Observe(i) BY <2>2, <2>3, <2>4 DEF Observe
  <2>5. CASE Act(i)
    <3>1. PICK kind \in {"ok", "error", "unencodable"} :
            LeaveModel(i, kind, IF inflight[i].type = "INFER" THEN seen ELSE NoId)
      BY <2>5 DEF Act
    <3>2. seen \in Id \cup {NoId} BY DEF TypeOK
    <3> QED BY <2>2, <3>1, <3>2
  <2> QED BY <1>8, <2>4, <2>5 DEF Model
<1>9. CASE Stop \/ Closed \/ StopDone \/ UNCHANGED vars
  BY <1>1, <1>9 DEF Stop, Closed, StopDone, vars, execVars, cacheVars
<1>10. ASSUME NEW c \in Conn, Handle(c) \/ Peer(c) PROVE RunInv'
  BY <1>1, <1>10 DEF Handle, Peer, LeaveLoop, Drained, DrainTimeout, Accept, Lose, Receive,
                     execVars, cacheVars
<1> QED BY <1>2, <1>3, <1>4, <1>5, <1>6, <1>7, <1>8, <1>9, <1>10, RespondRun
    DEF Next, Exec

\* The model is entered for a request at most once more than the cache has
\* forgotten the request's answer, whatever the duplicates, the disconnections,
\* the shutdown and the size of the cache.
THEOREM OneRunCorrect == Spec => []OneRunPerCacheEntry
<1>1. Init => LockInv /\ RunInv
  BY DEF Init, LockInv, ModelSerial, InModel, NotRunning, RunInv, RunInvOf
<1>2. TypeOK /\ RunInv => OneRunPerCacheEntry
  <2>1. ASSUME TypeOK, RunInv, NEW i \in Id
        PROVE  calls[i] <= evictions[i] + (IF Entered(i) \/ Cached(i) THEN 1 ELSE 0)
    <3>1. calls[i] \in Nat /\ evictions[i] \in Nat /\ inflight[i].pc \in ExecPcs
      BY <2>1 DEF TypeOK, CacheOK, Execs
    <3> QED BY <2>1, <3>1 DEF RunInv, RunInvOf, Entered, InModel, ExecPcs
  <2> QED BY <2>1 DEF OneRunPerCacheEntry
<1> QED BY <1>1, <1>2, LockStep, RunStep, TypeCorrect, PTL DEF Spec

-----------------------------------------------------------------------------
(* What the answers are made of.                                             *)

\* A step of an execution moves it on before its end, maybe into the model, ends
\* it with a reply of its own type, or is its done callbacks.
Proceeds(i) ==
  /\ UNCHANGED <<task, cacheVars>>
  /\ inflight[i].pc \notin {"none", "done"}
  /\ inflight[i].pc = "created" => inflight[i].type \in Locked \cup Decoded
  /\ \/ UNCHANGED calls
     \/ ~InModel(i) /\ calls' = [calls EXCEPT ![i] = @ + 1]
  /\ \E pc \in ExecPcs \ {"none", "created", "done"} :
       inflight' = [inflight EXCEPT ![i].pc = pc]

\* Its result is that of its run of the model, if any, and of its observation.
Ends(i) ==
  /\ UNCHANGED <<task, calls>>
  /\ inflight[i].pc \notin {"none", "done"}
  /\ \E kind \in Kinds \ {"none", "reused", "rejected"}, run \in Nat, obs \in Id \cup {NoId} :
       /\ ExecDone(i, kind, run, obs)
       /\ kind = "closing" <=> inflight[i].pc = "created" /\ inflight[i].type = "CLOSE"
       /\ kind = "closing" => run = 0 /\ obs = NoId
       /\ run = IF InModel(i) THEN calls[i] ELSE 0
       /\ inflight[i].type = "INFER" /\ kind = "ok" => inflight[i].pc = "act" /\ obs = seen

LEMMA ExecEffect ==
  ASSUME TypeOK, LockInv, NEW i \in Id, Exec(i) \/ Model(i)
  PROVE  Proceeds(i) \/ Ends(i) \/ Reap(i)
<1>1. FirstModelStep(inflight[i].type) \in ExecPcs \ {"none", "created", "done"}
  BY DEF FirstModelStep, ExecPcs
<1>2. {"decoding", "locking", "act"} \subseteq ExecPcs \ {"none", "created", "done"}
  BY DEF ExecPcs
<1>3. ASSUME AcquireLock(i) \/ EnterModel(i)
      PROVE  /\ \E pc \in ExecPcs \ {"none", "created", "done"} :
                  inflight' = [inflight EXCEPT ![i].pc = pc]
             /\ UNCHANGED calls \/ calls' = [calls EXCEPT ![i] = @ + 1]
  BY <1>1, <1>2, <1>3 DEF AcquireLock, EnterModel
<1>4. CASE AnswerWithoutModel(i)
  <2>1. PICK kind \in {"ok", "error", "closing"} :
          /\ ExecDone(i, kind, 0, NoId)
          /\ kind = "closing" <=> inflight[i].type = "CLOSE"
          /\ inflight[i].type = "INFER" => kind # "ok"
    BY <1>4 DEF AnswerWithoutModel, Immediate
  <2>2. kind \in Kinds \ {"none", "reused", "rejected"} BY DEF Kinds
  <2>3. inflight[i].pc = "created" /\ UNCHANGED <<task, calls>> BY <1>4 DEF AnswerWithoutModel
  <2> QED BY <2>1, <2>2, <2>3 DEF Ends, InModel
<1>5. CASE CallModel(i) BY <1>3, <1>5 DEF CallModel, Proceeds, Decoded, InModel
<1>6. CASE StartDecode(i) BY <1>2, <1>6 DEF StartDecode, Proceeds
<1>7. CASE EndDecode(i)
  <2>1. inflight[i].pc = "decoding" /\ UNCHANGED task BY <1>7 DEF EndDecode
  <2>2. CASE AcquireLock(i) /\ UNCHANGED cacheVars BY <1>3, <2>1, <2>2 DEF Proceeds, InModel
  <2>3. CASE ExecDone(i, "error", 0, NoId) /\ UNCHANGED calls
    BY <2>1, <2>3 DEF Ends, Kinds, InModel
  <2> QED BY <1>7, <2>2, <2>3 DEF EndDecode
<1>8. CASE Grant(i)
  <2>1. lockQ \in Seq(Id) BY DEF TypeOK
  <2>2. 1 \in 1..Len(lockQ) /\ lockQ[1] = i BY <1>8, <2>1 DEF Grant
  <2>3. inflight[i].pc = "locking" BY <2>2 DEF LockInv
  <2> QED BY <1>3, <1>8, <2>3 DEF Grant, Proceeds, InModel
<1>9. ASSUME NEW kind \in {"ok", "error", "unencodable"}, NEW obs \in Id \cup {NoId},
             LeaveModel(i, kind, obs), inflight[i].pc \in {"observe", "act"},
             inflight[i].type = "INFER" /\ kind = "ok" => inflight[i].pc = "act" /\ obs = seen
      PROVE  Ends(i)
  <2>1. kind \in Kinds \ {"none", "reused", "rejected"} /\ kind # "closing" BY DEF Kinds
  <2>2. calls[i] \in Nat BY DEF TypeOK
  <2>3. ExecDone(i, kind, calls[i], obs) /\ UNCHANGED <<task, calls>> BY <1>9 DEF LeaveModel
  <2> QED BY <1>9, <2>1, <2>2, <2>3 DEF Ends, InModel
<1>10. CASE Observe(i)
  <2>1. CASE LeaveModel(i, "error", NoId) BY <1>9, <1>10, <2>1 DEF Observe
  <2>2. CASE ~LeaveModel(i, "error", NoId) BY <1>2, <1>10, <2>2 DEF Observe, Proceeds
  <2> QED BY <2>1, <2>2
<1>11. CASE Act(i)
  <2>1. PICK kind \in {"ok", "error", "unencodable"} :
          LeaveModel(i, kind, IF inflight[i].type = "INFER" THEN seen ELSE NoId)
    BY <1>11 DEF Act
  <2>2. seen \in Id \cup {NoId} /\ inflight[i].pc = "act" BY <1>11 DEF TypeOK, Act
  <2> QED BY <1>9, <2>1, <2>2
<1> QED BY <1>4, <1>5, <1>6, <1>7, <1>8, <1>10, <1>11 DEF Exec, Model

\* A respond task writes the cache only to replace an answer that could not be
\* encoded: the cached one, that of the execution, or the one it was woken with.
LEMMA RespondId == ASSUME TypeOK, NEW t \in Task, Respond(t) PROVE task[t].id \in Id
BY DEF Respond, Replay, Join, Execute, Wake, Send, CloseSocket, TypeOK, TaskOK

LEMMA RespondCache ==
  ASSUME TypeOK, NEW t \in Task, Respond(t), NEW i \in Id, i = task[t].id
  PROVE  \/ UNCHANGED <<cache, evictions>>
         \/ \E r \in Response :
              /\ r.kind = "unencodable" /\ CacheResponse(i, AsError(r))
              /\ \/ r = cache[i]
                 \/ inflight[i].pc = "done" /\ r = inflight[i].resp
                 \/ task[t].pc = "woken" /\ r = task[t].resp
<1>1. task[t].resp \in Response /\ cache[i] \in Response /\ inflight[i].resp \in Response
  BY DEF TypeOK, TaskOK, Tasks, CacheOK, Execs
<1>2. CASE Replay(t) BY <1>1, <1>2 DEF Replay, Encodable, cacheVars
<1>3. CASE Join(t) BY <1>1, <1>3 DEF Join, Encodable, cacheVars
<1>4. CASE Wake(t) BY <1>1, <1>4 DEF Wake, Encodable, cacheVars
<1>5. CASE Execute(t) \/ Send(t) \/ CloseSocket(t)
  BY <1>5 DEF Execute, Send, CloseSocket, cacheVars
<1> QED BY <1>2, <1>3, <1>4, <1>5 DEF Respond

-----------------------------------------------------------------------------
(* An INFER is computed from its own observation.                            *)

\* Between the two halves of an INFER the model holds the observation of it.
ObsInv ==
  /\ \A i \in Id : inflight[i].pc = "act" /\ inflight[i].type = "INFER" => seen = i
  /\ InferSeesOwnObservation

\* A response put into the cache keeps the property when it has it itself.
LEMMA CachedObservation ==
  ASSUME TypeOK, ObsInv, NEW i \in Id, NEW r \in Response, r.kind # "none",
         CacheResponse(i, r), r.type = "INFER" /\ r.kind = "ok" => r.obs = i
  PROVE  InferSeesOwnObservation'
<1> SUFFICES ASSUME NEW j \in Id, cache'[j].type = "INFER", cache'[j].kind = "ok"
    PROVE  cache'[j].obs = j
  BY DEF InferSeesOwnObservation
<1>1. Cached(j)' BY DEF Cached
<1>2. CASE j = i BY <1>1, <1>2, CacheResponseStep
<1>3. CASE j # i
  <2>1. cache'[j] = cache[j] BY <1>1, <1>3, CacheResponseStep
  <2> QED BY <2>1 DEF ObsInv, InferSeesOwnObservation
<1> QED BY <1>2, <1>3

LEMMA ObsStep == TypeOK /\ LockInv /\ ObsInv /\ [Next]_vars => ObsInv'
<1> SUFFICES ASSUME TypeOK, LockInv, ObsInv, [Next]_vars PROVE ObsInv'
  OBVIOUS
<1> DEFINE Own == \A i \in Id : inflight[i].pc = "act" /\ inflight[i].type = "INFER" => seen = i
<1>1. CASE UNCHANGED <<inflight, seen, cache>>
  BY <1>1 DEF ObsInv, InferSeesOwnObservation
<1>2. ASSUME NEW t \in Task, Respond(t) PROVE ObsInv'
  <2>1. Own'
    <3>1. CASE Execute(t) BY <1>2, <3>1 DEF Execute, ObsInv, TypeOK, TaskOK
    <3>2. CASE UNCHANGED <<inflight, seen>> BY <3>2 DEF ObsInv
    <3> QED BY <1>2, <3>1, <3>2 DEF Respond, Replay, Join, Wake, Send, CloseSocket, execVars
  <2>2. InferSeesOwnObservation'
    <3>1. CASE UNCHANGED <<cache, evictions>> BY <3>1 DEF ObsInv, InferSeesOwnObservation
    <3>2. ASSUME NEW i \in Id, NEW r \in Response, CacheResponse(i, AsError(r))
          PROVE InferSeesOwnObservation'
      <4>1. AsError(r) \in Response /\ AsError(r).kind = "error" BY ResponseType
      <4> QED BY <3>2, <4>1, CachedObservation
    <3>3. PICK i \in Id : i = task[t].id BY <1>2, RespondId
    <3> QED BY <1>2, <3>1, <3>2, <3>3, RespondCache
  <2> QED BY <2>1, <2>2 DEF ObsInv
<1>3. ASSUME NEW i \in Id, Exec(i) \/ Model(i) PROVE ObsInv'
  <2>1. CASE Proceeds(i)
    <3>1. PICK pc \in ExecPcs : inflight' = [inflight EXCEPT ![i].pc = pc]
      BY <2>1 DEF Proceeds
    <3>2. InferSeesOwnObservation'
      BY <2>1 DEF Proceeds, cacheVars, ObsInv, InferSeesOwnObservation
    <3>3. CASE Observe(i)
      <4>1. lock = i /\ \A j \in Id : InModel(j) => j = i
        BY <3>3 DEF Observe, LockInv, ModelSerial, InModel
      <4>2. CASE seen' = i
        <5>1. \A j \in Id : inflight'[j].pc = "act" => j = i
          BY <3>1, <4>1 DEF TypeOK, InModel
        <5> QED BY <3>2, <4>2, <5>1 DEF ObsInv
      <4>3. CASE LeaveModel(i, "error", NoId)
        <5>1. Moved(i, "done") BY <4>3, MovedByExecDone DEF LeaveModel
        <5>2. \A j \in Id : ~InModel(j)' BY <4>1, <5>1 DEF Moved, InModel
        <5> QED BY <3>2, <5>2 DEF ObsInv, InModel
      <4> QED BY <3>3, <4>2, <4>3 DEF Observe
    <3>4. CASE Act(i)
      <4>1. \A j \in Id : InModel(j) => j = i BY <3>4 DEF Act, LockInv, ModelSerial, InModel
      <4>2. Moved(i, "done") BY <3>4, MovedByExecDone DEF Act, LeaveModel
      <4>3. \A j \in Id : ~InModel(j)' BY <4>1, <4>2 DEF Moved, InModel
      <4> QED BY <3>2, <4>3 DEF ObsInv, InModel
    <3>5. CASE Exec(i)
      <4>1. UNCHANGED seen
        BY <3>5 DEF Exec, AnswerWithoutModel, CallModel, StartDecode, EndDecode, Grant, Reap
      <4>2. inflight'[i].type = "INFER" => inflight'[i].pc # "act"
        <5>1. inflight'[i].type = inflight[i].type BY <3>1 DEF TypeOK, Execs
        <5>2. CASE EnterModel(i) BY <5>1, <5>2 DEF EnterModel, FirstModelStep, TypeOK, Execs
        <5>3. CASE ~EnterModel(i)
          <6>1. \E p \in {"done", "locking", "decoding", "none"} : Moved(i, p)
            <7>1. CASE Reap(i) BY <7>1 DEF Reap, Moved, NotRunning, TypeOK
            <7>2. CASE AnswerWithoutModel(i) BY <7>2, MovedByExecDone DEF AnswerWithoutModel
            <7>3. CASE AcquireLock(i) BY <5>3, <7>3, MovedByPc DEF AcquireLock
            <7>4. CASE StartDecode(i) BY <7>4, MovedByPc DEF StartDecode
            <7>5. CASE EndDecode(i) BY <7>3, <7>5, MovedByExecDone DEF EndDecode
            <7> QED BY <3>5, <5>3, <7>1, <7>2, <7>3, <7>4, <7>5 DEF Exec, CallModel, Grant
          <6> QED BY <6>1 DEF Moved
        <5> QED BY <5>2, <5>3
      <4>3. \A j \in Id : j # i => inflight'[j] = inflight[j] BY <3>1 DEF TypeOK
      <4> QED BY <3>2, <4>1, <4>2, <4>3 DEF ObsInv
    <3> QED BY <1>3, <3>3, <3>4, <3>5 DEF Model
  <2>2. CASE Ends(i)
    <3>1. PICK kind \in Kinds \ {"none"}, run \in Nat, obs \in Id \cup {NoId} :
            /\ ExecDone(i, kind, run, obs)
            /\ inflight[i].type = "INFER" /\ kind = "ok" => inflight[i].pc = "act" /\ obs = seen
      BY <2>2 DEF Ends
    <3>2. Moved(i, "done") BY <3>1, MovedByExecDone
    <3>3. \A j \in Id : j # i => inflight'[j] = inflight[j] BY <3>1 DEF ExecDone, TypeOK
    <3>4. Own'
      <4>1. CASE UNCHANGED seen BY <3>2, <3>3, <4>1 DEF ObsInv, Moved
      <4>2. CASE InModel(i)
        <5>1. \A j \in Id : InModel(j) => j = i BY <4>2 DEF LockInv, ModelSerial
        <5>2. \A j \in Id : ~InModel(j)' BY <3>2, <5>1 DEF Moved, InModel
        <5> QED BY <5>2 DEF InModel
      <4> QED
        BY <1>3, <4>1, <4>2 DEF Exec, Model, Observe, Act, InModel, AnswerWithoutModel, CallModel,
                                StartDecode, EndDecode, Grant, Reap
    <3>5. InferSeesOwnObservation'
      <4> DEFINE r == Reply(kind, inflight[i].type, run, obs)
      <4>1. r \in Response BY ResponseType DEF TypeOK, Execs
      <4>2. r.kind = kind /\ r.type = inflight[i].type /\ r.obs = obs BY DEF Reply
      <4>3. CacheResponse(i, r) \/ UNCHANGED cacheVars BY <3>1 DEF ExecDone
      <4> HIDE DEF r
      <4>4. r.type = "INFER" /\ r.kind = "ok" => r.obs = i BY <3>1, <4>2 DEF ObsInv
      <4>5. CASE CacheResponse(i, r) BY <4>1, <4>2, <4>4, <4>5, CachedObservation
      <4>6. CASE UNCHANGED cacheVars BY <4>6 DEF cacheVars, ObsInv, InferSeesOwnObservation
      <4> QED BY <4>3, <4>5, <4>6
    <3> QED BY <3>4, <3>5 DEF ObsInv
  <2>3. CASE Reap(i)
    <3>1. Moved(i, "none") BY <2>3 DEF Reap, Moved, NotRunning, TypeOK
    <3>2. \A j \in Id : j # i => inflight'[j] = inflight[j] BY <2>3 DEF Reap, TypeOK
    <3> QED BY <2>3, <3>1, <3>2 DEF Reap, Moved, ObsInv, InferSeesOwnObservation, cacheVars
  <2> QED BY <1>3, <2>1, <2>2, <2>3, ExecEffect
<1>4. CASE Stop \/ Closed \/ StopDone \/ UNCHANGED vars
  BY <1>1, <1>4 DEF Stop, Closed, StopDone, vars, execVars, cacheVars
<1>5. ASSUME NEW c \in Conn, Handle(c) \/ Peer(c) PROVE ObsInv'
  BY <1>1, <1>5 DEF Handle, Peer, LeaveLoop, Drained, DrainTimeout, Accept, Lose, Receive,
                    execVars, cacheVars
<1> QED BY <1>2, <1>3, <1>4, <1>5 DEF Next

\* An INFER result is computed from the request's own observation, whatever other
\* requests hand to the model meanwhile.
THEOREM InferSeesOwnCorrect == Spec => []InferSeesOwnObservation
<1>1. Init => LockInv /\ ObsInv
  BY DEF Init, LockInv, ModelSerial, InModel, NotRunning, ObsInv, InferSeesOwnObservation, NoResponse
<1>2. ObsInv => InferSeesOwnObservation BY DEF ObsInv
<1> QED BY <1>1, <1>2, LockStep, ObsStep, TypeCorrect, PTL DEF Spec

-----------------------------------------------------------------------------
(* An answer is of the type that was asked for.                              *)

\* Whoever waits for an execution waits for one of its own type.
TypesInv ==
  /\ \A i \in Id : inflight[i].pc = "done" =>
       /\ inflight[i].resp.type = inflight[i].type
       /\ inflight[i].resp.kind \notin {"none", "reused", "rejected"}
  /\ \A t \in Task : task[t].pc = "waiting" =>
       Running(task[t].id) /\ inflight[task[t].id].type = task[t].type
  /\ \A t \in Task : task[t].pc = "woken" => task[t].resp.type = task[t].type
  /\ AnswerOfOwnType

\* Answering moves one task, to a reply that keeps the response's type.
LEMMA AnswerEffect ==
  ASSUME TypeOK, NEW t \in Task, NEW r \in Response, Answer(t, r)
  PROVE  /\ task'[t].resp = Final(r) /\ Final(r).type = r.type
         /\ task'[t].pc \in {"sending", "closing"}
         /\ task'[t].id = task[t].id /\ task'[t].type = task[t].type
         /\ \A u \in Task : u # t => task'[u] = task[u]
<1> DEFINE pc == IF r.kind = "closing" THEN "closing" ELSE "sending"
           resp == Final(r)
<1>1. task' = [task EXCEPT ![t].pc = pc, ![t].resp = resp] BY DEF Answer
<1>2. pc \in {"sending", "closing"} OBVIOUS
<1>3. resp.type = r.type BY DEF Final, AsError, Response
<1> HIDE DEF pc, resp
<1>4. resp = Final(r) BY DEF resp
<1> QED BY <1>1, <1>2, <1>3, <1>4 DEF TypeOK, TaskOK, Tasks

\* A step of an execution that is not its done callbacks keeps its type.
LEMMA ExecKeepsType ==
  ASSUME TypeOK, NEW i \in Id, Proceeds(i) \/ Ends(i)
  PROVE  /\ UNCHANGED task /\ Running(i)'
         /\ inflight'[i].type = inflight[i].type
         /\ \A j \in Id : j # i => inflight'[j] = inflight[j]
<1>1. inflight[i] \in Execs BY DEF TypeOK
<1>2. CASE Proceeds(i)
  <2>1. PICK pc \in ExecPcs \ {"none", "created", "done"} :
          inflight' = [inflight EXCEPT ![i].pc = pc]
    BY <1>2 DEF Proceeds
  <2> QED BY <1>1, <1>2, <2>1 DEF Proceeds, Running, TypeOK, Execs
<1>3. CASE Ends(i)
  <2>1. PICK r : inflight' = [inflight EXCEPT ![i].pc = "done", ![i].resp = r]
    BY <1>3 DEF Ends, ExecDone
  <2> QED BY <1>1, <1>3, <2>1 DEF Ends, Running, TypeOK, Execs
<1> QED BY <1>2, <1>3

LEMMA TypesStep == TypeOK /\ LockInv /\ TypesInv /\ [Next]_vars => TypesInv'
<1> SUFFICES ASSUME TypeOK, LockInv, TypesInv, [Next]_vars PROVE TypesInv'
  OBVIOUS
<1>0. /\ \A t \in Task : task[t].resp \in Response /\ (task[t].pc # "idle" => task[t].id \in Id)
      /\ \A i \in Id : cache[i] \in Response /\ inflight[i].resp \in Response
  BY DEF TypeOK, TaskOK, Tasks, CacheOK, Execs
<1>1. CASE UNCHANGED <<task, inflight>>
  BY <1>1 DEF TypesInv, Running, AnswerOfOwnType, Answered
<1>2. ASSUME NEW t \in Task, NEW r \in Response, task[t].pc \in {"new", "woken"}, Answer(t, r),
             UNCHANGED inflight, r.kind # "reused" => r.type = task[t].type
      PROVE  TypesInv'
  <2>1. /\ task'[t].resp = Final(r) /\ Final(r).type = r.type
        /\ task'[t].pc \in {"sending", "closing"}
        /\ task'[t].id = task[t].id /\ task'[t].type = task[t].type
        /\ \A u \in Task : u # t => task'[u] = task[u]
    BY <1>2, AnswerEffect
  <2>2. r.kind = "reused" => Final(r).kind = "reused" BY DEF Final, Encodable
  <2>3. Answered(t)' => task'[t].resp.type = task'[t].type BY <1>2, <2>1, <2>2 DEF Answered
  <2>4. AnswerOfOwnType' BY <2>1, <2>3 DEF TypesInv, AnswerOfOwnType, Answered
  <2> QED BY <1>2, <2>1, <2>4 DEF TypesInv, Running
<1>3. ASSUME NEW t \in Task
      PROVE  ReusedId(t) \in Response /\ ReusedId(t).kind = "reused"
  <2>1. task[t].type \in Requests \cup {"none"} BY DEF TypeOK, TaskOK, Tasks
  <2>2. "reused" \in Kinds /\ 0 \in Nat /\ NoId \in Id \cup {NoId} BY DEF Kinds
  <2> QED BY <2>1, <2>2, ResponseType DEF ReusedId, Reply
<1>4. ASSUME NEW t \in Task, Replay(t) PROVE TypesInv'
  <2>1. task[t].pc = "new" /\ UNCHANGED inflight BY <1>4 DEF Replay, execVars
  <2>2. CASE TypeMismatch(cache[task[t].id], t)
    <3>1. Answer(t, ReusedId(t)) BY <1>4, <2>2 DEF Replay
    <3> QED BY <1>2, <1>3, <2>1, <3>1
  <2>3. CASE ~TypeMismatch(cache[task[t].id], t)
    <3>1. Answer(t, cache[task[t].id]) BY <1>4, <2>3 DEF Replay
    <3> QED BY <1>0, <1>2, <2>1, <2>3, <3>1 DEF TypeMismatch
  <2> QED BY <2>2, <2>3
<1>5. ASSUME NEW t \in Task, Join(t) PROVE TypesInv'
  <2> DEFINE e == inflight[task[t].id]
  <2>1. task[t].pc = "new" /\ UNCHANGED inflight /\ task[t].id \in Id /\ Running(task[t].id)
    BY <1>0, <1>5 DEF Join, execVars
  <2>2. CASE TypeMismatch(e, t)
    <3>1. Answer(t, ReusedId(t)) BY <1>5, <2>2 DEF Join
    <3> QED BY <1>2, <1>3, <2>1, <3>1
  <2>3. CASE ~TypeMismatch(e, t) /\ e.pc = "done"
    <3>1. Answer(t, e.resp) BY <1>5, <2>3 DEF Join
    <3>2. e.resp.type = task[t].type BY <2>1, <2>3 DEF TypesInv, TypeMismatch
    <3> QED BY <1>0, <1>2, <2>1, <3>1, <3>2
  <2>4. CASE ~TypeMismatch(e, t) /\ e.pc # "done"
    <3>1. task' = [task EXCEPT ![t].pc = "waiting"] BY <1>5, <2>4 DEF Join
    <3> QED BY <2>1, <2>4, <3>1
        DEF TypesInv, TypeMismatch, TypeOK, TaskOK, Tasks, Running, AnswerOfOwnType, Answered
  <2> QED BY <2>2, <2>3, <2>4
<1>6. ASSUME NEW t \in Task, Execute(t) PROVE TypesInv'
  <2>1. task[t].id \in Id BY <1>0, <1>6 DEF Execute
  <2>2. /\ task' = [task EXCEPT ![t].pc = "waiting"] /\ inflight[task[t].id].pc = "none"
        /\ inflight' = [inflight EXCEPT ![task[t].id] =
             [pc |-> "created", type |-> task[t].type, resp |-> NoResponse]]
    BY <1>6 DEF Execute, Running
  <2>3. inflight'[task[t].id].pc = "created" /\ inflight'[task[t].id].type = task[t].type
    BY <2>1, <2>2 DEF TypeOK
  <2>4. \A j \in Id : j # task[t].id => inflight'[j] = inflight[j] BY <2>2 DEF TypeOK
  <2>5. /\ task'[t].pc = "waiting" /\ task'[t].id = task[t].id /\ task'[t].type = task[t].type
        /\ \A u \in Task : u # t => task'[u] = task[u]
    BY <2>2 DEF TypeOK, TaskOK, Tasks
  <2>6. \A u \in Task : task[u].pc = "waiting" => task[u].id # task[t].id /\ task[u].id \in Id
    BY <1>0, <2>2 DEF TypesInv, Running
  <2>7. AnswerOfOwnType' BY <2>5 DEF TypesInv, AnswerOfOwnType, Answered
  <2>8. \A u \in Task : task'[u].pc = "waiting" =>
          Running(task[u].id)' /\ inflight'[task'[u].id].type = task'[u].type
    BY <2>3, <2>4, <2>5, <2>6 DEF TypesInv, Running
  <2> QED BY <2>3, <2>4, <2>5, <2>7, <2>8 DEF TypesInv, Running
<1>7. ASSUME NEW t \in Task, Wake(t) PROVE TypesInv'
  <2>1. /\ task[t].pc = "woken" /\ UNCHANGED inflight /\ Answer(t, task[t].resp)
    BY <1>7 DEF Wake, execVars
  <2>2. task[t].resp.type = task[t].type BY <2>1 DEF TypesInv
  <2> QED BY <1>0, <1>2, <2>1, <2>2
<1>8. ASSUME NEW t \in Task, Send(t) \/ CloseSocket(t) PROVE TypesInv'
  <2>1. /\ task[t].pc \in {"sending", "closing"} /\ task' = [task EXCEPT ![t].pc = "done"]
        /\ UNCHANGED inflight
    BY <1>8 DEF Send, CloseSocket, Finish, execVars
  <2>2. /\ task'[t].pc = "done" /\ task'[t].resp = task[t].resp /\ task'[t].type = task[t].type
        /\ \A u \in Task : u # t => task'[u] = task[u]
    BY <2>1 DEF TypeOK, TaskOK, Tasks
  <2>3. AnswerOfOwnType' BY <2>1, <2>2 DEF TypesInv, AnswerOfOwnType, Answered
  <2> QED BY <2>1, <2>2, <2>3 DEF TypesInv, Running
<1>9. ASSUME NEW i \in Id, Proceeds(i) \/ Ends(i) PROVE TypesInv'
  <2>1. /\ UNCHANGED task /\ Running(i)' /\ inflight'[i].type = inflight[i].type
        /\ \A j \in Id : j # i => inflight'[j] = inflight[j]
    BY <1>9, ExecKeepsType
  <2>2. inflight'[i].pc = "done" =>
          /\ inflight'[i].resp.type = inflight'[i].type
          /\ inflight'[i].resp.kind \notin {"none", "reused", "rejected"}
    <3>1. CASE Proceeds(i) BY <3>1 DEF Proceeds, TypeOK, Execs
    <3>2. CASE Ends(i)
      <4>1. PICK kind \in Kinds \ {"none", "reused", "rejected"}, run \in Nat,
                 obs \in Id \cup {NoId} : ExecDone(i, kind, run, obs)
        BY <3>2 DEF Ends
      <4>2. inflight'[i].resp = Reply(kind, inflight[i].type, run, obs)
        BY <4>1 DEF ExecDone, TypeOK, Execs
      <4> QED BY <2>1, <4>2 DEF Reply
    <3> QED BY <1>9, <3>1, <3>2
  <2>3. \A j \in Id : Running(j) => Running(j)' /\ inflight'[j].type = inflight[j].type
    BY <2>1 DEF Running
  <2>4. AnswerOfOwnType' BY <2>1 DEF TypesInv, AnswerOfOwnType, Answered
  <2>5. \A u \in Task : task'[u].pc = "waiting" =>
          Running(task[u].id)' /\ inflight'[task'[u].id].type = task'[u].type
    BY <1>0, <2>1, <2>3 DEF TypesInv
  <2> QED BY <2>1, <2>2, <2>4, <2>5 DEF TypesInv, Running
<1>10. ASSUME NEW i \in Id, Reap(i) PROVE TypesInv'
  <2>1. /\ inflight[i].pc = "done" /\ inflight' = [inflight EXCEPT ![i] = NotRunning]
        /\ task' = [t \in Task |-> IF task[t].pc = "waiting" /\ task[t].id = i
             THEN [task[t] EXCEPT !.pc = "woken", !.resp = inflight[i].resp] ELSE task[t]]
    BY <1>10 DEF Reap
  <2>2. inflight'[i].pc = "none" /\ \A j \in Id : j # i => inflight'[j] = inflight[j]
    BY <2>1 DEF NotRunning, TypeOK
  <2>3. ASSUME NEW t \in Task
        PROVE  \/ /\ task[t].pc = "waiting" /\ task[t].id = i /\ task'[t].pc = "woken"
                  /\ task'[t].resp = inflight[i].resp /\ task'[t].type = task[t].type
               \/ task'[t] = task[t] /\ (task[t].pc = "waiting" => task[t].id # i)
    <3>1. CASE task[t].pc = "waiting" /\ task[t].id = i
      <4>1. task'[t] = [task[t] EXCEPT !.pc = "woken", !.resp = inflight[i].resp] BY <2>1, <3>1
      <4>2. task[t] \in Tasks BY DEF TypeOK, TaskOK
      <4> QED BY <3>1, <4>1, <4>2 DEF Tasks
    <3>2. CASE ~(task[t].pc = "waiting" /\ task[t].id = i) BY <2>1, <3>2
    <3> QED BY <3>1, <3>2
  <2>4. AnswerOfOwnType' BY <2>3 DEF TypesInv, AnswerOfOwnType, Answered
  <2>5. \A u \in Task : task'[u].pc = "waiting" =>
          Running(task[u].id)' /\ inflight'[task'[u].id].type = task'[u].type
    <3> SUFFICES ASSUME NEW u \in Task, task'[u].pc = "waiting"
        PROVE  Running(task[u].id)' /\ inflight'[task'[u].id].type = task'[u].type
      OBVIOUS
    <3>1. task'[u] = task[u] /\ task[u].pc = "waiting" /\ task[u].id # i BY <2>3
    <3>2. task[u].id \in Id BY <1>0, <3>1
    <3>3. inflight'[task[u].id] = inflight[task[u].id] BY <2>2, <3>1, <3>2
    <3>4. Running(task[u].id) /\ inflight[task[u].id].type = task[u].type BY <3>1 DEF TypesInv
    <3> QED BY <3>1, <3>3, <3>4 DEF Running
  <2>6. \A t \in Task : task'[t].pc = "woken" => task'[t].resp.type = task'[t].type
    <3> SUFFICES ASSUME NEW t \in Task, task'[t].pc = "woken"
        PROVE  task'[t].resp.type = task'[t].type
      OBVIOUS
    <3>1. CASE task'[t] = task[t] BY <3>1 DEF TypesInv
    <3>2. CASE task'[t] # task[t]
      <4>1. /\ task[t].pc = "waiting" /\ task[t].id = i
            /\ task'[t].resp = inflight[i].resp /\ task'[t].type = task[t].type
        BY <2>3, <3>2
      <4>2. inflight[i].type = task[t].type BY <4>1 DEF TypesInv
      <4>3. inflight[i].resp.type = inflight[i].type BY <2>1 DEF TypesInv
      <4> QED BY <4>1, <4>2, <4>3
    <3> QED BY <3>1, <3>2
  <2>7. \A j \in Id : inflight'[j].pc = "done" => inflight'[j] = inflight[j] BY <2>2
  <2> QED BY <2>4, <2>5, <2>6, <2>7 DEF TypesInv, Running
<1>11. ASSUME NEW c \in Conn, Handle(c) \/ Peer(c) PROVE TypesInv'
  <2>1. CASE DrainTimeout(c)
    <3>1. UNCHANGED inflight BY <2>1 DEF DrainTimeout, execVars
    <3>2. ASSUME NEW t \in Task PROVE task'[t] = task[t] \/ task'[t].pc = "cancelled"
      <4>1. task[t] \in Tasks BY DEF TypeOK, TaskOK
      <4> QED BY <2>1, <4>1 DEF DrainTimeout, Tasks
    <3> QED BY <3>1, <3>2 DEF TypesInv, Running, AnswerOfOwnType, Answered
  <2>2. ASSUME NEW t \in Task, NEW i \in Id, NEW type \in Types, Receive(c, t, i, type)
        PROVE  TypesInv'
    <3>1. UNCHANGED inflight /\ \A u \in Task : u # t => task'[u] = task[u]
      BY <2>2 DEF Receive, execVars, TypeOK, TaskOK
    <3>2. task'[t].pc = "new" \/ (task'[t].pc = "sending" /\ task'[t].resp.kind = "rejected")
      BY <2>2 DEF Receive, TypeOK, TaskOK, Reply
    <3> QED BY <3>1, <3>2 DEF TypesInv, Running, AnswerOfOwnType, Answered
  <2> QED BY <1>1, <1>11, <2>1, <2>2
      DEF Handle, Peer, LeaveLoop, Drained, Accept, Lose, execVars
<1>12. CASE Stop \/ Closed \/ StopDone \/ UNCHANGED vars
  BY <1>1, <1>12 DEF Stop, Closed, StopDone, vars, execVars
<1> QED
  BY <1>4, <1>5, <1>6, <1>7, <1>8, <1>9, <1>10, <1>11, <1>12, ExecEffect DEF Next, Respond

\* A frame is answered with the result of its own message type, or refused.
THEOREM AnswerOfOwnTypeCorrect == Spec => []AnswerOfOwnType
<1>1. Init => LockInv /\ TypesInv
  BY DEF Init, LockInv, ModelSerial, InModel, NotRunning, TypesInv, AnswerOfOwnType, Answered, Idle
<1>2. TypesInv => AnswerOfOwnType BY DEF TypesInv
<1> QED BY <1>1, <1>2, LockStep, TypesStep, TypeCorrect, PTL DEF Spec

-----------------------------------------------------------------------------
(* The same answer for everybody.                                            *)

Closing == Reply("closing", "CLOSE", 0, NoId)

\* Response r agrees with the cache entry c of its id, which was dropped e times.
Stands(c, e, r) ==
  r = Closing \/ (r.type # "CLOSE" /\ (e = 0 => c.kind # "none" /\ Final(c) = Final(r)))

\* While nothing was dropped: what was ever answered, or will be, is what the
\* cache holds, and an execution that has not ended finds no entry.
SameInv ==
  /\ \A i \in Id : inflight[i].type = "CLOSE" => inflight[i].pc \in {"none", "created", "done"}
  /\ \A i \in Id : Cached(i) => cache[i].type # "CLOSE"
  /\ \A i \in Id : inflight[i].pc \notin {"none", "done"} /\ evictions[i] = 0 => ~Cached(i)
  /\ \A i \in Id : inflight[i].pc = "done" => Stands(cache[i], evictions[i], inflight[i].resp)
  /\ \A t \in Task : task[t].pc = "woken" \/ Answered(t) =>
       Stands(cache[task[t].id], evictions[task[t].id], task[t].resp)
  /\ \A t \in Task : Answered(t) => Encodable(task[t].resp)

\* The entry of an id, unless it is dropped, keeps what it answers.
KeepsEntry(i) ==
  evictions'[i] = 0 =>
    evictions[i] = 0 /\ (Cached(i) => Cached(i)' /\ Final(cache'[i]) = Final(cache[i]))

LEMMA StandsKept ==
  ASSUME NEW i \in Id, KeepsEntry(i), NEW r, Stands(cache[i], evictions[i], r)
  PROVE  Stands(cache'[i], evictions'[i], r)
BY DEF KeepsEntry, Stands, Cached

LEMMA FinalFacts ==
  ASSUME NEW r \in Response
  PROVE  /\ Final(r) \in Response /\ Encodable(Final(r)) /\ Final(Final(r)) = Final(r)
         /\ Final(r).type = r.type /\ (r.kind = "closing" => Final(r) = r)
         /\ (~Encodable(r) => Final(r) = AsError(r) /\ Encodable(AsError(r)))
<1>1. AsError(r) \in Response /\ AsError(r).kind = "error" BY ResponseType
<1>2. AsError(r).type = r.type BY DEF AsError, Response
<1> QED BY <1>1, <1>2 DEF Final, Encodable

LEMMA StandsFinal ==
  ASSUME NEW r \in Response, NEW c, NEW e, Stands(c, e, r) PROVE Stands(c, e, Final(r))
<1>1. Closing.kind = "closing" BY DEF Closing, Reply
<1> QED BY <1>1, FinalFacts DEF Stands

\* The cache steps: an answer replaced by the error sent in its place, and the
\* first answer of an execution.
LEMMA CacheKeepsEntry ==
  ASSUME TypeOK, NEW i \in Id, NEW r \in Response, r.kind # "none", CacheResponse(i, r),
         evictions[i] = 0 /\ Cached(i) => Final(cache[i]) = Final(r)
  PROVE  \A j \in Id : KeepsEntry(j)
<1> SUFFICES ASSUME NEW j \in Id, evictions'[j] = 0
    PROVE  evictions[j] = 0 /\ (Cached(j) => Cached(j)' /\ Final(cache'[j]) = Final(cache[j]))
  BY DEF KeepsEntry
<1>1. evictions'[j] >= evictions[j] /\ evictions[j] \in Nat
  BY CacheResponseStep DEF TypeOK, CacheOK
<1>2. evictions[j] = 0 BY <1>1
<1>3. Cached(j) => Cached(j)'
  <2>1. ~(evictions'[j] > evictions[j]) BY <1>2
  <2> QED BY <2>1, CacheResponseStep
<1>4. CASE j = i
  <2>1. Cached(i)' => cache'[i] = r BY CacheResponseStep
  <2> QED BY <1>2, <1>3, <1>4, <2>1
<1>5. CASE j # i
  <2>1. Cached(j)' => cache'[j] = cache[j] BY <1>5, CacheResponseStep
  <2> QED BY <1>2, <1>3, <2>1
<1> QED BY <1>4, <1>5

LEMMA UnchangedKeepsEntry ==
  ASSUME UNCHANGED <<cache, evictions>>, NEW j \in Id PROVE KeepsEntry(j)
BY DEF KeepsEntry, Cached

\* What a respond task does to the cache keeps SameInv's view of it.
LEMMA RespondKeepsEntries ==
  ASSUME TypeOK, SameInv, NEW t \in Task, Respond(t)
  PROVE  /\ \A j \in Id : KeepsEntry(j)
         /\ \A j \in Id : Cached(j)' => cache'[j].type # "CLOSE"
         /\ \A j \in Id : inflight[j].pc \notin {"none", "done"} /\ evictions'[j] = 0 => ~Cached(j)'
         /\ \A j \in Id : evictions'[j] = 0 /\ Cached(j)' => Cached(j)
<1>1. CASE UNCHANGED <<cache, evictions>> BY <1>1 DEF KeepsEntry, SameInv, Cached
<1>2. CASE ~UNCHANGED <<cache, evictions>>
  <2>1. PICK i \in Id : i = task[t].id BY RespondId
  <2>2. PICK r \in Response :
          /\ r.kind = "unencodable" /\ CacheResponse(i, AsError(r))
          /\ \/ r = cache[i]
             \/ inflight[i].pc = "done" /\ r = inflight[i].resp
             \/ task[t].pc = "woken" /\ r = task[t].resp
    BY <1>2, <2>1, RespondCache
  <2>3. r # Closing /\ ~Encodable(r) BY <2>2 DEF Closing, Reply, Encodable
  <2>4. AsError(r) \in Response /\ AsError(r).kind = "error" /\ Final(AsError(r)) = Final(r)
        /\ AsError(r).type = r.type
    BY <2>3, FinalFacts, ResponseType
  <2>5. Stands(cache[i], evictions[i], r)
    <3>1. CASE r = cache[i]
      <4>1. Cached(i) BY <2>2, <3>1 DEF Cached
      <4> QED BY <2>2, <3>1, <4>1 DEF SameInv, Stands
    <3>2. CASE r # cache[i] BY <2>1, <2>2, <3>2 DEF SameInv
    <3> QED BY <3>1, <3>2
  <2>6. r.type # "CLOSE" /\ (evictions[i] = 0 => Cached(i) /\ Final(cache[i]) = Final(r))
    BY <2>3, <2>5 DEF Stands, Cached
  <2>7. \A j \in Id : KeepsEntry(j) BY <2>2, <2>4, <2>6, CacheKeepsEntry
  <2>8. \A j \in Id : Cached(j)' /\ j # i => cache'[j] = cache[j]
    BY <2>2, <2>4, CacheResponseStep
  <2>9. Cached(i)' => cache'[i] = AsError(r) BY <2>2, <2>4, CacheResponseStep
  <2>10. ASSUME NEW j \in Id, Cached(j)' PROVE cache'[j].type # "CLOSE"
    <3>1. CASE j = i BY <2>4, <2>6, <2>9, <2>10, <3>1
    <3>2. CASE j # i
      <4>1. cache'[j] = cache[j] /\ Cached(j) BY <2>8, <2>10, <3>2 DEF Cached
      <4> QED BY <4>1 DEF SameInv
    <3> QED BY <3>1, <3>2
  <2>11. ASSUME NEW j \in Id, evictions'[j] = 0, Cached(j)' PROVE Cached(j)
    <3>1. evictions[j] = 0 BY <2>7, <2>11 DEF KeepsEntry
    <3>2. CASE j = i BY <2>6, <3>1, <3>2
    <3>3. CASE j # i BY <2>8, <2>11, <3>3 DEF Cached
    <3> QED BY <3>2, <3>3
  <2>12. ASSUME NEW j \in Id, inflight[j].pc \notin {"none", "done"}, evictions'[j] = 0
         PROVE  ~Cached(j)'
    <3>1. evictions[j] = 0 BY <2>7, <2>12 DEF KeepsEntry
    <3> QED BY <2>11, <2>12, <3>1 DEF SameInv
  <2> QED BY <2>7, <2>10, <2>11, <2>12
<1> QED BY <1>1, <1>2

\* The parts of SameInv, by what they are about.
ExecsStand ==
  /\ \A i \in Id : inflight[i].type = "CLOSE" => inflight[i].pc \in {"none", "created", "done"}
  /\ \A i \in Id : inflight[i].pc = "done" => Stands(cache[i], evictions[i], inflight[i].resp)
EntriesStand ==
  /\ \A i \in Id : Cached(i) => cache[i].type # "CLOSE"
  /\ \A i \in Id : inflight[i].pc \notin {"none", "done"} /\ evictions[i] = 0 => ~Cached(i)
TaskStands(t) ==
  /\ task[t].pc = "woken" \/ Answered(t) =>
       Stands(cache[task[t].id], evictions[task[t].id], task[t].resp)
  /\ Answered(t) => Encodable(task[t].resp)

LEMMA SameParts ==
  /\ SameInv => ExecsStand /\ EntriesStand /\ \A t \in Task : TaskStands(t)
  /\ ExecsStand' /\ EntriesStand' /\ (\A t \in Task : TaskStands(t)') => SameInv'
BY DEF SameInv, ExecsStand, EntriesStand, TaskStands

\* A task or an execution that does not move keeps its part.
LEMMA TaskStandsKept ==
  ASSUME TypeOK, NEW t \in Task, TaskStands(t), task'[t] = task[t], \A j \in Id : KeepsEntry(j)
  PROVE  TaskStands(t)'
<1>1. CASE task[t].pc = "woken" \/ Answered(t)
  <2>1. task[t].id \in Id BY <1>1 DEF Answered, TypeOK, TaskOK
  <2>2. Stands(cache[task[t].id], evictions[task[t].id], task[t].resp) BY <1>1 DEF TaskStands
  <2>3. Stands(cache'[task[t].id], evictions'[task[t].id], task[t].resp) BY <2>1, <2>2, StandsKept
  <2> QED BY <2>3 DEF TaskStands, Answered
<1>2. CASE ~(task[t].pc = "woken" \/ Answered(t)) BY <1>2 DEF TaskStands, Answered
<1> QED BY <1>1, <1>2

LEMMA ExecsStandKept ==
  ASSUME ExecsStand, UNCHANGED inflight, \A j \in Id : KeepsEntry(j) PROVE ExecsStand'
BY StandsKept DEF ExecsStand

\* A task that is answered.
LEMMA AnswerStands ==
  ASSUME TypeOK, SameInv, NEW t \in Task, Respond(t), NEW r \in Response, Answer(t, r),
         UNCHANGED inflight, NEW i \in Id, i = task[t].id,
         r.kind = "reused" \/ Stands(cache[i], evictions[i], r)
  PROVE  SameInv'
<1>1. /\ \A j \in Id : KeepsEntry(j)
      /\ EntriesStand'
  BY RespondKeepsEntries DEF EntriesStand
<1>2. ExecsStand' BY <1>1, SameParts, ExecsStandKept
<1>3. /\ task'[t].resp = Final(r) /\ task'[t].id = i /\ task'[t].pc # "woken"
      /\ \A u \in Task : u # t => task'[u] = task[u]
  BY AnswerEffect
<1>4. \A u \in Task : u # t => TaskStands(u)' BY <1>1, <1>3, SameParts, TaskStandsKept
<1>5. TaskStands(t)'
  <2>1. Encodable(Final(r)) BY FinalFacts
  <2>2. CASE r.kind = "reused"
    <3>1. Final(r).kind = "reused" BY <2>2 DEF Final, Encodable
    <3> QED BY <1>3, <3>1 DEF TaskStands, Answered
  <2>3. CASE Stands(cache[i], evictions[i], r)
    <3>1. Stands(cache[i], evictions[i], Final(r)) BY <2>3, StandsFinal
    <3>2. Stands(cache'[i], evictions'[i], Final(r)) BY <1>1, <3>1, StandsKept
    <3> QED BY <1>3, <2>1, <3>2 DEF TaskStands
  <2> QED BY <2>2, <2>3
<1> QED BY <1>1, <1>2, <1>4, <1>5, SameParts

\* The steps that leave the cache and the executions alone.
LEMMA TasksStand ==
  ASSUME TypeOK, SameInv, UNCHANGED <<cache, evictions, inflight>>,
         \A t \in Task : \/ task'[t] = task[t]
                         \/ task'[t].pc \notin {"woken", "sending", "closing", "done"}
                         \/ task'[t].resp.kind = "rejected" /\ task'[t].pc # "woken"
                         \/ /\ Answered(t) \/ task[t].resp.kind \in {"reused", "rejected"}
                            /\ task'[t].pc = "done"
                            /\ task'[t].id = task[t].id /\ task'[t].resp = task[t].resp
  PROVE  SameInv'
<1>1. ExecsStand' /\ EntriesStand' BY SameParts DEF ExecsStand, EntriesStand, Cached
<1>2. ASSUME NEW t \in Task PROVE TaskStands(t)'
  <2>1. TaskStands(t) BY SameParts
  <2> QED BY <2>1 DEF TaskStands, Answered
<1> QED BY <1>1, <1>2, SameParts

LEMMA ExecuteStands ==
  ASSUME TypeOK, SameInv, NEW t \in Task, Execute(t) PROVE SameInv'
<1>1. PICK i \in Id : i = task[t].id BY RespondId DEF Respond
<1>2. /\ ~Cached(i) /\ task' = [task EXCEPT ![t].pc = "waiting"]
      /\ inflight' = [inflight EXCEPT ![i] =
           [pc |-> "created", type |-> task[t].type, resp |-> NoResponse]]
      /\ UNCHANGED <<cache, evictions>>
  BY <1>1 DEF Execute, cacheVars
<1>3. inflight'[i].pc = "created" /\ \A j \in Id : j # i => inflight'[j] = inflight[j]
  BY <1>2 DEF TypeOK
<1>4. ExecsStand' BY <1>2, <1>3, SameParts DEF ExecsStand
<1>5. EntriesStand' BY <1>2, <1>3, SameParts DEF EntriesStand, Cached
<1>6. task'[t].pc = "waiting" /\ \A u \in Task : u # t => task'[u] = task[u]
  BY <1>2 DEF TypeOK, TaskOK, Tasks
<1>7. \A u \in Task : TaskStands(u)' BY <1>2, <1>6, SameParts DEF TaskStands, Answered
<1> QED BY <1>4, <1>5, <1>7, SameParts

LEMMA RespondStands ==
  ASSUME TypeOK, SameInv, NEW t \in Task, Respond(t) PROVE SameInv'
<1>0. PICK i \in Id : i = task[t].id BY RespondId
<1>1. task[t].resp \in Response /\ cache[i] \in Response /\ inflight[i].resp \in Response
  BY DEF TypeOK, TaskOK, Tasks, CacheOK, Execs
<1>2. ReusedId(t) \in Response /\ ReusedId(t).kind = "reused"
  <2>1. task[t].type \in Requests \cup {"none"} BY DEF TypeOK, TaskOK, Tasks
  <2>2. "reused" \in Kinds /\ 0 \in Nat /\ NoId \in Id \cup {NoId} BY DEF Kinds
  <2> QED BY <2>1, <2>2, ResponseType DEF ReusedId, Reply
<1>3. CASE Answer(t, ReusedId(t)) /\ UNCHANGED inflight BY <1>0, <1>2, <1>3, AnswerStands
<1>4. CASE Replay(t)
  <2>1. UNCHANGED inflight /\ Cached(i) BY <1>0, <1>4 DEF Replay, execVars
  <2>2. Stands(cache[i], evictions[i], cache[i])
    BY <2>1, SameParts DEF EntriesStand, Stands, Cached
  <2>3. CASE Answer(t, cache[i]) BY <1>0, <1>1, <2>1, <2>2, <2>3, AnswerStands
  <2> QED BY <1>0, <1>3, <1>4, <2>1, <2>3 DEF Replay
<1>5. CASE Join(t)
  <2>1. UNCHANGED inflight BY <1>5 DEF Join, execVars
  <2>2. CASE Answer(t, inflight[i].resp) /\ inflight[i].pc = "done"
    <3>1. Stands(cache[i], evictions[i], inflight[i].resp) BY <2>2, SameParts DEF ExecsStand
    <3> QED BY <1>0, <1>1, <2>1, <2>2, <3>1, AnswerStands
  <2>3. CASE task' = [task EXCEPT ![t].pc = "waiting"] /\ UNCHANGED cacheVars
    <3>1. task'[t].pc = "waiting" /\ \A u \in Task : u # t => task'[u] = task[u]
      BY <2>3 DEF TypeOK, TaskOK, Tasks
    <3> QED BY <2>1, <2>3, <3>1, TasksStand DEF cacheVars
  <2> QED BY <1>0, <1>3, <1>5, <2>1, <2>2, <2>3 DEF Join
<1>6. CASE Wake(t)
  <2>1. UNCHANGED inflight /\ Answer(t, task[t].resp) /\ task[t].pc = "woken"
    BY <1>6 DEF Wake, execVars
  <2>2. Stands(cache[i], evictions[i], task[t].resp) BY <1>0, <2>1, SameParts DEF TaskStands
  <2> QED BY <1>0, <1>1, <2>1, <2>2, AnswerStands
<1>7. CASE Send(t) \/ CloseSocket(t)
  <2>1. /\ task[t].pc \in {"sending", "closing"} /\ task' = [task EXCEPT ![t].pc = "done"]
        /\ UNCHANGED <<cache, evictions, inflight>>
    BY <1>7 DEF Send, CloseSocket, Finish, execVars, cacheVars
  <2>2. /\ task'[t].pc = "done" /\ task'[t].resp = task[t].resp /\ task'[t].id = task[t].id
        /\ \A u \in Task : u # t => task'[u] = task[u]
    BY <2>1 DEF TypeOK, TaskOK, Tasks
  <2>3. Answered(t) \/ task[t].resp.kind \in {"reused", "rejected"} BY <2>1 DEF Answered
  <2> QED BY <2>1, <2>2, <2>3, TasksStand
<1> QED BY <1>4, <1>5, <1>6, <1>7, ExecuteStands DEF Respond

\* A step of an execution before its end leaves what was answered alone: only
\* a CLOSE is never worked on.
LEMMA ProceedsStands ==
  ASSUME TypeOK, SameInv, NEW i \in Id, Proceeds(i) PROVE SameInv'
<1>1. /\ UNCHANGED <<task, cache, evictions>>
      /\ inflight[i].pc \notin {"none", "done"}
      /\ inflight[i].pc = "created" => inflight[i].type \in Locked \cup Decoded
  BY DEF Proceeds, cacheVars
<1>2. /\ inflight'[i].type = inflight[i].type
      /\ \A j \in Id : j # i => inflight'[j] = inflight[j]
  BY ExecKeepsType
<1>3. inflight'[i].pc \notin {"none", "created", "done"}
  <2>1. PICK pc \in ExecPcs \ {"none", "created", "done"} :
          inflight' = [inflight EXCEPT ![i].pc = pc]
    BY DEF Proceeds
  <2>2. inflight[i] \in Execs BY DEF TypeOK
  <2> QED BY <2>1, <2>2 DEF TypeOK, Execs
<1>4. inflight[i].type # "CLOSE"
  BY <1>1, SameParts DEF ExecsStand, Locked, Decoded
<1>5. ExecsStand' BY <1>1, <1>2, <1>3, <1>4, SameParts DEF ExecsStand
<1>6. EntriesStand' BY <1>1, <1>2, <1>3, SameParts DEF EntriesStand, Cached
<1>7. \A t \in Task : TaskStands(t)' BY <1>1, SameParts DEF TaskStands, Answered
<1> QED BY <1>5, <1>6, <1>7, SameParts

\* The first answer of an execution becomes the entry of its id; a CLOSE has none.
LEMMA EndsStands ==
  ASSUME TypeOK, SameInv, NEW i \in Id, Ends(i) PROVE SameInv'
<1>1. PICK kind \in Kinds \ {"none", "reused", "rejected"}, run \in Nat, obs \in Id \cup {NoId} :
        /\ ExecDone(i, kind, run, obs)
        /\ kind = "closing" <=> inflight[i].pc = "created" /\ inflight[i].type = "CLOSE"
        /\ kind = "closing" => run = 0 /\ obs = NoId
  BY DEF Ends
<1>2. PICK r \in Response : r = Reply(kind, inflight[i].type, run, obs)
  <2>1. inflight[i].type \in Requests \cup {"none"} BY DEF TypeOK, Execs
  <2> QED BY <2>1, ResponseType DEF Reply
<1>3. r.kind = kind /\ r.type = inflight[i].type BY <1>2 DEF Reply
<1>4. /\ UNCHANGED task /\ inflight[i].pc \notin {"none", "done"}
      /\ inflight'[i].type = inflight[i].type
      /\ \A j \in Id : j # i => inflight'[j] = inflight[j]
  BY ExecKeepsType DEF Ends
<1>5. inflight'[i].pc = "done" /\ inflight'[i].resp = r
  <2>1. inflight[i] \in Execs BY DEF TypeOK
  <2>2. inflight' = [inflight EXCEPT ![i].pc = "done", ![i].resp = r]
    BY <1>1, <1>2 DEF ExecDone
  <2> QED BY <2>1, <2>2 DEF TypeOK, Execs
<1>6. CASE kind = "closing"
  <2>1. UNCHANGED <<cache, evictions>> BY <1>1, <1>6 DEF ExecDone, cacheVars
  <2>2. r = Closing BY <1>1, <1>2, <1>6 DEF Closing
  <2>3. ExecsStand' BY <1>4, <1>5, <2>1, <2>2, SameParts DEF ExecsStand, Stands
  <2>4. EntriesStand' BY <1>4, <1>5, <2>1, SameParts DEF EntriesStand, Cached
  <2>5. \A t \in Task : TaskStands(t)' BY <1>4, <2>1, SameParts DEF TaskStands, Answered
  <2> QED BY <2>3, <2>4, <2>5, SameParts
<1>7. CASE kind # "closing"
  <2>1. CacheResponse(i, r) /\ r.kind # "none" BY <1>1, <1>2, <1>3, <1>7 DEF ExecDone
  <2>2. r.type # "CLOSE" BY <1>1, <1>3, <1>4, <1>7, SameParts DEF ExecsStand
  <2>3. ~(evictions[i] = 0 /\ Cached(i)) BY <1>4, SameParts DEF EntriesStand
  <2>4. \A j \in Id : KeepsEntry(j) BY <2>1, <2>3, CacheKeepsEntry
  <2>5. /\ \A j \in Id : Cached(j)' /\ j # i => cache'[j] = cache[j]
        /\ Cached(i)' => cache'[i] = r
        /\ Cached(i)' \/ evictions'[i] > evictions[i]
    BY <2>1, CacheResponseStep
  <2>6. Stands(cache'[i], evictions'[i], r)
    <3>1. evictions'[i] = 0 => evictions[i] = 0 BY <2>4 DEF KeepsEntry
    <3>2. evictions'[i] = 0 => cache'[i] = r /\ r.kind # "none" BY <2>1, <2>5, <3>1
    <3> QED BY <2>2, <3>2 DEF Stands
  <2>7. ExecsStand'
    <3>1. inflight'[i].pc = "done" /\ Stands(cache'[i], evictions'[i], inflight'[i].resp)
      BY <1>5, <2>6
    <3>2. ASSUME NEW j \in Id, j # i, inflight'[j].pc = "done"
          PROVE  Stands(cache'[j], evictions'[j], inflight'[j].resp)
      <4>1. Stands(cache[j], evictions[j], inflight[j].resp)
        BY <1>4, <3>2, SameParts DEF ExecsStand
      <4> QED BY <1>4, <2>4, <3>2, <4>1, StandsKept
    <3> QED BY <1>4, <3>1, <3>2, SameParts DEF ExecsStand
  <2>8. EntriesStand'
    <3>1. ASSUME NEW j \in Id, Cached(j)' PROVE cache'[j].type # "CLOSE"
      <4>1. CASE j = i BY <2>2, <2>5, <3>1, <4>1
      <4>2. CASE j # i
        <5>1. cache'[j] = cache[j] /\ Cached(j) BY <2>5, <3>1, <4>2 DEF Cached
        <5> QED BY <5>1, SameParts DEF EntriesStand
      <4> QED BY <4>1, <4>2
    <3>2. ASSUME NEW j \in Id, inflight'[j].pc \notin {"none", "done"}, evictions'[j] = 0
          PROVE  ~Cached(j)'
      <4>1. j # i /\ inflight'[j] = inflight[j] BY <1>4, <1>5, <3>2
      <4>2. evictions[j] = 0 BY <2>4, <3>2 DEF KeepsEntry
      <4>3. ~Cached(j) BY <3>2, <4>1, <4>2, SameParts DEF EntriesStand
      <4> QED BY <2>5, <4>1, <4>3 DEF Cached
    <3> QED BY <3>1, <3>2 DEF EntriesStand
  <2>9. \A t \in Task : TaskStands(t)' BY <1>4, <2>4, SameParts, TaskStandsKept
  <2> QED BY <2>7, <2>8, <2>9, SameParts
<1> QED BY <1>6, <1>7

\* The waiters are woken with the answer of the execution.
LEMMA ReapStands ==
  ASSUME TypeOK, SameInv, NEW i \in Id, Reap(i) PROVE SameInv'
<1>1. /\ inflight[i].pc = "done" /\ inflight' = [inflight EXCEPT ![i] = NotRunning]
      /\ task' = [t \in Task |-> IF task[t].pc = "waiting" /\ task[t].id = i
           THEN [task[t] EXCEPT !.pc = "woken", !.resp = inflight[i].resp] ELSE task[t]]
      /\ UNCHANGED <<cache, evictions>>
  BY DEF Reap, cacheVars
<1>2. /\ inflight'[i].pc = "none" /\ inflight'[i].type = "none"
      /\ \A j \in Id : j # i => inflight'[j] = inflight[j]
  BY <1>1 DEF NotRunning, TypeOK
<1>3. ExecsStand' BY <1>1, <1>2, SameParts DEF ExecsStand
<1>4. EntriesStand' BY <1>1, <1>2, SameParts DEF EntriesStand, Cached
<1>5. ASSUME NEW t \in Task PROVE TaskStands(t)'
  <2>1. CASE task[t].pc = "waiting" /\ task[t].id = i
    <3>1. task'[t] = [task[t] EXCEPT !.pc = "woken", !.resp = inflight[i].resp] BY <1>1, <2>1
    <3>2. task[t] \in Tasks BY DEF TypeOK, TaskOK
    <3>3. task'[t].pc = "woken" /\ task'[t].id = i /\ task'[t].resp = inflight[i].resp
      BY <2>1, <3>1, <3>2 DEF Tasks
    <3>4. Stands(cache[i], evictions[i], inflight[i].resp) BY <1>1, SameParts DEF ExecsStand
    <3> QED BY <1>1, <3>3, <3>4 DEF TaskStands, Answered
  <2>2. CASE ~(task[t].pc = "waiting" /\ task[t].id = i)
    <3>1. task'[t] = task[t] BY <1>1, <2>2
    <3> QED BY <1>1, <3>1, SameParts DEF TaskStands, Answered
  <2> QED BY <2>1, <2>2
<1> QED BY <1>3, <1>4, <1>5, SameParts

LEMMA SameStep == TypeOK /\ LockInv /\ SameInv /\ [Next]_vars => SameInv'
<1> SUFFICES ASSUME TypeOK, LockInv, SameInv, [Next]_vars PROVE SameInv'
  OBVIOUS
<1>1. ASSUME NEW i \in Id, Exec(i) \/ Model(i) PROVE SameInv'
  BY <1>1, ExecEffect, ProceedsStands, EndsStands, ReapStands
<1>2. CASE UNCHANGED <<task, cache, evictions, inflight>> BY <1>2, TasksStand
<1>3. ASSUME NEW c \in Conn, Handle(c) \/ Peer(c) PROVE SameInv'
  <2>1. CASE DrainTimeout(c)
    <3>1. UNCHANGED <<cache, evictions, inflight>>
      BY <2>1 DEF DrainTimeout, execVars, cacheVars
    <3>2. ASSUME NEW t \in Task PROVE task'[t] = task[t] \/ task'[t].pc = "cancelled"
      <4>1. task[t] \in Tasks BY DEF TypeOK, TaskOK
      <4> QED BY <2>1, <4>1 DEF DrainTimeout, Tasks
    <3> QED BY <3>1, <3>2, TasksStand
  <2>2. ASSUME NEW t \in Task, NEW i \in Id, NEW type \in Types, Receive(c, t, i, type)
        PROVE  SameInv'
    <3>1. /\ UNCHANGED <<cache, evictions, inflight>>
          /\ \A u \in Task : u # t => task'[u] = task[u]
      BY <2>2 DEF Receive, execVars, cacheVars, TypeOK, TaskOK
    <3>2. \/ task'[t].pc = "new"
          \/ task'[t].pc = "sending" /\ task'[t].resp.kind = "rejected"
      BY <2>2 DEF Receive, TypeOK, TaskOK, Reply
    <3> QED BY <3>1, <3>2, TasksStand
  <2> QED BY <1>2, <1>3, <2>1, <2>2
      DEF Handle, Peer, LeaveLoop, Drained, Accept, Lose, execVars, cacheVars
<1>4. CASE Stop \/ Closed \/ StopDone \/ UNCHANGED vars
  BY <1>2, <1>4 DEF Stop, Closed, StopDone, vars, execVars, cacheVars
<1> QED BY <1>1, <1>3, <1>4, RespondStands DEF Next

\* While the response of an id was never dropped, everybody who asks for it
\* with the same type gets the same answer: the first waiter, one who joined
\* the running execution, and a replay, on whatever connection.
THEOREM SameAnswerCorrect == Spec => []SameAnswer
<1>1. Init => LockInv /\ TypesInv /\ SameInv
  BY DEF Init, LockInv, ModelSerial, InModel, NotRunning, NoResponse, TypesInv, SameInv, Cached,
         AnswerOfOwnType, Answered, Idle
<1>2. TypeOK /\ TypesInv /\ SameInv => SameAnswer
  <2> SUFFICES ASSUME TypeOK, TypesInv, SameInv, NEW t \in Task, NEW u \in Task,
                      Answered(t), Answered(u), task[t].id = task[u].id,
                      task[t].type = task[u].type, evictions[task[t].id] = 0
      PROVE  task[t].resp = task[u].resp
    BY DEF SameAnswer
  <2>1. task[t].resp.type = task[u].resp.type BY DEF TypesInv, AnswerOfOwnType
  <2>2. Final(task[t].resp) = task[t].resp /\ Final(task[u].resp) = task[u].resp
    BY DEF SameInv, Final
  <2>3. /\ Stands(cache[task[t].id], evictions[task[t].id], task[t].resp)
        /\ Stands(cache[task[t].id], evictions[task[t].id], task[u].resp)
    BY DEF SameInv
  <2>4. Closing.type = "CLOSE" BY DEF Closing, Reply
  <2> QED BY <2>1, <2>2, <2>3, <2>4 DEF Stands
<1> QED BY <1>1, <1>2, LockStep, TypesStep, SameStep, TypeCorrect, PTL DEF Spec

-----------------------------------------------------------------------------
(* The cache and its order.                                                  *)

Distinct(s) == \A k, m \in 1..Len(s) : s[k] = s[m] => k = m
Holds(s, j) == \E k \in 1..Len(s) : s[k] = j
Older(s, x, y) == \E k, m \in 1..Len(s) : k < m /\ s[k] = x /\ s[m] = y

\* Moving entry i to the end of the order keeps the others and counts i once
\* (move_to_end).
LEMMA NewestOrder ==
  ASSUME lru \in Seq(Id), Distinct(lru), NEW i \in Id
  PROVE  /\ Newest(i) \in Seq(Id) /\ Distinct(Newest(i))
         /\ Len(Newest(i)) \in Nat \ {0} /\ Newest(i)[Len(Newest(i))] = i
         /\ \A j : Holds(Newest(i), j) <=> j = i \/ Holds(lru, j)
         /\ Len(Newest(i)) <= Len(lru) + 1
         /\ Holds(lru, i) => Len(Newest(i)) = Len(lru)
         /\ \A x, y : Older(Newest(i), x, y) <=>
              x # i /\ ((y = i /\ Holds(lru, x)) \/ (y # i /\ Older(lru, x, y)))
<1> DEFINE at == {k \in 1..Len(lru) : lru[k] = i}
<1>1. CASE at = {}
  <2>1. Newest(i) = Append(lru, i) BY <1>1 DEF Newest
  <2>2. ~Holds(lru, i) BY <1>1 DEF Holds
  <2>3. /\ Len(Newest(i)) = Len(lru) + 1 /\ Newest(i)[Len(lru) + 1] = i
        /\ Newest(i) \in Seq(Id) /\ Len(lru) \in Nat
        /\ \A k \in 1..Len(lru) : Newest(i)[k] = lru[k]
    BY <2>1
  <2>4. Distinct(Newest(i)) BY <2>2, <2>3 DEF Distinct, Holds
  <2>5. ASSUME NEW j PROVE Holds(Newest(i), j) <=> j = i \/ Holds(lru, j)
    <3>1. Len(lru) + 1 \in 1..Len(Newest(i)) /\ 1..Len(lru) \subseteq 1..Len(Newest(i)) BY <2>3
    <3>2. \A k \in 1..Len(Newest(i)) : k \in 1..Len(lru) \/ k = Len(lru) + 1 BY <2>3
    <3> QED BY <2>3, <3>1, <3>2 DEF Holds
  <2>6. ASSUME NEW x, NEW y
        PROVE  Older(Newest(i), x, y) <=>
                 x # i /\ ((y = i /\ Holds(lru, x)) \/ (y # i /\ Older(lru, x, y)))
    <3>1. ASSUME NEW k \in 1..Len(Newest(i)), NEW m \in 1..Len(Newest(i)), k < m,
                 Newest(i)[k] = x, Newest(i)[m] = y
          PROVE  x # i /\ ((y = i /\ Holds(lru, x)) \/ (y # i /\ Older(lru, x, y)))
      <4>1. k \in 1..Len(lru) /\ lru[k] = x BY <2>3, <3>1
      <4>2. Holds(lru, x) /\ x # i BY <2>2, <4>1 DEF Holds
      <4>3. CASE m = Len(lru) + 1 BY <2>3, <3>1, <4>2, <4>3
      <4>4. CASE m # Len(lru) + 1
        <5>1. m \in 1..Len(lru) /\ lru[m] = y BY <2>3, <3>1, <4>4
        <5> QED BY <2>2, <3>1, <4>1, <4>2, <5>1 DEF Holds, Older
      <4> QED BY <4>3, <4>4
    <3>2. ASSUME y = i, Holds(lru, x) PROVE Older(Newest(i), x, y)
      <4>1. PICK k \in 1..Len(lru) : lru[k] = x BY <3>2 DEF Holds
      <4>2. /\ k \in 1..Len(Newest(i)) /\ Len(lru) + 1 \in 1..Len(Newest(i)) /\ k < Len(lru) + 1
            /\ Newest(i)[k] = x /\ Newest(i)[Len(lru) + 1] = y
        BY <2>3, <3>2, <4>1
      <4> QED BY <4>2 DEF Older
    <3>3. ASSUME Older(lru, x, y) PROVE Older(Newest(i), x, y)
      <4>1. PICK k \in 1..Len(lru), m \in 1..Len(lru) : k < m /\ lru[k] = x /\ lru[m] = y
        BY <3>3 DEF Older
      <4>2. /\ k \in 1..Len(Newest(i)) /\ m \in 1..Len(Newest(i))
            /\ Newest(i)[k] = x /\ Newest(i)[m] = y
        BY <2>3, <4>1
      <4> QED BY <4>1, <4>2 DEF Older
    <3> QED BY <3>1, <3>2, <3>3 DEF Older
  <2> QED BY <2>2, <2>3, <2>4, <2>5, <2>6
<1>2. CASE at # {}
  <2>1. PICK p : p = CHOOSE k \in at : TRUE OBVIOUS
  <2>2. p \in 1..Len(lru) /\ lru[p] = i BY <1>2, <2>1
  <2> DEFINE rest == RemoveAt(lru, p)
  <2>3. Newest(i) = Append(rest, i) BY <1>2, <2>1 DEF Newest
  <2>4. /\ rest \in Seq(Id) /\ Len(rest) = Len(lru) - 1 /\ Len(lru) \in Nat
        /\ \A k \in 1..(Len(lru) - 1) : rest[k] = lru[IF k < p THEN k ELSE k + 1]
    <3>1. /\ SubSeq(lru, 1, p - 1) \in Seq(Id) /\ Len(SubSeq(lru, 1, p - 1)) = p - 1
          /\ \A k \in 1..(p - 1) : SubSeq(lru, 1, p - 1)[k] = lru[k]
      BY <2>2
    <3>2. /\ SubSeq(lru, p + 1, Len(lru)) \in Seq(Id)
          /\ Len(SubSeq(lru, p + 1, Len(lru))) = Len(lru) - p
          /\ \A k \in 1..(Len(lru) - p) : SubSeq(lru, p + 1, Len(lru))[k] = lru[k + p]
      BY <2>2
    <3> DEFINE a == SubSeq(lru, 1, p - 1)
               b == SubSeq(lru, p + 1, Len(lru))
    <3>3. rest = a \o b BY DEF RemoveAt
    <3>4. Len(lru) \in Nat /\ p \in Nat /\ p >= 1 /\ p <= Len(lru) BY <2>2
    <3> HIDE DEF a, b, rest
    <3>5. rest \in Seq(Id) /\ Len(rest) = Len(a) + Len(b)
      <4>1. a \in Seq(Id) /\ b \in Seq(Id) BY <3>1, <3>2 DEF a, b
      <4> QED BY <3>3, <4>1
    <3>6. Len(rest) = Len(lru) - 1
      <4>1. Len(a) = p - 1 /\ Len(b) = Len(lru) - p BY <3>1, <3>2 DEF a, b
      <4> QED BY <3>4, <3>5, <4>1
    <3>7. ASSUME NEW k \in 1..(Len(lru) - 1)
          PROVE  rest[k] = lru[IF k < p THEN k ELSE k + 1]
      <4>1. a \in Seq(Id) /\ b \in Seq(Id) /\ Len(a) = p - 1 /\ Len(b) = Len(lru) - p
        BY <3>1, <3>2 DEF a, b
      <4>2. rest[k] = IF k <= Len(a) THEN a[k] ELSE b[k - Len(a)]
        BY <3>3, <3>4, <4>1
      <4>3. CASE k < p
        <5>1. k \in 1..(p - 1) /\ k <= Len(a) BY <3>4, <4>1, <4>3
        <5>2. a[k] = lru[k] BY <3>1, <5>1 DEF a
        <5> QED BY <4>2, <4>3, <5>1, <5>2
      <4>4. CASE ~(k < p)
        <5>1. k - (p - 1) \in 1..(Len(lru) - p) /\ ~(k <= p - 1) BY <3>4, <4>4
        <5>2. b[k - (p - 1)] = lru[(k - (p - 1)) + p] BY <3>2, <5>1 DEF b
        <5>3. (k - (p - 1)) + p = k + 1 BY <3>4
        <5> QED BY <4>1, <4>2, <4>4, <5>1, <5>2, <5>3
      <4> QED BY <4>3, <4>4
    <3> QED BY <3>4, <3>5, <3>6, <3>7
  <2> HIDE DEF rest
  <2>5. /\ Len(Newest(i)) = Len(lru) /\ Newest(i)[Len(lru)] = i /\ Newest(i) \in Seq(Id)
        /\ \A k \in 1..(Len(lru) - 1) : Newest(i)[k] = lru[IF k < p THEN k ELSE k + 1]
    <3>1. /\ Newest(i) \in Seq(Id) /\ Len(Newest(i)) = Len(rest) + 1
          /\ Newest(i)[Len(rest) + 1] = i
          /\ \A k \in 1..Len(rest) : Newest(i)[k] = rest[k]
      BY <2>3, <2>4
    <3>2. Len(rest) = Len(lru) - 1 /\ Len(lru) \in Nat
          /\ \A k \in 1..(Len(lru) - 1) : rest[k] = lru[IF k < p THEN k ELSE k + 1]
      BY <2>4
    <3>3. Len(Newest(i)) = Len(lru) /\ Newest(i)[Len(lru)] = i BY <3>1, <3>2
    <3>4. \A k \in 1..(Len(lru) - 1) : Newest(i)[k] = rest[k] BY <3>1, <3>2
    <3>5. ASSUME NEW k \in 1..(Len(lru) - 1)
          PROVE  Newest(i)[k] = lru[IF k < p THEN k ELSE k + 1]
      <4>1. rest[k] = lru[IF k < p THEN k ELSE k + 1] BY <3>2
      <4>2. Newest(i)[k] = rest[k] BY <3>4
      <4> QED BY <4>1, <4>2
    <3>6. Newest(i) \in Seq(Id) BY <3>1
    <3> QED BY <3>3, <3>5, <3>6
  <2>6. ASSUME NEW k \in 1..(Len(lru) - 1) PROVE Newest(i)[k] # i
    <3> DEFINE q == IF k < p THEN k ELSE k + 1
    <3>1. q \in 1..Len(lru) /\ q # p BY <2>2, <2>4
    <3>2. Newest(i)[k] = lru[q] BY <2>5
    <3> HIDE DEF q
    <3>3. lru[q] # i BY <2>2, <3>1 DEF Distinct
    <3> QED BY <3>2, <3>3
  <2>7. ASSUME NEW k \in 1..Len(lru), NEW m \in 1..Len(lru), Newest(i)[k] = Newest(i)[m]
        PROVE  k = m
    <3>1. CASE k = Len(lru) \/ m = Len(lru) BY <2>4, <2>5, <2>6, <2>7, <3>1
    <3>2. CASE k # Len(lru) /\ m # Len(lru)
      <4>1. k \in 1..(Len(lru) - 1) /\ m \in 1..(Len(lru) - 1) BY <2>4, <3>2
      <4>2. lru[IF k < p THEN k ELSE k + 1] = lru[IF m < p THEN m ELSE m + 1]
        BY <2>5, <2>7, <4>1
      <4>3. (IF k < p THEN k ELSE k + 1) = (IF m < p THEN m ELSE m + 1)
        BY <2>4, <4>1, <4>2 DEF Distinct
      <4> QED BY <2>2, <4>1, <4>3
    <3> QED BY <3>1, <3>2
  <2>8. ASSUME NEW j PROVE Holds(Newest(i), j) <=> j = i \/ Holds(lru, j)
    <3>1. j = i => Holds(Newest(i), j) /\ Holds(lru, j) BY <2>2, <2>4, <2>5 DEF Holds
    <3>2. ASSUME NEW k \in 1..Len(lru), lru[k] = j, j # i PROVE Holds(Newest(i), j)
      <4>1. CASE k < p
        <5>1. k \in 1..(Len(lru) - 1) BY <2>2, <2>4, <4>1
        <5>2. k \in 1..Len(Newest(i)) /\ Newest(i)[k] = j BY <2>4, <2>5, <3>2, <4>1, <5>1
        <5> QED BY <5>2 DEF Holds
      <4>2. CASE k > p
        <5>1. k - 1 \in 1..(Len(lru) - 1) /\ ~(k - 1 < p) BY <2>2, <2>4, <4>2
        <5>2. k - 1 \in 1..Len(Newest(i)) /\ Newest(i)[k - 1] = j
          BY <2>4, <2>5, <3>2, <5>1
        <5> QED BY <5>2 DEF Holds
      <4> QED BY <2>2, <3>2, <4>1, <4>2
    <3>3. ASSUME NEW k \in 1..Len(lru), Newest(i)[k] = j, j # i PROVE Holds(lru, j)
      <4>1. k \in 1..(Len(lru) - 1) BY <2>4, <2>5, <3>3
      <4>2. (IF k < p THEN k ELSE k + 1) \in 1..Len(lru) BY <2>4, <4>1
      <4> QED BY <2>5, <3>3, <4>1, <4>2 DEF Holds
    <3> QED BY <2>5, <3>1, <3>2, <3>3 DEF Holds
  <2>9. Len(lru) \in Nat \ {0} BY <2>2, <2>4
  <2>10. ASSUME NEW x, NEW y
         PROVE  Older(Newest(i), x, y) <=>
                  x # i /\ ((y = i /\ Holds(lru, x)) \/ (y # i /\ Older(lru, x, y)))
    <3>1. ASSUME NEW k \in 1..Len(lru), NEW m \in 1..Len(lru), k < m,
                 Newest(i)[k] = x, Newest(i)[m] = y
          PROVE  x # i /\ ((y = i /\ Holds(lru, x)) \/ (y # i /\ Older(lru, x, y)))
      <4>1. k \in 1..(Len(lru) - 1) BY <2>9, <3>1
      <4> DEFINE q == IF k < p THEN k ELSE k + 1
      <4>2. q \in 1..Len(lru) /\ lru[q] = x /\ x # i BY <2>2, <2>5, <2>6, <2>9, <3>1, <4>1
      <4>3. CASE m = Len(lru) BY <2>5, <3>1, <4>2, <4>3 DEF Holds
      <4>4. CASE m # Len(lru)
        <5>1. m \in 1..(Len(lru) - 1) BY <2>9, <3>1, <4>4
        <5> DEFINE r == IF m < p THEN m ELSE m + 1
        <5>2. r \in 1..Len(lru) /\ lru[r] = y /\ y # i BY <2>2, <2>5, <2>6, <2>9, <3>1, <5>1
        <5>3. q < r BY <2>2, <2>9, <3>1
        <5> HIDE DEF q, r
        <5> QED BY <4>2, <5>2, <5>3 DEF Older
      <4> QED BY <4>3, <4>4
    <3>2. ASSUME NEW k \in 1..Len(lru), lru[k] # i
          PROVE  LET h == IF k < p THEN k ELSE k - 1
                 IN  h \in 1..(Len(lru) - 1) /\ Newest(i)[h] = lru[k]
      <4>1. k # p BY <2>2, <3>2
      <4>2. CASE k < p
        <5>1. k \in 1..(Len(lru) - 1) BY <2>2, <2>9, <4>2
        <5> QED BY <2>5, <4>2, <5>1
      <4>3. CASE k > p
        <5>1. k - 1 \in 1..(Len(lru) - 1) /\ ~(k - 1 < p) /\ ~(k < p) /\ (k - 1) + 1 = k
          BY <2>2, <2>9, <4>3
        <5> QED BY <2>5, <5>1
      <4> QED BY <2>2, <4>1, <4>2, <4>3
    <3>3. ASSUME x # i, y = i, Holds(lru, x) PROVE Older(Newest(i), x, y)
      <4>1. PICK k \in 1..Len(lru) : lru[k] = x BY <3>3 DEF Holds
      <4>2. PICK h \in 1..(Len(lru) - 1) : Newest(i)[h] = x BY <3>2, <3>3, <4>1
      <4>3. h \in 1..Len(lru) /\ Len(lru) \in 1..Len(lru) /\ h < Len(lru) BY <2>9
      <4> QED BY <2>5, <3>3, <4>2, <4>3 DEF Older
    <3>4. ASSUME x # i, y # i, Older(lru, x, y) PROVE Older(Newest(i), x, y)
      <4>1. PICK k \in 1..Len(lru), m \in 1..Len(lru) : k < m /\ lru[k] = x /\ lru[m] = y
        BY <3>4 DEF Older
      <4> DEFINE h == IF k < p THEN k ELSE k - 1
                 g == IF m < p THEN m ELSE m - 1
      <4>2. h \in 1..(Len(lru) - 1) /\ Newest(i)[h] = x BY <3>2, <3>4, <4>1
      <4>3. g \in 1..(Len(lru) - 1) /\ Newest(i)[g] = y BY <3>2, <3>4, <4>1
      <4>4. k # p /\ m # p BY <2>2, <3>4, <4>1
      <4>5. h < g BY <2>2, <2>9, <4>1, <4>4
      <4> HIDE DEF h, g
      <4>6. h \in 1..Len(lru) /\ g \in 1..Len(lru) BY <2>9, <4>2, <4>3
      <4> QED BY <2>5, <4>2, <4>3, <4>5, <4>6 DEF Older
    <3> QED BY <2>5, <3>1, <3>3, <3>4 DEF Older
  <2> QED BY <2>5, <2>7, <2>8, <2>9, <2>10 DEF Distinct
<1> QED BY <1>1, <1>2

\* The map and its order describe the same entries, at most CacheSize.
CacheWellFormed ==
  /\ Len(lru) <= CacheSize
  /\ \A i \in Id : Cached(i) <=> \E k \in 1..Len(lru) : lru[k] = i
  /\ \A k, m \in 1..Len(lru) : lru[k] = lru[m] => k = m

\* CacheWellFormed, by the order.
Ordered(order, kept) ==
  /\ Distinct(order)
  /\ \A j \in Id : kept[j].kind # "none" <=> Holds(order, j)

LEMMA WellFormedIsOrdered ==
  /\ CacheWellFormed <=> Len(lru) <= CacheSize /\ Ordered(lru, cache)
  /\ CacheWellFormed' <=> Len(lru') <= CacheSize /\ Ordered(lru', cache')
BY DEF CacheWellFormed, Ordered, Distinct, Holds, Cached

\* What was used after an entry is what comes after it in the order, and what was
\* dropped has CacheSize others after it.
Recent == \A x \in Id : Cached(x) => \A y \in Id : y \in since[x] <=> Older(lru, x, y)
Dropped == \A x \in Id :
  /\ IsFiniteSet(since[x])
  /\ evictions[x] > 0 /\ ~Cached(x) => Cardinality(since[x]) >= CacheSize

RecentInv == CacheWellFormed /\ Recent /\ Dropped

LEMMA UseStep ==
  ASSUME TypeOK, NEW i \in Id, Use(i)
  PROVE  /\ since'[i] = {} /\ \A j \in Id : j # i => since'[j] = since[j] \cup {i}
BY DEF Use, TypeOK, CacheOK

\* A use keeps what is dropped dropped for good reason.
LEMMA DroppedStep ==
  ASSUME TypeOK, Dropped, NEW i \in Id, Use(i), Cached(i)',
         \A j \in Id : evictions'[j] > 0 /\ ~Cached(j)' =>
           \/ evictions[j] > 0 /\ ~Cached(j)
           \/ IsFiniteSet(since'[j]) => Cardinality(since'[j]) >= CacheSize
  PROVE  Dropped'
<1> SUFFICES ASSUME NEW j \in Id
             PROVE  /\ IsFiniteSet(since'[j])
                    /\ evictions'[j] > 0 /\ ~Cached(j)' => Cardinality(since'[j]) >= CacheSize
  BY DEF Dropped
<1>1. CASE j = i
  <2>1. since'[j] = {} BY <1>1, UseStep
  <2> QED BY <1>1, <2>1, FS_EmptySet
<1>2. CASE j # i
  <2>1. since'[j] = since[j] \cup {i} /\ IsFiniteSet(since[j]) BY <1>2, UseStep DEF Dropped
  <2>2. IsFiniteSet(since'[j]) BY <2>1, FS_AddElement
  <2>3. ASSUME evictions[j] > 0, ~Cached(j) PROVE Cardinality(since'[j]) >= CacheSize
    <3>1. Cardinality(since[j]) >= CacheSize BY <2>3 DEF Dropped
    <3>2. Cardinality(since[j]) <= Cardinality(since'[j]) BY <2>1, <2>2, FS_Subset
    <3>3. Cardinality(since[j]) \in Nat /\ Cardinality(since'[j]) \in Nat
      BY <2>1, <2>2, FS_CardinalityType
    <3> QED BY <3>1, <3>2, <3>3
  <2> QED BY <2>2, <2>3
<1> QED BY <1>1, <1>2

\* A set listed by an order without repetition has as many members.
LEMMA ListedCount ==
  ASSUME NEW s \in Seq(Id), Distinct(s), NEW S, \A j : j \in S <=> Holds(s, j)
  PROVE  IsFiniteSet(S) /\ Cardinality(S) = Len(s)
<1>1. s \in [1..Len(s) -> Id] /\ Len(s) \in Nat OBVIOUS
<1>2. \A k \in 1..Len(s) : s[k] \in S BY DEF Holds
<1>3. s \in [1..Len(s) -> S] BY <1>1, <1>2
<1>4. \A j \in S : \E k \in 1..Len(s) : s[k] = j BY DEF Holds
<1>5. \A k, m \in 1..Len(s) : s[k] = s[m] => k = m BY DEF Distinct
<1>6. s \in Bijection(1..Len(s), S)
  BY <1>3, <1>4, <1>5 DEF Bijection, Injection, Surjection, IsInjective
<1>7. ExistsBijection(1..Len(s), S) BY <1>6 DEF ExistsBijection
<1>8. Cardinality(S) = Len(s) BY <1>1, <1>7, FS_CountingElements
<1>9. IsFiniteSet(S) BY <1>1, <1>7, FS_NatBijection
<1> QED BY <1>8, <1>9

\* A response that is cached pushes out at most the oldest entry, and that one
\* only when CacheSize entries are left (_cache_response).
LEMMA CacheResponseOrder ==
  ASSUME TypeOK, RecentInv, NEW i \in Id, NEW r \in Response, r.kind # "none",
         CacheResponse(i, r)
  PROVE  RecentInv'
<1> DEFINE order == Newest(i)
           over == Len(order) > CacheSize
           out == IF over THEN {Head(order)} ELSE {}
<1>1. /\ order \in Seq(Id) /\ Distinct(order) /\ Len(order) \in Nat \ {0}
      /\ order[Len(order)] = i /\ Len(order) <= CacheSize + 1
      /\ \A j \in Id : Holds(order, j) <=> j = i \/ Cached(j)
      /\ \A j : Holds(order, j) => j \in Id
      /\ \A x, y \in Id : Older(order, x, y) <=>
           x # i /\ ((y = i /\ Cached(x)) \/ (y # i /\ Older(lru, x, y)))
  <2>1. lru \in Seq(Id) BY DEF TypeOK, CacheOK
  <2>2. Ordered(lru, cache) /\ Len(lru) <= CacheSize BY WellFormedIsOrdered DEF RecentInv
  <2>3. Len(lru) \in Nat BY <2>1
  <2>4. Distinct(lru) /\ \A j \in Id : Cached(j) <=> Holds(lru, j)
    BY <2>2 DEF Ordered, Cached
  <2>5. /\ order \in Seq(Id) /\ Distinct(order) /\ Len(order) \in Nat \ {0}
        /\ order[Len(order)] = i /\ Len(order) <= Len(lru) + 1
        /\ \A j : Holds(order, j) <=> j = i \/ Holds(lru, j)
        /\ \A x, y : Older(order, x, y) <=>
             x # i /\ ((y = i /\ Holds(lru, x)) \/ (y # i /\ Older(lru, x, y)))
    BY <2>1, <2>4, NewestOrder
  <2> HIDE DEF order
  <2>6. \A j : Holds(order, j) => j \in Id BY <2>5 DEF Holds
  <2> QED BY <2>2, <2>3, <2>4, <2>5, <2>6
<1>2. lru' = IF over THEN Tail(order) ELSE order BY DEF CacheResponse
<1>3. cache' = [j \in Id |-> IF j \in out THEN NoResponse ELSE IF j = i THEN r ELSE cache[j]]
  BY DEF CacheResponse
<1>6. Use(i) /\ \A j \in Id : j \notin out => evictions'[j] = evictions[j]
  BY DEF CacheResponse, TypeOK, CacheOK
<1>7. /\ since'[i] = {} /\ \A j \in Id : j # i => since'[j] = since[j] \cup {i}
  BY <1>6, UseStep
<1> HIDE DEF order
<1>8. \A x, y \in Id : x = i \/ Cached(x) => (y \in since'[x] <=> Older(order, x, y))
  BY <1>1, <1>7 DEF RecentInv, Recent
<1>4. CASE ~over
  <2>1. lru' = order /\ Len(lru') <= CacheSize BY <1>1, <1>2, <1>4
  <2>2. cache' = [j \in Id |-> IF j = i THEN r ELSE cache[j]] BY <1>3, <1>4
  <2>3. \A j \in Id : Cached(j)' <=> j = i \/ Cached(j) BY <2>2 DEF Cached
  <2>4. CacheWellFormed' BY <1>1, <2>1, <2>3, WellFormedIsOrdered DEF Ordered, Cached
  <2>5. Recent' BY <1>8, <2>1, <2>3 DEF Recent
  <2>6. Dropped' BY <1>4, <1>6, <2>3, DroppedStep DEF RecentInv
  <2> QED BY <2>4, <2>5, <2>6 DEF RecentInv
<1>5. CASE over
  <2>1. Len(order) = CacheSize + 1 /\ CacheSize \in Nat \ {0} BY <1>1, <1>5
  <2>2. PICK h \in Id : h = Head(order) /\ h = order[1] BY <1>1, <2>1
  <2>3. h # i BY <1>1, <2>1, <2>2 DEF Distinct
  <2>4. /\ lru' = Tail(order) /\ Len(lru') = CacheSize /\ lru' \in Seq(Id)
        /\ \A k \in 1..CacheSize : lru'[k] = order[k + 1]
    BY <1>1, <1>2, <1>5, <2>1
  <2>5. Distinct(lru')
    <3> SUFFICES ASSUME NEW k \in 1..CacheSize, NEW m \in 1..CacheSize, lru'[k] = lru'[m]
        PROVE  k = m
      BY <2>4 DEF Distinct
    <3>1. k + 1 \in 1..Len(order) /\ m + 1 \in 1..Len(order) BY <2>1
    <3>2. order[k + 1] = order[m + 1] BY <2>4
    <3>3. k + 1 = m + 1 BY <1>1, <3>1, <3>2 DEF Distinct
    <3> QED BY <3>3
  <2>6. ASSUME NEW j \in Id PROVE Holds(lru', j) <=> Holds(order, j) /\ j # h
    <3>1. ASSUME NEW k \in 1..CacheSize, lru'[k] = j PROVE Holds(order, j) /\ j # h
      <4>1. k + 1 \in 1..Len(order) /\ order[k + 1] = j /\ k + 1 # 1 BY <2>1, <2>4, <3>1
      <4>2. 1 \in 1..Len(order) BY <2>1
      <4> QED BY <1>1, <2>2, <4>1, <4>2 DEF Holds, Distinct
    <3>2. ASSUME NEW k \in 1..Len(order), order[k] = j, j # h PROVE Holds(lru', j)
      <4>1. k # 1 BY <2>2, <3>2
      <4>2. k - 1 \in 1..CacheSize BY <2>1, <4>1
      <4>3. lru'[k - 1] = j BY <2>1, <2>4, <3>2, <4>2
      <4> QED BY <2>4, <4>2, <4>3 DEF Holds
    <3> QED BY <2>4, <3>1, <3>2 DEF Holds
  <2>7. cache' = [j \in Id |-> IF j = h THEN NoResponse ELSE IF j = i THEN r ELSE cache[j]]
    BY <1>3, <1>5, <2>2
  <2>8. \A j \in Id : Cached(j)' <=> j # h /\ (j = i \/ Cached(j))
    BY <2>7 DEF Cached, NoResponse
  <2>9. \A j \in Id : Cached(j)' <=> Holds(lru', j) BY <1>1, <2>6, <2>8
  <2>10. CacheWellFormed' BY <2>4, <2>5, <2>9, WellFormedIsOrdered DEF Ordered, Cached
  <2>11. ASSUME NEW x \in Id, NEW y \in Id, x # h
         PROVE  Older(lru', x, y) <=> Older(order, x, y)
    <3>1. ASSUME NEW k \in 1..CacheSize, NEW m \in 1..CacheSize, k < m, lru'[k] = x, lru'[m] = y
          PROVE  Older(order, x, y)
      <4>1. /\ k + 1 \in 1..Len(order) /\ m + 1 \in 1..Len(order) /\ k + 1 < m + 1
            /\ order[k + 1] = x /\ order[m + 1] = y
        BY <2>1, <2>4, <3>1
      <4> QED BY <4>1 DEF Older
    <3>2. ASSUME NEW k \in 1..Len(order), NEW m \in 1..Len(order), k < m,
                 order[k] = x, order[m] = y
          PROVE  Older(lru', x, y)
      <4>1. k # 1 BY <2>2, <2>11, <3>2
      <4>2. /\ k - 1 \in 1..CacheSize /\ m - 1 \in 1..CacheSize /\ k - 1 < m - 1
            /\ (k - 1) + 1 = k /\ (m - 1) + 1 = m
        BY <2>1, <3>2, <4>1
      <4>3. lru'[k - 1] = x /\ lru'[m - 1] = y BY <2>4, <3>2, <4>2
      <4> QED BY <2>4, <4>2, <4>3 DEF Older
    <3> QED BY <2>4, <3>1, <3>2 DEF Older
  <2>12. Recent' BY <1>8, <2>8, <2>11 DEF Recent
  <2>13. Cached(h) /\ Holds(order, h)
    <3>1. 1 \in 1..Len(order) BY <2>1
    <3>2. Holds(order, h) BY <2>2, <3>1 DEF Holds
    <3> QED BY <1>1, <2>3, <3>2
  <2>14. ASSUME NEW j PROVE j \in since'[h] <=> Holds(lru', j)
    <3>1. j \in since'[h] => j \in Id
      BY CacheResponseStep DEF CacheOK
    <3>2. Holds(lru', j) => j \in Id BY <2>4 DEF Holds
    <3>3. ASSUME j \in Id PROVE Older(order, h, j) <=> Holds(lru', j)
      <4>1. ASSUME NEW k \in 1..Len(order), NEW m \in 1..Len(order), k < m,
                   order[k] = h, order[m] = j
            PROVE  Holds(order, j) /\ j # h
        BY <1>1, <4>1 DEF Holds, Distinct
      <4>2. ASSUME NEW m \in 1..Len(order), order[m] = j, j # h PROVE Older(order, h, j)
        <5>1. m # 1 BY <2>2, <4>2
        <5>2. 1 \in 1..Len(order) /\ 1 < m BY <2>1, <5>1
        <5> QED BY <2>2, <4>2, <5>2 DEF Older
      <4> QED BY <2>6, <3>3, <4>1, <4>2 DEF Older, Holds
    <3> QED BY <1>8, <2>2, <2>13, <3>1, <3>2, <3>3
  <2>15. Cardinality(since'[h]) >= CacheSize
    <3>1. Cardinality(since'[h]) = Len(lru') BY <2>4, <2>5, <2>14, ListedCount
    <3> QED BY <2>1, <2>4, <3>1
  <2>16. \A j \in Id : j # h => evictions'[j] = evictions[j] BY <1>5, <1>6, <2>2
  <2>17. Dropped' BY <1>6, <2>3, <2>8, <2>15, <2>16, DroppedStep DEF RecentInv
  <2> QED BY <2>10, <2>12, <2>17 DEF RecentInv
<1> QED BY <1>4, <1>5

\* A replayed entry only becomes the newest (move_to_end in process_frame).
LEMMA MovedOrder ==
  ASSUME TypeOK, RecentInv, NEW i \in Id, Cached(i), lru' = Newest(i), Use(i),
         UNCHANGED <<cache, evictions>>
  PROVE  RecentInv'
<1>1. lru \in Seq(Id) BY DEF TypeOK, CacheOK
<1>2. Ordered(lru, cache) /\ Len(lru) <= CacheSize BY WellFormedIsOrdered DEF RecentInv
<1>3. Holds(lru, i) BY <1>2 DEF Ordered, Cached
<1>4. /\ Distinct(lru') /\ Len(lru') <= CacheSize
      /\ \A j : Holds(lru', j) <=> Holds(lru, j)
      /\ \A x, y : Older(lru', x, y) <=>
           x # i /\ ((y = i /\ Holds(lru, x)) \/ (y # i /\ Older(lru, x, y)))
  BY <1>1, <1>2, <1>3, NewestOrder DEF Ordered
<1>5. Ordered(lru', cache') BY <1>2, <1>4 DEF Ordered
<1>6. \A j \in Id : (Cached(j)' <=> Cached(j)) /\ (Cached(j) => Holds(lru, j))
  BY <1>2 DEF Ordered, Cached
<1>7. Recent' BY <1>4, <1>6, UseStep DEF RecentInv, Recent
<1>8. Dropped' BY <1>6, DroppedStep DEF RecentInv
<1>9. CacheWellFormed' BY <1>4, <1>5, WellFormedIsOrdered
<1> QED BY <1>7, <1>8, <1>9 DEF RecentInv

\* Every step leaves the cache alone, moves an entry to the end, or caches a
\* response.
LEMMA CacheSteps ==
  ASSUME TypeOK, LockInv, [Next]_vars
  PROVE  \/ UNCHANGED cacheVars
         \/ \E i \in Id : /\ Cached(i) /\ lru' = Newest(i) /\ Use(i)
                          /\ UNCHANGED <<cache, evictions>>
         \/ \E i \in Id, r \in Response : r.kind # "none" /\ CacheResponse(i, r)
<1> DEFINE Reused(i) == /\ Cached(i) /\ lru' = Newest(i) /\ Use(i)
                        /\ UNCHANGED <<cache, evictions>>
           Steps == \/ UNCHANGED cacheVars \/ \E i \in Id : Reused(i)
                    \/ \E i \in Id, r \in Response : r.kind # "none" /\ CacheResponse(i, r)
<1>1. ASSUME NEW t \in Task, Respond(t) PROVE Steps
  <2>1. PICK i \in Id : i = task[t].id BY <1>1, RespondId
  <2>2. task[t].resp \in Response /\ cache[i] \in Response /\ inflight[i].resp \in Response
    BY DEF TypeOK, TaskOK, Tasks, CacheOK, Execs
  <2>3. ASSUME NEW r \in Response, CacheResponse(i, AsError(r)) PROVE Steps
    <3>1. AsError(r) \in Response /\ AsError(r).kind # "none" BY ResponseType
    <3> HIDE DEF Steps
    <3>2. \E q \in Response : q.kind # "none" /\ CacheResponse(i, q) BY <2>3, <3>1
    <3> QED BY <3>2 DEF Steps
  <2>4. CASE Replay(t)
    <3> HIDE DEF Steps
    <3>1. \/ UNCHANGED cacheVars
          \/ Reused(i)
          \/ CacheResponse(i, AsError(cache[i]))
      BY <2>1, <2>4 DEF Replay
    <3>2. UNCHANGED cacheVars \/ Reused(i) => Steps BY DEF Steps
    <3> QED BY <2>2, <2>3, <3>1, <3>2
  <2> HIDE DEF Steps
  <2>5. UNCHANGED cacheVars => Steps BY DEF Steps, cacheVars
  <2>6. CASE Join(t) BY <2>1, <2>2, <2>3, <2>5, <2>6 DEF Join
  <2>7. CASE Wake(t) BY <2>1, <2>2, <2>3, <2>5, <2>7 DEF Wake
  <2>8. CASE Execute(t) \/ Send(t) \/ CloseSocket(t)
    BY <2>5, <2>8 DEF Execute, Send, CloseSocket
  <2> QED BY <1>1, <2>4, <2>6, <2>7, <2>8 DEF Respond
<1>2. ASSUME NEW i \in Id, Exec(i) \/ Model(i) PROVE Steps
  <2>1. CASE Proceeds(i) \/ Reap(i) BY <2>1 DEF Proceeds, Reap, cacheVars
  <2>2. CASE Ends(i)
    <3>1. PICK kind \in Kinds \ {"none", "reused", "rejected"}, run \in Nat,
               obs \in Id \cup {NoId} : ExecDone(i, kind, run, obs)
      BY <2>2 DEF Ends
    <3>2. inflight[i].type \in Requests \cup {"none"} BY DEF TypeOK, Execs
    <3>3. PICK r \in Response : r = Reply(kind, inflight[i].type, run, obs)
      BY <3>2, ResponseType
    <3>4. r.kind # "none" BY <3>3 DEF Reply
    <3>5. UNCHANGED cacheVars \/ CacheResponse(i, r) BY <3>1, <3>3 DEF ExecDone
    <3> QED BY <3>4, <3>5 DEF cacheVars
  <2> HIDE DEF Steps
  <2> QED BY <1>2, <2>1, <2>2, ExecEffect
<1>3. ASSUME NEW c \in Conn, Handle(c) \/ Peer(c) PROVE UNCHANGED cacheVars
  BY <1>3 DEF Handle, Peer, LeaveLoop, Drained, DrainTimeout, Accept, Lose, Receive
<1>4. Stop \/ Closed \/ StopDone \/ UNCHANGED vars => UNCHANGED cacheVars
  BY DEF Stop, Closed, StopDone, vars, cacheVars
<1>5. UNCHANGED cacheVars => Steps BY DEF cacheVars
<1> HIDE DEF Steps
<1>6. Steps BY <1>1, <1>2, <1>3, <1>4, <1>5 DEF Next
<1> QED BY <1>6 DEF Steps

LEMMA CacheStep == TypeOK /\ LockInv /\ RecentInv /\ [Next]_vars => RecentInv'
<1> SUFFICES ASSUME TypeOK, LockInv, RecentInv, [Next]_vars PROVE RecentInv'
  OBVIOUS
<1>1. CASE UNCHANGED cacheVars
  BY <1>1 DEF cacheVars, RecentInv, CacheWellFormed, Recent, Dropped, Cached
<1> QED BY <1>1, CacheSteps, CacheResponseOrder, MovedOrder

\* The cache keeps the answers used last (_cache_response, and move_to_end on a
\* replay): whatever is dropped has CacheSize others that were used after it.
THEOREM KeepsRecentCorrect == Spec => []KeepsRecent
<1>1. Init => LockInv /\ RecentInv
  <2> SUFFICES ASSUME Init PROVE LockInv /\ RecentInv
    OBVIOUS
  <2>1. LockInv BY DEF Init, LockInv, ModelSerial, InModel, NotRunning
  <2>2. \A i \in Id : ~Cached(i) /\ evictions[i] = 0 /\ since[i] = {}
    BY DEF Init, Cached, NoResponse
  <2>3. CacheWellFormed /\ Recent BY <2>2 DEF Init, CacheWellFormed, Recent
  <2>4. Dropped BY <2>2, FS_EmptySet DEF Dropped
  <2> QED BY <2>1, <2>3, <2>4 DEF RecentInv
<1>2. TypeOK /\ RecentInv => KeepsRecent
  <2> SUFFICES ASSUME TypeOK, RecentInv, NEW i \in Id, Cached(i)
               PROVE  Cardinality(since[i]) < CacheSize
    BY DEF KeepsRecent, RecentInv, Dropped
  <2> DEFINE S == {j \in Id : Cached(j)}
  <2>1. Ordered(lru, cache) /\ Len(lru) <= CacheSize /\ lru \in Seq(Id)
    BY WellFormedIsOrdered DEF RecentInv, TypeOK, CacheOK
  <2>2. Distinct(lru) /\ \A j : j \in S <=> Holds(lru, j)
    BY <2>1 DEF Ordered, Cached, Holds
  <2>3. IsFiniteSet(S) /\ Cardinality(S) = Len(lru) BY <2>1, <2>2, ListedCount
  <2>4. since[i] \subseteq S \ {i}
    <3> SUFFICES ASSUME NEW y \in since[i] PROVE y \in S /\ y # i
      OBVIOUS
    <3>1. y \in Id BY DEF TypeOK, CacheOK
    <3>2. Older(lru, i, y) BY <3>1 DEF RecentInv, Recent
    <3> HIDE DEF S
    <3> QED BY <2>1, <2>2, <3>2 DEF Older, Holds, Distinct
  <2>5. i \in S OBVIOUS
  <2> HIDE DEF S
  <2>6. IsFiniteSet(S \ {i}) /\ Cardinality(S \ {i}) = Cardinality(S) - 1
    BY <2>3, <2>5, FS_RemoveElement
  <2>7. IsFiniteSet(since[i]) /\ Cardinality(since[i]) <= Cardinality(S \ {i})
    BY <2>4, <2>6, FS_Subset
  <2>8. Cardinality(since[i]) \in Nat /\ Len(lru) \in Nat BY <2>1, <2>7, FS_CardinalityType
  <2> QED BY <2>1, <2>3, <2>6, <2>7, <2>8
<1>3. TypeOK /\ LockInv /\ RecentInv /\ [Next]_vars => RecentInv' BY CacheStep
<1> QED BY <1>1, <1>2, <1>3, LockStep, TypeCorrect, PTL DEF Spec

-----------------------------------------------------------------------------
(* The limit of unfinished respond tasks.                                    *)

\* A frame task that the handler of its connection awaits itself.
Awaited(t) == Live(t) /\ task[t].inline = TRUE
AwaitedByHandler == \A t \in Task : Awaited(t) => handler[task[t].conn] = "inline"
AwaitedOnce ==
  \A t, u \in Task : Awaited(t) /\ Awaited(u) /\ task[t].conn = task[u].conn => t = u
WithinLimit ==
  \A c \in Conn : IsFiniteSet(Pending(c)) /\ Cardinality(Pending(c)) <= MaxPending
\* The handler of a connection awaits at most one task itself, and reads no
\* frame while it does; the tasks it does not await are within the limit.
PendInv == AwaitedByHandler /\ AwaitedOnce /\ WithinLimit

\* Nothing but the reading of a frame adds to a set of pending tasks.
LEMMA FewerPending ==
  ASSUME PendInv, \A c \in Conn : Pending(c)' \subseteq Pending(c)
  PROVE  WithinLimit'
<1> SUFFICES ASSUME NEW c \in Conn
    PROVE  IsFiniteSet(Pending(c)') /\ Cardinality(Pending(c)') <= MaxPending
  BY DEF WithinLimit
<1>1. IsFiniteSet(Pending(c)) /\ Cardinality(Pending(c)) <= MaxPending
  BY DEF PendInv, WithinLimit
<1>2. /\ IsFiniteSet(Pending(c)') /\ Cardinality(Pending(c)') <= Cardinality(Pending(c))
  BY <1>1, FS_Subset
<1>3. Cardinality(Pending(c)) \in Nat /\ Cardinality(Pending(c)') \in Nat
  BY <1>1, <1>2, FS_CardinalityType
<1> QED BY <1>1, <1>2, <1>3

\* The steps in which no task comes to life and no handler that awaits a task
\* goes on.
LEMMA PendKept ==
  ASSUME PendInv,
         \A t \in Task : Live(t)' => Live(t) /\ task'[t].conn = task[t].conn
                                     /\ task'[t].inline = task[t].inline,
         \A t \in Task : Awaited(t)' => handler'[task[t].conn] = handler[task[t].conn]
  PROVE  PendInv'
<1>1. \A c \in Conn : Pending(c)' \subseteq Pending(c) BY DEF Pending
<1>2. WithinLimit' BY <1>1, FewerPending
<1>3. \A t \in Task : Awaited(t)' => Awaited(t) BY DEF Awaited
<1>4. \A t \in Task : Awaited(t)' => task'[t].conn = task[t].conn BY DEF Awaited
<1>5. AwaitedByHandler' BY <1>3, <1>4 DEF PendInv, AwaitedByHandler
<1>6. AwaitedOnce' BY <1>3, <1>4 DEF PendInv, AwaitedOnce
<1> QED BY <1>2, <1>5, <1>6 DEF PendInv

\* A respond task that does not end stays pending.
LEMMA MovesOn ==
  ASSUME TypeOK, PendInv, NEW t \in Task, Live(t), UNCHANGED handler,
         \A u \in Task : u # t => task'[u] = task[u],
         task'[t].conn = task[t].conn, task'[t].inline = task[t].inline
  PROVE  PendInv'
BY PendKept DEF Live

LEMMA RespondPend ==
  ASSUME TypeOK, PendInv, NEW t \in Task, Respond(t) PROVE PendInv'
<1>0. task[t] \in Tasks /\ Live(t)
  BY DEF TypeOK, TaskOK, Live, Respond, Replay, Join, Execute, Wake, Send, CloseSocket
<1>1. ASSUME UNCHANGED handler, NEW pc, NEW resp,
             task' = [task EXCEPT ![t].pc = pc, ![t].resp = resp]
      PROVE  PendInv'
  BY <1>0, <1>1, MovesOn DEF TypeOK, TaskOK, Tasks
<1>2. ASSUME UNCHANGED handler, NEW pc, task' = [task EXCEPT ![t].pc = pc] PROVE PendInv'
  BY <1>0, <1>2, MovesOn DEF TypeOK, TaskOK, Tasks
<1>3. ASSUME UNCHANGED handler, NEW r, Answer(t, r) PROVE PendInv'
  BY <1>1, <1>3 DEF Answer
<1>4. CASE Replay(t) \/ Wake(t) BY <1>3, <1>4 DEF Replay, Wake
<1>5. CASE Join(t) BY <1>2, <1>3, <1>5 DEF Join
<1>6. CASE Execute(t) BY <1>2, <1>6 DEF Execute
<1>7. CASE Send(t) \/ CloseSocket(t)
  <2>1. /\ task' = [task EXCEPT ![t].pc = "done"]
        /\ handler' = IF task[t].inline THEN [handler EXCEPT ![task[t].conn] = "reading"]
                      ELSE handler
    BY <1>7 DEF Send, CloseSocket, Finish
  <2>2. ~Live(t)' /\ \A u \in Task : u # t => task'[u] = task[u]
    BY <1>0, <2>1 DEF Live, TypeOK, TaskOK, Tasks
  <2>3. \A u \in Task : Live(u)' => u # t /\ task'[u] = task[u] /\ Live(u)
    BY <2>2 DEF Live
  <2>4. ASSUME NEW u \in Task, Awaited(u)'
        PROVE  handler'[task[u].conn] = handler[task[u].conn]
    <3>1. u # t /\ Live(u) /\ Awaited(u) BY <2>3, <2>4 DEF Awaited
    <3>2. task[t].inline = TRUE => task[u].conn # task[t].conn
      BY <1>0, <3>1 DEF PendInv, AwaitedOnce, Awaited
    <3>3. task[u].conn \in Conn BY <3>1 DEF Live, TypeOK, TaskOK
    <3> QED BY <2>1, <3>2, <3>3 DEF TypeOK
  <2> QED BY <2>3, <2>4, PendKept
<1> QED BY <1>4, <1>5, <1>6, <1>7 DEF Respond

\* A frame is added to the set only below the limit; at the limit, or when it is
\* malformed, the handler takes it itself and had none.
LEMMA ReceivePend ==
  ASSUME TypeOK, PendInv, NEW c \in Conn, NEW t \in Task, NEW i \in Id, NEW type \in Types,
         Receive(c, t, i, type)
  PROVE  PendInv'
<1> DEFINE inline == type = "MALFORMED" \/ AtLimit(c)
<1>1. /\ handler[c] = "reading" /\ task[t].pc = "idle"
      /\ handler' = IF inline THEN [handler EXCEPT ![c] = "inline"] ELSE handler
  BY DEF Receive
<1>2. /\ task'[t].conn = c /\ task'[t].inline = inline /\ Live(t)'
      /\ \A u \in Task : u # t => task'[u] = task[u]
  <2> DEFINE new == [pc |-> IF type = "MALFORMED" THEN "sending" ELSE "new",
                     conn |-> c, id |-> i, inline |-> inline,
                     type |-> IF type = "MALFORMED" THEN "none" ELSE type,
                     resp |-> IF type = "MALFORMED" THEN Reply("rejected", "none", 0, NoId)
                              ELSE NoResponse]
  <2>1. task' = [task EXCEPT ![t] = new] BY DEF Receive
  <2>2. new.conn = c /\ new.inline = inline /\ new.pc \in {"sending", "new"} OBVIOUS
  <2> HIDE DEF new, inline
  <2>3. task'[t] = new BY <2>1 DEF TypeOK, TaskOK
  <2> QED BY <2>1, <2>2, <2>3 DEF TypeOK, TaskOK, Live
<1> HIDE DEF inline
<1>3. ~Live(t) /\ \A u \in Task : u # t => (Live(u)' <=> Live(u)) BY <1>1, <1>2 DEF Live
<1>4. /\ \A u \in Task : Awaited(u) => task[u].conn # c
      /\ \A u \in Task : u # t => (Awaited(u)' <=> Awaited(u))
  BY <1>1, <1>2, <1>3 DEF PendInv, AwaitedByHandler, Awaited
<1>5. AwaitedByHandler'
  <2> SUFFICES ASSUME NEW u \in Task, Awaited(u)' PROVE handler'[task'[u].conn] = "inline"
    BY DEF AwaitedByHandler
  <2>1. CASE u = t
    <3>1. inline BY <1>2, <2>1 DEF Awaited
    <3> QED BY <1>1, <1>2, <2>1, <3>1 DEF TypeOK
  <2>2. CASE u # t
    <3>1. Awaited(u) /\ task'[u] = task[u] BY <1>2, <1>4, <2>2
    <3>2. handler[task[u].conn] = "inline" /\ task[u].conn # c
      BY <1>4, <3>1 DEF PendInv, AwaitedByHandler
    <3> QED BY <1>1, <3>1, <3>2 DEF TypeOK
  <2> QED BY <2>1, <2>2
<1>6. AwaitedOnce'
  <2> SUFFICES ASSUME NEW u \in Task, NEW v \in Task, Awaited(u)', Awaited(v)',
                      task'[u].conn = task'[v].conn
      PROVE  u = v
    BY DEF AwaitedOnce
  <2>1. CASE u # t /\ v # t BY <1>2, <1>4, <2>1 DEF PendInv, AwaitedOnce
  <2>2. CASE u = t /\ v # t BY <1>2, <1>4, <2>2
  <2>3. CASE u # t /\ v = t BY <1>2, <1>4, <2>3
  <2> QED BY <2>1, <2>2, <2>3
<1>7. ASSUME NEW d \in Conn
      PROVE  IsFiniteSet(Pending(d)') /\ Cardinality(Pending(d)') <= MaxPending
  <2>1. IsFiniteSet(Pending(d)) /\ Cardinality(Pending(d)) <= MaxPending
        /\ Cardinality(Pending(d)) \in Nat
    BY FS_CardinalityType DEF PendInv, WithinLimit
  <2>2. CASE d = c /\ ~inline
    <3>1. Cardinality(Pending(c)) < MaxPending
      BY <2>1, <2>2 DEF AtLimit, inline
    <3>2. Pending(c)' = Pending(c) \cup {t} BY <1>2, <1>3, <2>2 DEF Pending
    <3>3. t \notin Pending(c) BY <1>3 DEF Pending
    <3>4. IsFiniteSet(Pending(c)') /\ Cardinality(Pending(c)') = Cardinality(Pending(c)) + 1
      BY <2>1, <2>2, <3>2, <3>3, FS_AddElement
    <3> QED BY <2>1, <2>2, <3>1, <3>4
  <2>3. CASE d # c \/ inline
    <3>1. Pending(d)' = Pending(d) BY <1>2, <1>3, <2>3 DEF Pending
    <3> QED BY <2>1, <3>1
  <2> QED BY <2>2, <2>3
<1>8. WithinLimit' BY <1>7 DEF WithinLimit
<1> QED BY <1>5, <1>6, <1>8 DEF PendInv

LEMMA PendStep == TypeOK /\ LockInv /\ PendInv /\ [Next]_vars => PendInv'
<1> SUFFICES ASSUME TypeOK, LockInv, PendInv, [Next]_vars PROVE PendInv'
  OBVIOUS
<1>1. CASE UNCHANGED <<task, handler>> BY <1>1, PendKept DEF Live
<1>2. ASSUME NEW i \in Id, Exec(i) \/ Model(i) PROVE PendInv'
  <2>1. UNCHANGED handler
    BY <1>2 DEF Exec, Model, AnswerWithoutModel, CallModel, StartDecode, EndDecode, Grant, Reap,
       Observe, Act, LeaveModel
  <2>2. CASE Proceeds(i) \/ Ends(i) BY <1>1, <2>1, <2>2 DEF Proceeds, Ends
  <2>3. CASE Reap(i)
    <3>1. ASSUME NEW t \in Task, task[t].pc = "waiting" /\ task[t].id = i
          PROVE  Live(t) /\ task'[t].conn = task[t].conn /\ task'[t].inline = task[t].inline
      <4>1. task[t] \in Tasks BY DEF TypeOK, TaskOK
      <4>2. task'[t] = [task[t] EXCEPT !.pc = "woken", !.resp = inflight[i].resp]
        BY <2>3, <3>1 DEF Reap
      <4> QED BY <3>1, <4>1, <4>2 DEF Live, Tasks
    <3>2. ASSUME NEW t \in Task, ~(task[t].pc = "waiting" /\ task[t].id = i)
          PROVE  task'[t] = task[t]
      BY <2>3, <3>2 DEF Reap
    <3>3. \A t \in Task : Live(t)' => Live(t) /\ task'[t].conn = task[t].conn
                                      /\ task'[t].inline = task[t].inline
      BY <3>1, <3>2 DEF Live
    <3> QED BY <2>1, <3>3, PendKept
  <2> QED BY <1>2, <2>2, <2>3, ExecEffect
<1>3. ASSUME NEW c \in Conn, LeaveLoop(c) \/ Drained(c) \/ Accept(c) PROVE PendInv'
  <2>1. /\ UNCHANGED task /\ handler[c] # "inline"
        /\ \A d \in Conn : d # c => handler'[d] = handler[d]
    BY <1>3 DEF LeaveLoop, Drained, Accept, TypeOK
  <2>2. \A t \in Task : Live(t) => task[t].conn \in Conn BY DEF Live, TypeOK, TaskOK
  <2>3. \A t \in Task : Awaited(t) => task[t].conn # c
    BY <2>1 DEF PendInv, AwaitedByHandler
  <2>4. \A t \in Task : Awaited(t)' => handler'[task[t].conn] = handler[task[t].conn]
    BY <2>1, <2>2, <2>3 DEF Awaited, Live
  <2> QED BY <2>1, <2>4, PendKept DEF Live
<1>4. ASSUME NEW c \in Conn, DrainTimeout(c) PROVE PendInv'
  <2>1. /\ handler[c] = "draining" /\ handler' = [handler EXCEPT ![c] = "done"]
        /\ \A t \in Task : task'[t] = task[t] \/ task'[t] = [task[t] EXCEPT !.pc = "cancelled"]
    BY <1>4 DEF DrainTimeout
  <2>2. \A t \in Task : task[t] \in Tasks BY DEF TypeOK, TaskOK
  <2>3. ASSUME NEW t \in Task, Live(t)' PROVE Live(t) /\ task'[t] = task[t]
    <3>1. [task[t] EXCEPT !.pc = "cancelled"].pc = "cancelled" BY <2>2 DEF Tasks
    <3> QED BY <2>1, <2>3, <3>1 DEF Live
  <2>4. \A t \in Task : Live(t) => task[t].conn \in Conn BY DEF Live, TypeOK, TaskOK
  <2>5. \A t \in Task : Awaited(t) => task[t].conn # c
    BY <2>1 DEF PendInv, AwaitedByHandler
  <2>6. \A t \in Task : Awaited(t)' => handler'[task[t].conn] = handler[task[t].conn]
    BY <2>1, <2>3, <2>4, <2>5 DEF Awaited, TypeOK
  <2> QED BY <2>3, <2>6, PendKept
<1>5. ASSUME NEW c \in Conn, Handle(c) \/ Peer(c) PROVE PendInv'
  BY <1>1, <1>3, <1>4, <1>5, ReceivePend DEF Handle, Peer, Lose
<1>6. CASE Stop \/ Closed \/ StopDone \/ UNCHANGED vars
  BY <1>1, <1>6 DEF Stop, Closed, StopDone, vars
<1> QED BY <1>2, <1>5, <1>6, RespondPend DEF Next

\* A connection never has more than MaxPending unfinished respond tasks and
\* the one its handler awaits itself.
THEOREM PendingBoundedCorrect == Spec => []PendingBounded
<1>1. Init => LockInv /\ PendInv
  <2>1. ASSUME Init, NEW c \in Conn
        PROVE  IsFiniteSet(Pending(c)) /\ Cardinality(Pending(c)) <= MaxPending
    <3>1. Pending(c) = {} BY <2>1 DEF Init, Pending, Live, Idle
    <3> QED BY <3>1, FS_EmptySet
  <2>2. Init => \A t \in Task : ~Live(t) BY DEF Init, Live, Idle
  <2>3. Init => PendInv
    BY <2>1, <2>2 DEF PendInv, AwaitedByHandler, AwaitedOnce, WithinLimit, Awaited
  <2> QED BY <2>3 DEF Init, LockInv, ModelSerial, InModel, NotRunning
<1>2. TypeOK /\ PendInv => PendingBounded
  <2> SUFFICES ASSUME TypeOK, PendInv, NEW c \in Conn
      PROVE  Cardinality({t \in Task : Live(t) /\ task[t].conn = c}) <= MaxPending + 1
    BY DEF PendingBounded
  <2> DEFINE all == {t \in Task : Live(t) /\ task[t].conn = c}
  <2>1. IsFiniteSet(Pending(c)) /\ Cardinality(Pending(c)) <= MaxPending
        /\ Cardinality(Pending(c)) \in Nat
    BY FS_CardinalityType DEF PendInv, WithinLimit
  <2>2. CASE \E t \in all : task[t].inline = TRUE
    <3>1. PICK t \in all : task[t].inline = TRUE BY <2>2
    <3>2. all = Pending(c) \cup {t}
      <4>1. \A u \in all : task[u].inline = TRUE => u = t
        BY <3>1 DEF PendInv, AwaitedOnce, Awaited
      <4>2. \A u \in Task : task[u].inline \in BOOLEAN BY DEF TypeOK, TaskOK, Tasks
      <4> QED BY <3>1, <4>1, <4>2 DEF Pending
    <3>3. IsFiniteSet(Pending(c) \cup {t})
          /\ Cardinality(Pending(c) \cup {t}) <= Cardinality(Pending(c)) + 1
      <4> DEFINE S == Pending(c)
      <4>1. IsFiniteSet(S) /\ Cardinality(S) \in Nat BY <2>1
      <4> HIDE DEF S
      <4>2. IsFiniteSet(S \cup {t})
            /\ Cardinality(S \cup {t}) = IF t \in S THEN Cardinality(S) ELSE Cardinality(S) + 1
        BY <4>1, FS_AddElement
      <4>3. Cardinality(S \cup {t}) <= Cardinality(S) + 1 BY <4>1, <4>2
      <4> QED BY <4>2, <4>3 DEF S
    <3> HIDE DEF all
    <3>4. Cardinality(all) \in Nat /\ Cardinality(all) <= Cardinality(Pending(c)) + 1
      BY <3>2, <3>3, FS_CardinalityType
    <3>5. Cardinality(all) <= MaxPending + 1 BY <2>1, <3>4
    <3> QED BY <3>5 DEF all
  <2>3. CASE ~\E t \in all : task[t].inline = TRUE
    <3>1. \A u \in Task : task[u].inline \in BOOLEAN BY DEF TypeOK, TaskOK, Tasks
    <3>2. all = Pending(c) BY <2>3, <3>1 DEF Pending
    <3> HIDE DEF all
    <3>3. Cardinality(all) <= MaxPending + 1 BY <2>1, <3>2
    <3> QED BY <3>3 DEF all
  <2> QED BY <2>2, <2>3
<1> QED BY <1>1, <1>2, LockStep, PendStep, TypeCorrect, PTL DEF Spec

-----------------------------------------------------------------------------
(* The server implements AnsweredOnce.                                        *)

\* What makes up the state of an id in AnsweredOnce, apart from its entry.
SameRequest(i) ==
  /\ inflight'[i] = inflight[i] /\ calls'[i] = calls[i] /\ Told(i)' = Told(i)

\* Its entry, unless it was or is dropped, holds the same answer, or none still.
SameEntry(i) ==
  /\ evictions[i] > 0 => evictions'[i] > 0
  /\ evictions'[i] = 0 => evictions[i] = 0 /\ (Cached(i)' <=> Cached(i))
                          /\ (Cached(i) => Final(cache'[i]) = Final(cache[i]))

LEMMA RequestedDropped ==
  ASSUME NEW i \in Id, evictions[i] > 0 PROVE Requested(i) = Once!Dropped
BY DEF Requested, Progress, Once!Dropped, Once!Req

LEMMA RequestedDroppedNext ==
  ASSUME NEW i \in Id, evictions'[i] > 0 PROVE Requested(i)' = Once!Dropped
BY DEF Requested, Progress, Once!Dropped, Once!Req

LEMMA SpareRequest ==
  ASSUME TypeOK, TypeOK', NEW i \in Id, SameRequest(i), SameEntry(i)
  PROVE  Requested(i)' \in {Requested(i), Once!Dropped}
<1>1. evictions[i] \in Nat /\ evictions'[i] \in Nat BY DEF TypeOK, CacheOK
<1>2. CASE evictions'[i] > 0 BY <1>2, RequestedDroppedNext
<1>3. CASE evictions'[i] = 0
  <2>1. Progress(i)' = Progress(i)
    BY <1>1, <1>3 DEF SameRequest, SameEntry, Progress
  <2>2. Progress(i) = "answered" => Cached(i) BY <1>1 DEF Progress
  <2> QED BY <1>1, <1>3, <2>1, <2>2 DEF SameRequest, SameEntry, Requested
<1> QED BY <1>1, <1>2, <1>3

LEMMA ToldKept ==
  ASSUME NEW i \in Id,
         \A t \in Task : \/ task'[t] = task[t]
                         \/ task[t].pc # "done" /\ task'[t].pc # "done"
                         \/ task[t].id # i /\ task'[t].id # i
  PROVE  Told(i)' = Told(i)
BY DEF Told

\* What an id looks like that was not dropped.
Busy(i) == inflight[i].pc # "none" /\ inflight[i].type # "CLOSE"
Begun(i) == IF Busy(i) THEN "running" ELSE "new"
Looks(i) ==
  evictions[i] = 0 =>
    /\ Cached(i) => /\ Requested(i) = Once!Req("answered", calls[i], {Final(cache[i])}, Told(i))
                    /\ Told(i) \subseteq {Final(cache[i])}
    /\ ~Cached(i) => /\ Requested(i) = Once!Req(Begun(i), calls[i], {}, {})
                     /\ Told(i) = {}

LEMMA RequestLooks == TypeOK /\ SameInv => \A i \in Id : Looks(i)
<1> SUFFICES ASSUME TypeOK, SameInv, NEW i \in Id, evictions[i] = 0 PROVE Looks(i)
  BY DEF Looks
<1>1. ASSUME NEW t \in Task, task[t].pc = "done", task[t].id = i,
             task[t].resp.kind \notin {"reused", "rejected", "closing"}
      PROVE  Cached(i) /\ task[t].resp = Final(cache[i])
  <2>1. Answered(t) BY <1>1 DEF Answered
  <2>2. Encodable(task[t].resp) /\ Stands(cache[i], 0, task[t].resp)
    BY <1>1, <2>1 DEF SameInv
  <2>3. task[t].resp # Closing BY <1>1 DEF Closing, Reply
  <2> QED BY <2>2, <2>3 DEF Stands, Final, Cached
<1>2. \A r \in Told(i) : Cached(i) /\ r = Final(cache[i]) BY <1>1 DEF Told
<1>3. CASE Cached(i)
  <2>1. Progress(i) = "answered" BY <1>3 DEF Progress
  <2> QED BY <1>2, <1>3, <2>1 DEF Looks, Requested, Once!Req
<1>4. CASE ~Cached(i)
  <2>1. Progress(i) = Begun(i) BY <1>4 DEF Progress, Busy, Begun
  <2>2. Progress(i) # "answered" BY <2>1 DEF Begun
  <2>3. Told(i) = {} BY <1>2, <1>4
  <2> QED BY <1>4, <2>1, <2>2, <2>3 DEF Looks, Requested, Once!Req
<1> QED BY <1>3, <1>4

\* The steps of AnsweredOnce, on what the server holds of an id.
RequestStep(i) ==
  \/ Requested(i) = Once!New /\ Requested(i)' = Once!Req("running", 0, {}, {})
  \/ /\ Requested(i) = Once!Req("running", 0, {}, {})
     /\ Requested(i)' = Once!Req("running", 1, {}, {})
  \/ \E a \in Response :
       /\ Requested(i) = Once!Req("running", a.run, {}, {})
       /\ Requested(i)' = Once!Req("answered", a.run, {a}, {})
  \/ \E n, answer, told :
       /\ Requested(i) = Once!Req("answered", n, answer, told)
       /\ Requested(i)' = Once!Req("answered", n, answer, answer)
  \/ Requested(i)' \in {Requested(i), Once!Dropped}

LEMMA QuietRequest ==
  ASSUME NEW i \in Id, Requested(i)' \in {Requested(i), Once!Dropped} PROVE RequestStep(i)
BY DEF RequestStep

LEMMA DroppedRequest ==
  ASSUME NEW i \in Id, evictions[i] > 0, evictions'[i] = evictions[i] PROVE RequestStep(i)
BY RequestedDroppedNext, QuietRequest

LEMMA EnteredRequest ==
  ASSUME NEW i \in Id, Requested(i) = Once!Req("running", 0, {}, {}),
         Requested(i)' = Once!Req("running", 1, {}, {})
  PROVE  RequestStep(i)
BY DEF RequestStep

LEMMA RequestStepIsStep == ASSUME NEW i \in Id, RequestStep(i) PROVE Once!Step(i)
<1> DEFINE r == Requested(i)
           s == Requested(i)'
<1>0. /\ [k \in Id |-> Requested(k)][i] = r
      /\ [k \in Id |-> Requested(k)]'[i] = s
  OBVIOUS
<1> HIDE DEF r, s
<1>1. CASE r = Once!New /\ s = Once!Req("running", 0, {}, {})
  BY <1>0, <1>1 DEF Once!Step, Once!Start
<1>2. CASE r = Once!Req("running", 0, {}, {}) /\ s = Once!Req("running", 1, {}, {})
  BY <1>0, <1>2 DEF Once!Step, Once!EnterModel
<1>3. ASSUME NEW a \in Response,
             r = Once!Req("running", a.run, {}, {}), s = Once!Req("answered", a.run, {a}, {})
      PROVE  Once!Step(i)
  <2>1. r.state = "running" /\ r.runs = a.run /\ s.answer = {a} BY <1>3 DEF Once!Req
  <2> QED BY <1>0, <1>3, <2>1 DEF Once!Step, Once!End
<1>4. ASSUME NEW n, NEW answer, NEW told,
             r = Once!Req("answered", n, answer, told), s = Once!Req("answered", n, answer, answer)
      PROVE  Once!Step(i)
  <2>1. r.state = "answered" /\ s = [r EXCEPT !.told = r.answer] BY <1>4 DEF Once!Req
  <2> QED BY <1>0, <2>1 DEF Once!Step, Once!Tell
<1>5. CASE s \in {r, Once!Dropped} BY <1>0, <1>5 DEF Once!Step
<1>6. \/ r = Once!New /\ s = Once!Req("running", 0, {}, {})
      \/ r = Once!Req("running", 0, {}, {}) /\ s = Once!Req("running", 1, {}, {})
      \/ \E a \in Response : /\ r = Once!Req("running", a.run, {}, {})
                             /\ s = Once!Req("answered", a.run, {a}, {})
      \/ \E n, answer, told : /\ r = Once!Req("answered", n, answer, told)
                              /\ s = Once!Req("answered", n, answer, answer)
      \/ s \in {r, Once!Dropped}
  BY DEF RequestStep, r, s
<1> QED BY <1>1, <1>2, <1>3, <1>4, <1>5, <1>6

\* The entries of a step: nobody's but the one it answers appears.
LEMMA CacheSpares ==
  ASSUME TypeOK, NEW i \in Id, NEW r \in Response, r.kind # "none", CacheResponse(i, r),
         \A j \in Id : KeepsEntry(j)
  PROVE  \A j \in Id : j # i \/ (evictions'[j] = 0 => (Cached(j)' => Cached(j))) => SameEntry(j)
<1> SUFFICES ASSUME NEW j \in Id, j # i \/ (evictions'[j] = 0 => (Cached(j)' => Cached(j)))
    PROVE  SameEntry(j)
  OBVIOUS
<1>1. /\ evictions'[j] >= evictions[j] /\ evictions[j] \in Nat /\ evictions'[j] \in Nat
      /\ Cached(j)' /\ j # i => cache'[j] = cache[j]
  BY CacheResponseStep DEF TypeOK, CacheOK
<1>2. evictions'[j] = 0 => (Cached(j)' => Cached(j)) BY <1>1 DEF Cached
<1>3. KeepsEntry(j) OBVIOUS
<1>4. evictions[j] > 0 => evictions'[j] > 0 BY <1>1
<1> QED BY <1>2, <1>3, <1>4 DEF SameEntry, KeepsEntry

LEMMA RespondEntries ==
  ASSUME TypeOK, SameInv, NEW t \in Task, Respond(t) PROVE \A j \in Id : SameEntry(j)
<1>1. CASE UNCHANGED <<cache, evictions>> BY <1>1 DEF SameEntry, Cached
<1>2. CASE ~UNCHANGED <<cache, evictions>>
  <2>1. PICK i \in Id : i = task[t].id BY RespondId
  <2>2. PICK r \in Response : CacheResponse(i, AsError(r)) BY <1>2, <2>1, RespondCache
  <2>3. AsError(r) \in Response /\ AsError(r).kind # "none" BY ResponseType
  <2>4. \A j \in Id : KeepsEntry(j) /\ (evictions'[j] = 0 => (Cached(j)' => Cached(j)))
    BY RespondKeepsEntries
  <2> QED BY <2>2, <2>3, <2>4, CacheSpares
<1> QED BY <1>1, <1>2

\* A response that is sent, or was refused: the answer is told, if it is one.
LEMMA SentRequest ==
  ASSUME TypeOK, TypeOK', SameInv, NEW t \in Task, Send(t) \/ CloseSocket(t),
         NEW i \in Id, i = task[t].id, Looks(i), Looks(i)'
  PROVE  RequestStep(i)
<1> DEFINE r == task[t].resp
<1>1. /\ task[t].pc \in {"sending", "closing"} /\ task' = [task EXCEPT ![t].pc = "done"]
      /\ UNCHANGED <<cache, evictions, inflight, calls>>
  BY DEF Send, CloseSocket, Finish, execVars, cacheVars
<1>2. /\ task'[t].pc = "done" /\ task'[t].resp = r /\ task'[t].id = i
      /\ \A u \in Task : u # t => task'[u] = task[u]
  BY <1>1 DEF TypeOK, TaskOK, Tasks
<1>3. CASE evictions[i] > 0
  BY <1>1, <1>3, DroppedRequest
<1>4. CASE evictions[i] = 0 /\ r.kind \in {"reused", "rejected", "closing"}
  <2>1. Told(i)' = Told(i) BY <1>1, <1>2, <1>4 DEF Told
  <2> QED BY <1>1, <2>1, SpareRequest DEF SameRequest, SameEntry, Cached, RequestStep
<1>5. CASE evictions[i] = 0 /\ r.kind \notin {"reused", "rejected", "closing"}
  <2>1. Answered(t) BY <1>1, <1>5 DEF Answered
  <2>2. Encodable(r) /\ Stands(cache[i], 0, r) BY <1>5, <2>1 DEF SameInv
  <2>3. r # Closing BY <1>5 DEF Closing, Reply
  <2>4. Cached(i) /\ Final(cache[i]) = r BY <2>2, <2>3 DEF Stands, Final, Cached
  <2>5. Cached(i)' BY <1>1, <2>4 DEF Cached
  <2>6. r \in Told(i)' BY <1>2, <1>5 DEF Told
  <2>7. /\ Requested(i) = Once!Req("answered", calls[i], {r}, Told(i))
        /\ Requested(i)' = Once!Req("answered", calls[i], {r}, Told(i)')
        /\ Told(i)' \subseteq {r}
    BY <1>1, <1>5, <2>4, <2>5 DEF Looks, Begun
  <2>8. Told(i)' = {r} BY <2>6, <2>7
  <2> QED BY <2>7, <2>8 DEF RequestStep
<1>6. evictions[i] \in Nat BY DEF TypeOK, CacheOK
<1> QED BY <1>3, <1>4, <1>5, <1>6

\* A new execution starts the request, unless it is a CLOSE.
LEMMA ExecuteRequest ==
  ASSUME TypeOK, TypeOK', RunInv, NEW t \in Task, Execute(t), NEW i \in Id, i = task[t].id,
         Looks(i), Looks(i)'
  PROVE  RequestStep(i)
<1>1. /\ ~Cached(i) /\ inflight[i].pc = "none" /\ inflight'[i].pc = "created"
      /\ UNCHANGED <<cache, evictions, calls>>
  BY DEF Execute, Running, cacheVars, TypeOK
<1>2. evictions[i] \in Nat /\ calls[i] \in Nat BY DEF TypeOK, CacheOK
<1>3. CASE evictions[i] > 0
  BY <1>1, <1>3, DroppedRequest
<1>4. CASE evictions[i] = 0
  <2>1. calls[i] = 0 BY <1>1, <1>2, <1>4 DEF RunInv, RunInvOf
  <2>2. ~Busy(i) /\ ~Cached(i)' BY <1>1 DEF Busy, Cached
  <2>3. Requested(i) = Once!Req("new", 0, {}, {}) BY <1>1, <1>4, <2>1, <2>2 DEF Looks, Begun
  <2>4. Requested(i)' = Once!Req(Begun(i)', 0, {}, {})
    BY <1>1, <1>4, <2>1, <2>2 DEF Looks, Begun
  <2> QED BY <2>3, <2>4 DEF RequestStep, Once!New, Begun
<1> QED BY <1>2, <1>3, <1>4

LEMMA RespondMoves ==
  ASSUME TypeOK, NEW t \in Task, Respond(t)
  PROVE  /\ \A u \in Task : u # t => task'[u] = task[u]
         /\ task'[t].id = task[t].id
         /\ Send(t) \/ CloseSocket(t) \/ (task[t].pc # "done" /\ task'[t].pc # "done")
<1>1. /\ task[t].resp \in Response
      /\ \A i \in Id : cache[i] \in Response /\ inflight[i].resp \in Response
  BY DEF TypeOK, TaskOK, Tasks, CacheOK, Execs
<1>2. ReusedId(t) \in Response
  <2>1. task[t].type \in Requests \cup {"none"} BY DEF TypeOK, TaskOK, Tasks
  <2>2. "reused" \in Kinds /\ 0 \in Nat /\ NoId \in Id \cup {NoId} BY DEF Kinds
  <2> QED BY <2>1, <2>2, ResponseType DEF ReusedId, Reply
<1>3. ASSUME NEW r \in Response, Answer(t, r)
      PROVE  /\ \A u \in Task : u # t => task'[u] = task[u]
             /\ task'[t].id = task[t].id /\ task'[t].pc # "done"
  BY <1>3, AnswerEffect
<1>4. ASSUME NEW pc \in {"waiting", "done"}, task' = [task EXCEPT ![t].pc = pc]
      PROVE  /\ \A u \in Task : u # t => task'[u] = task[u]
             /\ task'[t].id = task[t].id /\ task'[t].pc = pc
  BY <1>4 DEF TypeOK, TaskOK, Tasks
<1>5. PICK i \in Id : i = task[t].id BY RespondId
<1>6. CASE Replay(t)
  <2>1. task[t].pc = "new" /\ \E r \in Response : Answer(t, r)
    BY <1>1, <1>2, <1>5, <1>6 DEF Replay
  <2> QED BY <1>3, <2>1
<1>7. CASE Join(t)
  <2>1. /\ task[t].pc = "new"
        /\ (\E r \in Response : Answer(t, r)) \/ task' = [task EXCEPT ![t].pc = "waiting"]
    BY <1>1, <1>2, <1>5, <1>7 DEF Join
  <2> QED BY <1>3, <1>4, <2>1
<1>8. CASE Execute(t)
  <2>1. task[t].pc = "new" /\ task' = [task EXCEPT ![t].pc = "waiting"] BY <1>8 DEF Execute
  <2> QED BY <1>4, <2>1
<1>9. CASE Wake(t)
  <2>1. task[t].pc = "woken" /\ Answer(t, task[t].resp) BY <1>9 DEF Wake
  <2> QED BY <1>1, <1>3, <2>1
<1>10. CASE Send(t) \/ CloseSocket(t)
  <2>1. task' = [task EXCEPT ![t].pc = "done"] BY <1>10 DEF Send, CloseSocket, Finish
  <2> QED BY <1>4, <1>10, <2>1
<1> QED BY <1>6, <1>7, <1>8, <1>9, <1>10 DEF Respond

LEMMA RespondRequest ==
  ASSUME TypeOK, TypeOK', SameInv, RunInv, NEW t \in Task, Respond(t),
         NEW i \in Id, i = task[t].id, Looks(i), Looks(i)'
  PROVE  RequestStep(i) /\ \A j \in Id \ {i} : Requested(j)' \in {Requested(j), Once!Dropped}
<1>1. \A j \in Id : SameEntry(j) BY RespondEntries
<1>2. /\ \A u \in Task : u # t => task'[u] = task[u]
      /\ task'[t].id = i
      /\ Send(t) \/ CloseSocket(t) \/ (task[t].pc # "done" /\ task'[t].pc # "done")
  BY RespondMoves
<1>3. UNCHANGED <<inflight, calls>> \/ Execute(t)
  BY DEF Respond, Replay, Join, Wake, Send, CloseSocket, execVars
<1>4. ASSUME NEW j \in Id \ {i} PROVE Requested(j)' \in {Requested(j), Once!Dropped}
  <2>1. Told(j)' = Told(j) BY <1>2, ToldKept
  <2>2. inflight'[j] = inflight[j] /\ calls'[j] = calls[j]
    BY <1>3 DEF Execute, TypeOK
  <2> QED BY <1>1, <2>1, <2>2, SpareRequest DEF SameRequest
<1>5. RequestStep(i)
  <2>1. CASE Execute(t) BY <2>1, ExecuteRequest
  <2>2. CASE Send(t) \/ CloseSocket(t) BY <2>2, SentRequest
  <2>3. CASE ~(Execute(t) \/ Send(t) \/ CloseSocket(t))
    <3>1. Told(i)' = Told(i) BY <1>2, <2>3, ToldKept
    <3>2. SameRequest(i) BY <1>3, <2>3, <3>1 DEF SameRequest
    <3> QED BY <1>1, <3>2, SpareRequest DEF RequestStep
  <2> QED BY <2>1, <2>2, <2>3
<1> QED BY <1>4, <1>5

\* A step of an execution before its end: it enters the model for the first time,
\* or nothing is to be seen of it.
LEMMA ProceedsRequest ==
  ASSUME TypeOK, TypeOK', SameInv, RunInv, NEW i \in Id, Proceeds(i), Looks(i), Looks(i)'
  PROVE  RequestStep(i) /\ \A j \in Id \ {i} : Requested(j)' \in {Requested(j), Once!Dropped}
<1>1. /\ UNCHANGED <<task, cache, evictions>>
      /\ inflight[i].pc \notin {"none", "done"}
      /\ inflight[i].pc = "created" => inflight[i].type \in Locked \cup Decoded
      /\ UNCHANGED calls \/ (~InModel(i) /\ calls' = [calls EXCEPT ![i] = @ + 1])
  BY DEF Proceeds, cacheVars
<1>2. /\ inflight'[i].type = inflight[i].type /\ inflight'[i].pc # "none"
      /\ \A j \in Id : j # i => inflight'[j] = inflight[j]
  BY ExecKeepsType DEF Running
<1>3. ASSUME NEW j \in Id \ {i} PROVE Requested(j)' \in {Requested(j), Once!Dropped}
  <2>1. Told(j)' = Told(j) BY <1>1, ToldKept
  <2>2. calls'[j] = calls[j] BY <1>1 DEF TypeOK
  <2> QED BY <1>1, <1>2, <2>1, <2>2, SpareRequest DEF SameRequest, SameEntry, Cached
<1>4. evictions[i] \in Nat /\ calls[i] \in Nat BY DEF TypeOK, CacheOK
<1>5. CASE evictions[i] > 0
  BY <1>3, <1>1, <1>5, DroppedRequest
<1>6. CASE evictions[i] = 0
  <2>1. inflight[i].type # "CLOSE" BY <1>1 DEF SameInv, Locked, Decoded
  <2>2. ~Cached(i) /\ ~Cached(i)' BY <1>1, <1>6 DEF SameInv, Cached
  <2>3. Busy(i) /\ Busy(i)' BY <1>1, <1>2, <2>1 DEF Busy
  <2>4. /\ Requested(i) = Once!Req("running", calls[i], {}, {})
        /\ Requested(i)' = Once!Req("running", calls'[i], {}, {})
    BY <1>1, <1>6, <2>2, <2>3 DEF Looks, Begun
  <2>5. CASE UNCHANGED calls
    <3>1. Requested(i)' = Requested(i) BY <2>4, <2>5
    <3> QED BY <1>3, <3>1, QuietRequest
  <2>6. CASE ~InModel(i) /\ calls' = [calls EXCEPT ![i] = @ + 1]
    <3>1. inflight[i].pc \in {"created", "decoding", "locking"}
      BY <1>1, <2>6 DEF TypeOK, Execs, ExecPcs, InModel
    <3>2. calls[i] = 0 BY <1>4, <1>6, <3>1 DEF RunInv, RunInvOf
    <3>3. calls'[i] = 1 BY <2>6, <3>2 DEF TypeOK
    <3> QED BY <1>3, <2>4, <3>2, <3>3, EnteredRequest
  <2> QED BY <1>1, <2>5, <2>6
<1> QED BY <1>3, <1>4, <1>5, <1>6

\* The end of an execution: its reply, of the run there was, becomes the answer;
\* a CLOSE ends unseen.
LEMMA EndsRequest ==
  ASSUME TypeOK, TypeOK', SameInv, RunInv, NEW i \in Id, Ends(i), Looks(i), Looks(i)'
  PROVE  RequestStep(i) /\ \A j \in Id \ {i} : Requested(j)' \in {Requested(j), Once!Dropped}
<1>1. PICK kind \in Kinds \ {"none", "reused", "rejected"}, run \in Nat, obs \in Id \cup {NoId} :
        /\ ExecDone(i, kind, run, obs)
        /\ kind = "closing" <=> inflight[i].pc = "created" /\ inflight[i].type = "CLOSE"
        /\ run = IF InModel(i) THEN calls[i] ELSE 0
  BY DEF Ends
<1>2. PICK r \in Response : r = Reply(kind, inflight[i].type, run, obs)
  <2>1. inflight[i].type \in Requests \cup {"none"} BY DEF TypeOK, Execs
  <2> QED BY <2>1, ResponseType DEF Reply
<1>3. r.kind = kind /\ r.run = run BY <1>2 DEF Reply
<1>4. /\ UNCHANGED <<task, calls>> /\ inflight[i].pc \notin {"none", "done"}
      /\ inflight'[i].type = inflight[i].type
      /\ \A j \in Id : j # i => inflight'[j] = inflight[j]
  BY ExecKeepsType DEF Ends
<1>5. \A j \in Id : Told(j)' = Told(j) BY <1>4, ToldKept
<1>6. CASE kind = "closing"
  <2>1. UNCHANGED <<cache, evictions>> BY <1>1, <1>6 DEF ExecDone, cacheVars
  <2>2. ASSUME NEW j \in Id \ {i} PROVE Requested(j)' \in {Requested(j), Once!Dropped}
    BY <1>4, <1>5, <2>1, SpareRequest DEF SameRequest, SameEntry, Cached
  <2>3. ~Busy(i) /\ ~Busy(i)' BY <1>1, <1>4, <1>6 DEF Busy
  <2>4. evictions[i] \in Nat BY DEF TypeOK, CacheOK
  <2>5. CASE evictions[i] > 0
    BY <2>2, <2>1, <2>5, DroppedRequest
  <2>6. CASE evictions[i] = 0
    <3>1. ~Cached(i) /\ ~Cached(i)' BY <1>4, <2>1, <2>6 DEF SameInv, Cached
    <3>2. Requested(i)' = Requested(i) BY <1>4, <2>1, <2>3, <2>6, <3>1 DEF Looks, Begun
    <3> QED BY <2>2, <3>2, QuietRequest
  <2> QED BY <2>2, <2>4, <2>5, <2>6
<1>7. CASE kind # "closing"
  <2>1. CacheResponse(i, r) /\ r.kind # "none" BY <1>1, <1>2, <1>3, <1>7 DEF ExecDone
  <2>2. evictions[i] = 0 => ~Cached(i) BY <1>4 DEF SameInv
  <2>3. \A j \in Id : KeepsEntry(j) BY <2>1, <2>2, CacheKeepsEntry
  <2>4. ASSUME NEW j \in Id \ {i} PROVE Requested(j)' \in {Requested(j), Once!Dropped}
    <3>1. SameEntry(j) BY <2>1, <2>3, CacheSpares
    <3> QED BY <1>4, <1>5, <3>1, SpareRequest DEF SameRequest
  <2>5. RequestStep(i)
    <3>1. evictions'[i] \in Nat /\ evictions[i] \in Nat /\ calls[i] \in Nat BY DEF TypeOK, CacheOK
    <3>2. CASE evictions'[i] > 0 BY <3>2, RequestedDroppedNext DEF RequestStep
    <3>3. CASE evictions'[i] = 0
      <4>1. evictions[i] = 0 BY <2>3, <3>3 DEF KeepsEntry
      <4>2. ~Cached(i) BY <2>2, <4>1
      <4>3. Cached(i)' /\ cache'[i] = r BY <2>1, <3>1, <3>3, <4>1, CacheResponseStep
      <4>4. inflight[i].type # "CLOSE" BY <1>1, <1>4, <1>7 DEF SameInv
      <4>5. Busy(i) BY <1>4, <4>4 DEF Busy
      <4>6. run = calls[i]
        <5>1. CASE InModel(i) BY <1>1, <5>1
        <5>2. CASE ~InModel(i)
          <6>1. inflight[i].pc \in {"created", "decoding", "locking"}
            BY <1>4, <5>2 DEF TypeOK, Execs, ExecPcs, InModel
          <6>2. calls[i] = 0 BY <3>1, <4>1, <6>1 DEF RunInv, RunInvOf
          <6> QED BY <1>1, <5>2, <6>2
        <5> QED BY <5>1, <5>2
      <4>7. PICK a \in Response : a = Final(r) /\ a.run = run
        <5>1. Final(r) \in Response BY FinalFacts
        <5>2. Final(r).run = r.run BY DEF Final, AsError, Response
        <5> QED BY <1>3, <5>1, <5>2
      <4>8. Requested(i) = Once!Req("running", a.run, {}, {}) /\ Told(i) = {}
        BY <4>1, <4>2, <4>5, <4>6, <4>7 DEF Looks, Begun
      <4>9. Requested(i)' = Once!Req("answered", a.run, {a}, {})
        BY <1>4, <1>5, <3>3, <4>3, <4>6, <4>7, <4>8 DEF Looks, Begun
      <4> QED BY <4>8, <4>9 DEF RequestStep
    <3> QED BY <3>1, <3>2, <3>3
  <2> QED BY <2>4, <2>5
<1> QED BY <1>6, <1>7

\* The done callbacks change nothing of what the request looks like.
LEMMA ReapRequest ==
  ASSUME TypeOK, TypeOK', SameInv, TypesInv, NEW i \in Id, Reap(i), Looks(i), Looks(i)'
  PROVE  RequestStep(i) /\ \A j \in Id \ {i} : Requested(j)' \in {Requested(j), Once!Dropped}
<1>1. /\ inflight[i].pc = "done" /\ inflight' = [inflight EXCEPT ![i] = NotRunning]
      /\ task' = [t \in Task |-> IF task[t].pc = "waiting" /\ task[t].id = i
           THEN [task[t] EXCEPT !.pc = "woken", !.resp = inflight[i].resp] ELSE task[t]]
      /\ UNCHANGED <<cache, evictions, calls>>
  BY DEF Reap, cacheVars
<1>2. /\ inflight'[i].pc = "none"
      /\ \A j \in Id : j # i => inflight'[j] = inflight[j]
  BY <1>1 DEF NotRunning, TypeOK
<1>3. ASSUME NEW t \in Task
      PROVE  task'[t] = task[t] \/ (task[t].pc # "done" /\ task'[t].pc # "done")
  <2>1. task[t] \in Tasks BY DEF TypeOK, TaskOK
  <2> QED BY <1>1, <2>1 DEF Tasks
<1>4. \A j \in Id : Told(j)' = Told(j) BY <1>3, ToldKept
<1>5. ASSUME NEW j \in Id \ {i} PROVE Requested(j)' \in {Requested(j), Once!Dropped}
  BY <1>1, <1>2, <1>4, SpareRequest DEF SameRequest, SameEntry, Cached
<1>6. evictions[i] \in Nat BY DEF TypeOK, CacheOK
<1>7. CASE evictions[i] > 0
  BY <1>5, <1>1, <1>7, DroppedRequest
<1>8. CASE evictions[i] = 0 /\ Cached(i)
  <2>1. Cached(i)' BY <1>1, <1>8 DEF Cached
  <2>2. Requested(i)' = Requested(i) BY <1>1, <1>4, <1>8, <2>1 DEF Looks, Begun
  <2> QED BY <1>5, <2>2, QuietRequest
<1>9. CASE evictions[i] = 0 /\ ~Cached(i)
  <2>1. ~Cached(i)' BY <1>1, <1>9 DEF Cached
  <2>2. Stands(cache[i], 0, inflight[i].resp) BY <1>1, <1>9 DEF SameInv
  <2>3. inflight[i].resp = Closing BY <1>9, <2>2 DEF Stands, Cached
  <2>4. inflight[i].type = "CLOSE"
    <3>1. inflight[i].resp.type = inflight[i].type BY <1>1 DEF TypesInv
    <3> QED BY <2>3, <3>1 DEF Closing, Reply
  <2>5. ~Busy(i) /\ ~Busy(i)' BY <1>2, <2>4 DEF Busy
  <2>6. Requested(i)' = Requested(i) BY <1>1, <1>9, <2>1, <2>5 DEF Looks, Begun
  <2> QED BY <1>5, <2>6, QuietRequest
<1> QED BY <1>5, <1>6, <1>7, <1>8, <1>9

\* Connections and stop() touch no request.
LEMMA OthersRequest ==
  ASSUME UNCHANGED <<inflight, calls, cache, evictions>>,
         \A t \in Task : task'[t] = task[t] \/ (task[t].pc # "done" /\ task'[t].pc # "done")
  PROVE  \A i \in Id : Requested(i)' = Requested(i)
<1> SUFFICES ASSUME NEW i \in Id PROVE Requested(i)' = Requested(i)
  OBVIOUS
<1>1. Told(i)' = Told(i) BY ToldKept
<1>2. Progress(i)' = Progress(i) BY DEF Progress, Cached
<1> QED BY <1>1, <1>2 DEF Requested

LEMMA OnceStep ==
  ASSUME TypeOK, TypeOK', LockInv, RunInv, TypesInv, SameInv, \A i \in Id : Looks(i),
         (\A i \in Id : Looks(i))', [Next]_vars
  PROVE  Once!Next \/ UNCHANGED [i \in Id |-> Requested(i)]
<1>1. ASSUME NEW i \in Id, RequestStep(i),
             \A j \in Id \ {i} : Requested(j)' \in {Requested(j), Once!Dropped}
      PROVE  Once!Next
  <2>1. Once!Step(i) BY <1>1, RequestStepIsStep
  <2>2. Once!Spares(i) BY <1>1 DEF Once!Spares
  <2> QED BY <2>1, <2>2 DEF Once!Next
<1>2. ASSUME NEW t \in Task, Respond(t) PROVE Once!Next
  <2>1. PICK i \in Id : i = task[t].id BY <1>2, RespondId
  <2> QED BY <1>1, <1>2, <2>1, RespondRequest
<1>3. ASSUME NEW i \in Id, Exec(i) \/ Model(i) PROVE Once!Next
  <2>1. Proceeds(i) \/ Ends(i) \/ Reap(i) BY <1>3, ExecEffect
  <2>2. Looks(i) /\ Looks(i)' OBVIOUS
  <2> QED BY <1>1, <2>1, <2>2, ProceedsRequest, EndsRequest, ReapRequest
<1>4. ASSUME UNCHANGED <<inflight, calls, cache, evictions>>,
             \A t \in Task : task'[t] = task[t] \/ (task[t].pc # "done" /\ task'[t].pc # "done")
      PROVE  UNCHANGED [i \in Id |-> Requested(i)]
  BY <1>4, OthersRequest
<1>5. ASSUME NEW c \in Conn, Handle(c) \/ Peer(c) PROVE UNCHANGED [i \in Id |-> Requested(i)]
  <2>1. UNCHANGED <<inflight, calls, cache, evictions>>
    BY <1>5 DEF Handle, Peer, LeaveLoop, Drained, DrainTimeout, Accept, Lose, Receive,
                execVars, cacheVars
  <2>2. CASE DrainTimeout(c)
    <3>1. ASSUME NEW t \in Task
          PROVE  task'[t] = task[t] \/ (task[t].pc # "done" /\ task'[t].pc # "done")
      <4>1. task[t] \in Tasks BY DEF TypeOK, TaskOK
      <4> QED BY <2>2, <4>1 DEF DrainTimeout, Pending, Live, Tasks
    <3> QED BY <1>4, <2>1, <3>1
  <2>3. ASSUME NEW t \in Task, NEW i \in Id, NEW type \in Types, Receive(c, t, i, type)
        PROVE  UNCHANGED [k \in Id |-> Requested(k)]
    <3>1. /\ task[t].pc = "idle" /\ task'[t].pc \in {"new", "sending"}
          /\ \A u \in Task : u # t => task'[u] = task[u]
      BY <2>3 DEF Receive, TypeOK, TaskOK
    <3> QED BY <1>4, <2>1, <3>1
  <2>4. CASE UNCHANGED task BY <1>4, <2>1, <2>4
  <2> QED BY <1>5, <2>2, <2>3, <2>4 DEF Handle, Peer, LeaveLoop, Drained, Accept, Lose
<1>6. CASE Stop \/ Closed \/ StopDone \/ UNCHANGED vars
  BY <1>4, <1>6 DEF Stop, Closed, StopDone, vars, execVars, cacheVars
<1> QED BY <1>2, <1>3, <1>5, <1>6 DEF Next

\* The server implements AnsweredOnce: with any number of connections, frames and
\* ids, any cache and any limit, through lost connections, duplicates, failed
\* calls, unencodable results, eviction and stop(), an id is executed inside the
\* model at most once and everybody is told the one answer of that execution,
\* until the cache drops it.
THEOREM AnswersOnceCorrect == Spec => AnswersOnce
<1>1. Init => LockInv /\ RunInv /\ TypesInv /\ SameInv
  BY DEF Init, LockInv, ModelSerial, InModel, NotRunning, NoResponse, RunInv, RunInvOf, TypesInv,
         SameInv, Cached, AnswerOfOwnType, Answered, Idle
<1>2. Init => Once!Init
  <2> SUFFICES ASSUME Init, NEW i \in Id PROVE Requested(i) = Once!New
    BY DEF Once!Init
  <2>1. evictions[i] = 0 /\ calls[i] = 0 /\ ~Cached(i) /\ inflight[i].pc = "none"
    BY DEF Init, Cached, NoResponse, NotRunning
  <2>2. Progress(i) = "new" BY <2>1 DEF Progress
  <2>3. Told(i) = {} BY DEF Init, Told, Idle
  <2> QED BY <2>1, <2>2, <2>3 DEF Requested, Once!New, Once!Req
<1>3. TypeOK /\ TypeOK' /\ LockInv /\ RunInv /\ TypesInv /\ SameInv /\ (\A i \in Id : Looks(i))
      /\ (\A i \in Id : Looks(i))' /\ [Next]_vars
      => [Once!Next]_[i \in Id |-> Requested(i)]
  BY OnceStep
<1> QED BY <1>1, <1>2, <1>3, RequestLooks, LockStep, RunStep, TypesStep, SameStep, TypeCorrect, PTL
    DEF Spec, AnswersOnce, Once!Spec

=============================================================================
