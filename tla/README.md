# A verification project for XPolicyLab

XPolicyLab evaluates robot policies. An environment client (simulator, robot or
debug client) drives a policy that lives in a server process of its own, over a
websocket protocol or a legacy TCP one. The repository's own code is the
client/server transport, the harness that starts both, and utilities for
observations, checkpoints, live frames and resumable jobs. Most of its files are
policies: vendored training and inference code behind one interface. The logic
that is hard to get right, and that every evaluation relies on, is the transport:
model calls are *not idempotent* (`update_obs` and `get_action` advance the
policy's state), connections break, calls time out, and still every call must be
executed once and return its own result. That is what this project models,
checks and proves first.

## 1. Inventory

| component | state | operations | what makes it correct |
|---|---|---|---|
| websocket policy server, `client_server/ws/model_server.py` | handler and respond tasks per connection, `_inflight`, `_response_cache` (LRU, 256), `_model_lock`, the model | accept, read, reject, dispatch (hello, prepare_case, reset, call, infer, trial_end, heartbeat, close), replay, stop | a request id runs once while its answer is kept; everyone gets the same answer; one model method at a time; INFER's two calls are one; bounded tasks; stop and handlers end |
| websocket protocol client, `ws/protocol/client.py` | `_ws`, `_recv_task`, `_pending`, `_closed`, `_server_instance_id` | connect (with attempts and HELLO), request (one retry, same id), receive loop, close | no waiter forgotten, no entry or connection leaked, requests end, close is terminal, a restarted server is refused |
| frames, `ws/protocol/{messages,schemas,codec,exceptions,keepalive}.py` | none | encode, decode, validate | what is sent is what is read |
| `WsModelClient`, `ws/model_client.py` | loop thread, `_step` | call, close, shutdown | step counts inference calls; nothing left running |
| legacy TCP pair, `client_server/tcp/` | socket, thread per connection | connect, call (one retry), serve | a call runs at most twice, its answer is its own, it ends; no thread is kept for a client that left |
| server entry, `setup_policy_server.py`, `model_template.py` | none | build the model, then serve | the port opens after the model is built |
| harness scripts, `policy/*/eval.sh`, `utils/*.sh` | port, pids | pick a port, start, wait, run, clean up | the client meets the server it was started for |
| deployment loop, `policy/demo_policy/deploy.py`, `utils/debug_env_client.py` | episode step, batch of environments, chunk of actions | reset, observe, act, stop | each environment gets its own action at its moment, the policy each observation once; a stop is heeded; the client is closed |
| robot state and images, `utils/process_data.py` | none | pack, unpack, encode, decode | unpack inverts pack; colour order is recognised |
| checkpoint resolver, `utils/checkpoint_resolver.py` | none | candidate directories, resolve | first existing candidate, in the documented order |
| live frames, `utils/live_frames.py` | `seq`, images, index | construct, record, disable | an indexed frame is complete |
| layout-range job, `scripts/run_robodojo_layout_range.sh` | manifest, durable result | select, carry over, run | no scored layout is lost or scored twice, only wanted layouts run |
| dataset conversion scripts, small utilities, policy adapters | files | convert | not modelled: I/O, array reshaping, vendored code |

How they interact: `eval.sh` starts the server process and the client process.
The client's `WsModelClient` runs a `PolicyEvalClient` on a loop thread and calls
it one request at a time; a `KeyboardInterrupt` abandons a request whose
coroutine goes on while `close()` runs. Frames travel over a websocket that may
break at any moment. On the server one event loop runs a handler per connection,
a respond task per frame and one shared execution per request id; image decoding
and model methods run on worker threads. Client and server share nothing but the
frames: the request id that ties a retry to the original, and the instance id
that ties a reconnect to the process. The legacy pair has neither: there only the
connection ties a reply to its call.

Above the client sits the evaluation: the main program resets model and
environments and runs the deployment loop, which calls the model for chunks of
actions of a batch of environments that end at different steps. Around the
evaluation sits the job: a script selects layouts, writes a resume manifest from
the durable result and hands over to the evaluation, which may be killed and
asked for again; its episodes record live frames in a directory per layout that a
console reads at the same time.

What is hard: duplicates arriving while the original runs, just after it
finished, or after its answer was evicted; waiters cancelled under a shared
execution; futures completed by a loop that may itself be cancelled; `close()`
racing a connect; the gap between an event and the resumption of whoever awaits
it; a restarted server; a model call that never returns; a timed-out call that
still runs beside its repetition; a list of environments and a matrix of actions
that must shrink together; a stop or an interrupt in the middle of a chunk; a job
killed between manifest, episode and result. `PROJECT.json` lists
these hazards at their lines, with the properties that cover them.

## 2. Modules

| module | what it is |
|---|---|
| `PolicyServer`, `PolicyServerProofs` | the websocket server, and theorems about it |
| `PolicyClient`, `PolicyClientProofs` | the websocket protocol client against an arbitrary server and network, and theorems |
| `AnsweredOnce` | the abstract specification of the server: what a client may rely on for a request id |
| `PolicySession`, `PolicySessionProofs` | the client, a lossy network and a server process that may be restarted, and theorems |
| `AtMostOnce` | the abstract specification of a session: what an evaluation may rely on |
| `TcpPair`, `TcpPairProofs` | the legacy client and the server it talks to, and theorems about them |
| `Evaluation`, `EvaluationProofs` | the main program, the deployment loop and `WsModelClient`, and theorems |
| `LayoutJob` | the jobs of one run id (its theorems are in `LayoutSweepProofs`) |
| `LiveFrames`, `LiveFramesProofs` | the live frame recorder and its directories, and theorems |
| `LayoutSweep`, `LayoutSweepProofs` | jobs whose episodes record live frames: the composition of the two, shown to implement both, and theorems about jobs and sweeps |
| `Ordering`, `OrderingProofs` | going through a finite set in order, and its lemmas |
| `MC...` | model values, symmetry and bounds for TLC |

Both websocket sides are asyncio programs, so an action is the code between two awaits;
two actions of different coroutines may come in any order, which is what the
event loop allows. Worker threads only run decoding and model methods, and these
are the gaps between two actions.

### PolicyServer

* `handler[c]`: `_handle_connection` of connection `c`. `reading` is the read
  loop; `inline` means that it awaits a reply itself (a rejected frame, or
  backpressure at `_MAX_INFLIGHT_RESPONSES`); `draining` is its finally block.
* `task[t]`: a call of `respond`. `new` before `process_frame`, `waiting` behind
  the shield, `woken` when the shield completed, `sending`, `closing` (a CLOSE).
  The task's steps `Replay`, `Join` and `Execute` are the branches of
  `process_frame` and `_execute_once`.
* `inflight[i]`: the execution of id `i`, from `create_task` (`created`) over
  `decoding`, `locking` and the model (`observe` and `act`: an INFER has two
  steps, everything else one) to `done`; `Reap` is its done callbacks. Between
  `done` and `Reap` the entry is still in `_inflight`, as in the code.
* `lock`, `lockQ`: `_model_lock` with its queue. `cache`, `lru`: the ordered
  `_response_cache`. `seen`: the id whose observation the model holds, which is
  all the properties need of the model.
* `phase`: `stop()`. `calls`, `evictions` and `since` (the ids cached or replayed
  since an id last was) are history variables that only properties read.

Frames come from an environment that may send anything: the same id again, on
another connection, with another type, or a malformed envelope. `Respond(t)` and
`Exec(i)` group the steps of one task and one execution, so that fairness is
stated per task as the event loop gives it.

### PolicyClient

* `call[k]`: the coroutine of `request()` for logical call `k`, whose name is its
  request id. `dial`, `helloSend` and `helloWait` are inside `connect()`, with
  its attempt in `tries`; `tearRedial`, `tearRetry` and `tearRaise` await
  `_reset_connection_state` before the next attempt, the retry, or the raise;
  `send` and `wait` are the request itself. `entry` tells the `connect()` at the
  entry of `request()` from the one before a retry: they differ in whether
  `request()` looks at `_ws` again.
* `fut`, `pending`: the futures and `_pending`. A completed future and its waiter
  resuming are two steps, so a connection may break in between.
* `recv[c]`: the receive loop of connection `c`; `ws`, `recvTask`, `closed`,
  `pinned` are the fields of the same meaning.
* `net`, `home`, `up`, `down`: the connection, the server process it reached and
  the frames in flight. A HELLO's request id is the name of its connection.

### AnsweredOnce, PolicySession and AtMostOnce

`AnsweredOnce` is what `PolicyServer` promises, without connections, tasks, lock
and cache: an id is new, running, answered or dropped; it enters the model at
most once; its answer carries the number of that run, or 0 if it was found without
the model; what is told is that answer, and nothing is told before. `AnswersOnce`
states it under the refinement mapping `Requested`, which reads the state of an id
off its cache entry, its execution and its finished tasks. The loss of the entry
ends the promise (`Dropped`), a CLOSE never starts one, and the answer is the one
that is encoded, also while the cache still holds one that cannot be. A step of
the server may, besides the step of one id, drop another one (`Spares`).

`PolicySession` adds to the client's variables what the running server process
knows: `taken` (the frames it has read of each connection), `exec` (its last
execution of each request) and `newer` (how many entries of the response cache
are newer than a request's, `CacheSize` when it has none), and the histories `runs`
and `hosts`. Its server takes the steps of `AnsweredOnce`: `Run` is `Start` and
`EnterModel`, `RunEnds` is `End`, `AnswerRequest` is `Tell`. `Overtaken` is the
cache: every answer, that of a HELLO too (`TakeHello`), becomes the newest entry
and drops the oldest of a full cache, and `Replay` moves an entry to the front. A
request whose entry is gone runs again (`Run` has `~Kept(k)`, not "never ran").
A restart forgets everything. Requests and HELLOs of a connection that broke may
still be read, or vanish (`Vanish`).

`RetriesAreSafe` states that the session implements `AtMostOnce` under the
refinement mapping `Outcome` and `Evicted`. `AtMostOnce` permits two things: a call
that failed (timed out) may still be executed afterwards, which is documented,
and a call whose answer the running process has evicted may be executed again.
`RunsOnce` is the stronger claim of the comment in `request()`, that a retry never
runs twice. It depends on how many attempts come between a request and its retry
and how large the cache is: section 4 has the bound under which it is a theorem,
section 6 says what happens beyond it. `CalmSpec` is a session whose
caller lets the server finish what a failed call left behind before it calls
again: without that, a leftover duplicate may be read at any later time, when
later calls have long evicted its answer.

### TcpPair

The caller's thread is `pc`; `cur` is the connection behind `self.sock`, with 0
for `None`. `Broken` is what every exception inside `_send_recv` leads to: the
socket is closed, then one reconnect, then the call raises; after that, or after
`close()`, the next call starts on a `None` socket, whose `AttributeError` spends
its first attempt (`NoSocket`). On the server `th[k]` is the thread of connection
`k` and `stage` the accept loop, which may end while the port stays bound
(`deaf`). A connection carries one request (`req`) and one reply (`rep`), tagged
with the call they belong to, which the code cannot see: `OwnAnswer` shows that
it need not. A short read of the length header is modelled by its effects: on the
server the body does not decode (`Raise`); on the client it does not decode
(`Lose`) or decodes to a bare number (`ReceiveNumber`), after which the bytes
that follow are out of step (`skew`).

### Evaluation

`pc` follows the main thread through `main()`, `TestEnv.reset()`,
`eval_one_episode_batch` and the shutdown. A call of the model is one step that
returns or raises (`CallRaises`); what is below it is `PolicyClient`. A call that
raises or is interrupted may have reached the policy or not (`Unreturned`): an
inference that was run then counts in `inferred` and not in the client's `step`.
A chunk may be empty, and then the loop observes again without an action
(`empties` counts them). `rows` holds
for each position of the action list which environment and which observation its
chunk was made from, `seen` and `latest` what the policy has been given. `Narrow`
is the reduction of the list of environments and of the actions to those still
running. `Interrupt`, `OrphanEnds`, `Drain` and `Join` are a `KeyboardInterrupt`
inside a call and `_shutdown_loop`.

### LayoutJob, LiveFrames, LayoutSweep

`LayoutJob`: `record` are the details of `_result.json` in the evaluation's
directory, numbered in recorded order; `manifest` what the script writes for the
evaluation to resume from; `memory` what the evaluation holds. `Carry` is the
filter and renumbering of the embedded Python program, stated by its result (the
increasing enumeration of what is kept, `Ordering`). `agree` says whether the script
and the evaluation derive the same directory from the environment variables
(`JobDir`, `EvalDir`, taken from both scripts). If they do not, the script finds no
record and the evaluation no manifest (`ReadRecord`, `LoadManifest`), and the
evaluation still rewrites its record from what it holds (`EndEpisode`). `EndJob`
ends or kills a job anywhere. The evaluation (`LoadManifest`, `StartEpisode`,
`EndEpisode`) is RoboDojo, outside the repository, modelled from what the script's
comments and its use of the files say.

`LiveFrames`: `rec` is the recorder, with `pc` inside `record()`; `image` says
who wrote a file last and whether it is closed; `index` are the lines.
`LayoutSweep` runs a recorder per episode in the directory of its layout.
`SweepIsJobs` and `SweepIsFrames` state that the composition implements each
part.

## 3. Runs

| run | instance | shows |
|---|---|---|
| `server_replay` | 2 connections, 3 frames, 1 id, cache of 1, limit 1; CALL, HELLO, CLOSE, malformed; symmetry | `AnswersOnce`, `SameAnswer`, `AnswerOfOwnType`, `PendingBounded` with losses, reuse of ids, backpressure and stop() |
| `server_cache` | 1 connection that stays, 4 INFER frames, 3 ids, cache of 2; symmetry | `TypeOK`, `ModelSerial`, `InferSeesOwnObservation`, `KeepsRecent`, `OneRunPerCacheEntry` with replay, eviction and repeated execution |
| `server_liveness` | 1 connection, 2 frames, 2 ids, limit 2; INFER and CLOSE | `FrameSettles`, `ExecutionEnds`, `StopReturns`, `HandlerReturns`, with a model that may hang and a CLOSE while another frame executes |
| `server_backpressure` | 1 connection, 2 CALL frames, limit 1 | `StopReturns` fails: see section 6 |
| `client_liveness` | 1 call, 2 connections at a time, 2 attempts, 1 restart, any network and server | `CallSettles`, `CloseReturns` |
| `session_retries` | 2 calls of a calm caller, 2 connections at a time, 1 attempt, cache of 2, 1 restart; symmetry | `RetriesAreSafe` with answers that are evicted, `OneProcess`, and of the client `TypeOK`, `WaiterServed`, `PendingOwned`, `NoConnectionLeaks`, `OneReader` |
| `session_steady` | 2 calls, 2 attempts, cache of 7, a server that answers | `SurvivesDrop`, `RunsOnce` |
| `tcp_pair` | 2 calls, 2 attempts to connect | `TypeOK`, `AtMostTwice`, `OwnAnswer`, `CallEnds`, `ThreadsEnd` with timeouts, resets, short headers, model errors, a deaf or stopped server |
| `debug_evaluation` | 3 environments, 2 episodes, 4 steps, chunks of 0 to 3 actions | `TypeOK`, `ActionsInPlace`, `EveryStepObserved`, `FramesCarryStep`, `StopsSoon`, `EndsClosed` with failing calls, an interrupt and a stop anywhere |
| `layout_sweep` | 2 layouts, 2 jobs, 2 cameras, 1 frame; symmetry | `TypeOK`, `OncePerLayout`, `OnlyWanted`, `KeepsResults`, `FirstRecorderWhole` with a job killed at any step and any environment variables |
| `layout_defaults` | 2 layouts, 2 jobs, no frames | `SelectingNeverErases` fails: see section 6 |
| `live_frames` | 1 layout, 2 jobs, 1 camera, 1 frame | `IndexedNeverHalf` fails: see section 6 |

Bounds. Three frames of one id on two connections give an original, a duplicate
that joins it and a duplicate that replays, in every order and on either
connection; a second id adds competition for the lock, a third one eviction from
a cache of two. A frame is read at most once per name in `Task`, so `Task`
bounds the length of a behaviour. Connections of the client are used again once
they are over, so the number of reconnects is not bounded, only the number that
exist at a time; two are the old one being torn down and the new one. Two
attempts distinguish the first, a further and the last; in `session_retries`,
where two calls follow each other, an attempt is the first and the last. Its
cache of two entries is full after the HELLOs of the two connects between a
request and its retry, so that answers are evicted and calls run again; the
seven of `session_steady` are more than three connects of two attempts can fill,
the other side of the bound in section 4. The safety of the client is checked in
`session_retries` because its two calls, the first of which may be abandoned or
time out, make the interesting cases there; a calm caller (section 2) keeps the
run small. The client's theorems and
`RetriesAreSafeCorrect` need neither.
`MaxRestarts` bounds the server's restarts; one is enough to have two processes.
`StaysConnected` bounds `server_cache` to a server that is up and a connection
that is not lost, which the other runs cover. Deadlock checking is off because
all of these systems stop: the server after `stop()`, the client after
`close()`, a bounded environment when it has no more frames.

Two calls on the TCP pair give a late reply a later call to be confused with,
and three connections: the constructor's and one per retry, which is all there
can be. Three environments and chunks of three let the first, the middle and the
last end at different actions of one chunk; a step limit of four lets the limit
fall inside the second chunk, and `MaxEmpty` lets one chunk of an episode be
empty (with no bound a policy that never acts would keep the loop going forever,
which is what the code does too). Two jobs over two layouts let one layout be
carried while the other runs, or be asked for again; two cameras distinguish the
last image of a frame from the others, and one frame suffices because a recorder
that starts again starts with the frame an earlier one has written. A frame that
is no request ("OTHER") takes the path of a call without a method, and no run
sends one.

Fairness. The event loop runs whatever is ready, so every task, execution,
handler and receive loop is weakly fair, and timeouts expire. On the server
nothing makes a model method return: `FrameSettles` and `ExecutionEnds` have
`ModelReturns` as a premise, and `StopReturns` and `HandlerReturns` hold without.
Nothing is assumed of the peer, except that `stop()` closes its connections
(`Lose` is fair once `phase = "closing"`: the websockets library closes every
connection, and its own close and keepalive timeouts end the handshake). On the
client nothing is assumed of network, server or caller. Two waits of the code
have no timeout of their own: `send()` is taken to end, which the websockets
keepalive provides unless it is disabled with `ws_ping_interval_s: null`.
In `tcp_pair` sockets time out (`settimeout`), an attempt to connect ends, threads
are scheduled and model methods end; without the last, a server thread stays
with its call and only `CallEnds` would remain. In `debug_evaluation` the main
thread goes on: its calls end, which `client_liveness` shows.
`session_steady` assumes in addition a server that answers, which is what its
property is about; its specification still lets connections break at any
moment at which none is being recovered from.

## 4. Proofs

`PolicyServerProofs` proves, for any sets of connections, tasks and ids, any
cache size and any limit:

* `TypeCorrect`: `Spec => []TypeOK`.
* `ModelSerialCorrect`: `Spec => []ModelSerial`. The strengthening `LockInv` adds
  that whoever waits in `lockQ` is at `locking` and appears there once, so that
  `Grant` cannot hand the lock to an execution that has left.
* `OneRunCorrect`: `Spec => []OneRunPerCacheEntry`, the exactly-once claim in the
  comment at `_response_cache`. The invariant is not inductive by itself. It
  needs that an execution which has not entered the model has neither a cached
  answer nor an earlier run that is not accounted for by an eviction (`RunInv`),
  and `LockInv` to know that only such an execution enters.
* `InferSeesOwnCorrect`: between the two halves of an INFER the model holds that
  request's observation, because nobody else is inside (`ObsInv` on `LockInv`);
  from there it goes into the reply, the cache and every waiter's answer.
* `AnswerOfOwnTypeCorrect`: a waiter has the type of the execution it waits for,
  and an execution's reply has the execution's type, also after the repair of an
  unencodable one (`TypesInv`).
* `SameAnswerCorrect`: as long as nothing was dropped for an id, whatever was
  answered for it, and whatever a finished execution or a woken waiter still
  holds, agrees with the cache entry (`Stands`), up to the repair of an
  unencodable reply (`Final`); an execution that has not ended finds no entry, so
  its answer is the first one (`SameInv`). A CLOSE has no entry and one answer.
* `KeepsRecentCorrect`: the replay cache is least recently used. `RecentInv` says
  that the order lists the cached ids, each once and at most `CacheSize`
  (`CacheWellFormed`), that what was used since a cached id was is what stands
  after it in the order (`Recent`), and that an id that was dropped has at least
  `CacheSize` later ones (`Dropped`). `NewestOrder` says what `move_to_end` does to
  the order, and `CacheResponseOrder` that the oldest entry is never the one just
  cached, which needs a cache of at least one entry.
* `PendingBoundedCorrect`: a handler that awaits a task reads no frame, so it
  awaits one at a time (`AwaitedOnce`), and only a frame below the limit joins the
  set of respond tasks (`WithinLimit`).

* `AnswersOnceCorrect`: `Spec => AnswersOnce`, the refinement of `AnsweredOnce`,
  step by step: a respond task starts an id (`ExecuteRequest`), tells its answer
  (`SentRequest`) or changes nothing of it (`RespondRequest`); an execution enters
  the model (`ProceedsRequest`), ends (`EndsRequest`) or is reaped unseen
  (`ReapRequest`); every other id is unchanged or dropped (`SpareRequest`,
  `CacheSpares`). It needs all of the invariants above: `RunInv` for the one run,
  `SameInv` for what was told being what the cache holds (`RequestLooks`), and
  `TypesInv` to recognise a CLOSE whose execution has ended.

The last six rest on `ExecEffect`, which says of every step of an execution that
it proceeds, ends with a reply of its own, or is its done callbacks, and on
`RespondCache`, which says what a respond task may write to the cache.

`PolicyClientProofs` proves, for any calls, connections, attempts and restarts,
`TypeOK` and the four safety invariants of the client, against any server. None
of them is inductive alone; `IInv` is. It says that one request is under way at
a time (`Alone`), so that `_pending` holds at most what that request registered;
that `_ws` is empty while a connection is made or torn down (`Placed`); that a
future is `waiting` only while it is in `_pending` (`Futures`) and belongs to
the current connection (`Current`), whose loop is the only one that runs
(`Reading`); that after `_closed` the only connection left is the one to say
goodbye on (`Farewell`); and that an open connection is the current one or has
an owner that will close it (`OpenOwned`). Every way in which a request gives up
its connection goes through one lemma, `Quieted`.

`PolicySessionProofs` proves, for any calls, connections, attempts, restarts and
sizes of the cache, `OneProcess` and `RetriesAreSafe`, the refinement of
`AtMostOnce`, and under a bound `RunsOnce`, with these steps:

* `ClientPins`: of every behaviour of the client, `[]PinInv`. A coroutine that uses
  a connection uses the current one (`Using`); outside a HELLO the current
  connection leads to the pinned process (`Greeted`, `Sending`); so a request only
  ever travels to that process and only after it was asked for (`Carried`); and
  no process is met before it was started (`Homes`).
* `SessionIsClients`: a session is a behaviour of the client, so `PinInv` and the
  invariants of the client hold in it.
* `SessionInvariant`: what the running process knows it ran, and a call that ran
  and that it does not know of ran in the pinned process, which is an older one
  (`Executed`); a reply on its way, or in a future, is that of an execution
  (`Computed`); and only the pinned process executed anything (`Hosted`). A call
  cannot run again after a restart, because it travels only to the pinned process
  (`Carried`), which is then no longer the running one; within a process it runs
  again only if its entry is gone, which is what `Evicted` tells `AtMostOnce`.
* `RetriesAreSafeCorrect`: under the mapping `Outcome`, asking, running, evicting,
  returning and failing are steps of `AtMostOnce` and all others stutter. `Alone`
  gives that nothing else is asked, `Executed` that a call runs again only after
  it was evicted, `Computed` that what returns was run.
* `RunsOnceCorrect`: if `3 * MaxAttempts < CacheSize`, then `CalmSpec => []RunsOnce`.
  `CalmInv` counts: only one call can still be executed or asked for again
  (`Lonely`), and for it the entries newer than its answer, together with the HELLOs
  the process has yet to read, are at most the HELLOs its coroutine has sent
  (`Few`), which `Hellos` reads off its state: `connect()` runs at the entry of
  `request()`, before the retry, and at the entry of that, with `MaxAttempts` attempts
  each. `CoroutineGrows` says that a step of a coroutine does not lower this
  number and that sending a HELLO raises it. With the defaults (180 attempts, 256
  entries) the premise is false; 85 attempts satisfy it.

`TcpPairProofs` proves, for any number of calls and attempts, `TypeOK`,
`AtMostTwice` and `OwnAnswer`. The invariant `TcpInv` says where the one exchange
is: between two calls the client's connection is quiet, during a call it carries
that call's request or that call's reply and never both (`OneExchange`); a busy
thread has its request (`HeldOK`); what the model ran was sent (`Sent`,
`Honest`), and a call has been sent at most once until it is retried (`Twice`).
Without `OneExchange` neither property is inductive: a request left on the
current connection would be answered into the next call.

`EvaluationProofs` proves, for any number of environments, episodes, steps and
actions, the five invariants of `debug_evaluation`. `EvalInv` ties the list of
environments to those that run and the position to the chunk (`Loop`), the
observations given to the steps taken and the chunks left empty (`Fed`), the rows to
the environments (`Aligned`), and the client's index to the policy's inferences
until a call fails (`Counted`); `NarrowFacts` is what the reduction of a batch
preserves, `UnreturnedFacts` what a failed call leaves behind.

`LayoutSweepProofs` proves first of `LayoutJob` `OncePerLayout`, `OnlyWanted`
and the action property `KeepsResults`, for any finite set of layouts and any
number of jobs; the last two have as a premise that both scripts mean one
directory, without which they are false. `JobInv` says that at every point
between the manifest and the last episode what the job holds is well numbered,
contains every recorded entry that was not asked for (`Carries`, if the
directories agree), and no layout that it may still run (`Holds`).
`LiveFramesProofs` proves `FirstRecorderWhole` for any directories, cameras and
frames: in a directory with one recorder no line of the index is about the frame
under way (`Behind`), so truncating a file cannot spoil a line.
`LayoutSweepProofs` then shows that `LayoutSweep` implements `LayoutJob` and,
with the directories of the layouts, `LiveFrames`, and carries their theorems
over; `SweepTypeCorrect` is the type invariant of the composition.

Assumptions: only the named ASSUMEs on the constants (message types, bounds that
are natural numbers, a cache of at least one entry, finite sets, null values
distinct from the rest); `FramesAssumption` is a premise instead, since
`LiveFrames` is instantiated, and `LayoutSweepProofs` discharges it, and
`3 * MaxAttempts < CacheSize` is the premise of `RunsOnceCorrect`. The proofs
go action by action; what several actions share is a lemma on the operator.

Every invariant, action property and refinement that a passing run checks is
proved. Left to TLC are the liveness properties, which need fairness and `ENABLED`:
`FrameSettles`, `ExecutionEnds`, `StopReturns`, `HandlerReturns`, `CallSettles`,
`CloseReturns`, `SurvivesDrop`, `CallEnds`, `ThreadsEnd` and `EndsClosed`.

## 5. What the models leave out

* Payloads: what a method computes is the id it was computed for (`obs`) and a
  number per execution (`run`), enough to tell two executions and two
  observations apart. Decoding is an await that may fail.
* `websocket.send` and the per-connection `send_lock`: a send is one step.
  Frames that are not binary, or malformed without a message id, have no effect.
* The optional hooks and models with only `infer()` take the same paths as their
  counterparts: a missing method is answered like an invalid payload.
* In the client, an answer of the wrong type is an `error` answer. Two
  outstanding requests are excluded, as the code's documentation does. The
  server sends an instance id, as this repository's does: with one that sends
  none the client goes on unpinned (`client.py:349-352`), and `OneProcess` would
  not hold. The `CancelledError` branch of `request()` (`client.py:531-536`) is
  left out: a `KeyboardInterrupt` does not cancel the coroutine, which goes on
  beside `close()` (`Abandon`), and the one place that cancels it, `_drain`,
  comes after `close()` and is part of `Evaluation` (`Drain`).
* In the session one client uses the server, so nobody else's requests evict its
  answers. The client sends HELLOs, requests and a CLOSE, which has no cache
  entry; it sends no HEARTBEAT.
* In the TCP pair, JSON and payloads; a reply that does not decode is a lost
  one. A connection ends at both ends: one whose client is gone without a FIN or
  RST ever arriving would keep its thread, since the accepted socket has no
  timeout, and `ThreadsEnd` says nothing about it.
* In the evaluation, the contents of observations and actions, `prepare_case`
  and `trial_end` (the deployment loop does not call them), an interrupt inside
  the constructor and a second one inside `close()`. A request cancelled by
  `_drain` is taken to end within its 5 seconds, because after `close()` it has
  nothing long to wait for; that `EndsClosed` finds nothing left on the loop
  rests on it.
* In the layout job, one job of a run at a time: the script takes no lock, and
  two jobs of one run at the same time would overwrite each other's manifest. A
  record becomes unreadable only between two jobs. In live frames, a line is
  appended in one step (a single short `write` in append mode).
* The websockets library and the server process are external; `Lose` and
  `Restart` are what the code can observe of them.

## 6. Findings

`server_backpressure`: the comment at `model_server.py:41-42` promises that a hung
model "must not be able to block stop() (or a disconnecting client's connection
handler) forever". At the limit of pending responses the handler awaits the next
answer inline (`model_server.py:208-212`), where no timeout applies; if that call
hangs, the handler never ends, and `stop()` waits for it in `wait_closed()`.

`live_frames`: the docstring at `live_frames.py:55-58` promises that "a reader that
trusts the index never sees a half-written JPEG". A recorder starts at `seq` 0
(`live_frames.py:72`) whatever its directory holds, the directory is one per run
and layout, and a run may be asked for a layout again
(`run_robodojo_layout_range.sh:20-23`): the second recorder truncates images that
the first one's index lines name. For the first recorder of a directory the
promise is a theorem (`FirstRecorderCorrect`).

`layout_defaults`: the comment at `run_robodojo_layout_range.sh:20-23` promises that
"whatever the run has already recorded goes into the manifest as completed, so
selecting layouts cannot erase results". The script looks for the record in a
directory derived from `ENV_CFG` and `ROBODOJO_ACTION_TYPE`, `ACTION_TYPE` or `joint`
(lines 55-56, 76-77), the evaluation uses `ROBODOJO_ENV_CFG` and
`ROBODOJO_ACTION_TYPE` or a default per policy that is `ee` for most of them
(`run_robodojo_sim_eval.sh:42-57`, `75-76`). With none of them set nothing is carried
over, the evaluation starts from the first layout with a blank memory, and its
first episode replaces what the run has scored: the loss that the comment at lines
11-18 describes. With one directory the promise is a theorem (`KeepsResultsCorrect`).

Observations that no run is about:

* The comment at `client.py:474-477` says that "a retried request that already
  executed is answered from the cache instead of running twice". Every attempt of
  `connect()` that reaches the server leaves a HELLO entry in that cache
  (`model_server.py:352-353`, `402-412`), also if its answer is lost. Between a
  request and its retry lies the `connect()` at `client.py:507` or `545`, and, if the
  connection is gone again when the recursive `request()` looks at `_ws`, a second
  one (`client.py:457-472`). By default that is up to 2 * 180 attempts against 256
  entries (`model_server.py:277`), so that the answer can be evicted and the
  request executed twice. It takes an outage in which connections are made, read
  and lost again for more than 15 minutes. The model has this behaviour:
  `session_retries` reaches it with two entries, where `RunsOnce` would fail, and
  `RunsOnceCorrect` has the bound under which it cannot happen.

* `utils/process_data.py:90` names a single arm's joints `joint_state`, in packing
  and in unpacking, while the repository's README (line 380), the demo policy and
  the debug client name them `arm_joint_state`: the debug client's observation of
  a single-arm robot cannot be packed with action type `joint`, and an unpacked
  action is refused by `validate_robot_state_dict` (`debug_env_client.py:281-285`).

## 7. Not modelled

* The harness scripts (`eval.sh`, `utils/*.sh`): sequential scripts whose one
  hazard, the port that is free when it is picked and not when it is bound, is an
  interaction with unrelated processes.
* `utils/process_data.py` and `utils/checkpoint_resolver.py`: pure functions on
  arrays, bytes and paths, without state or order; what could go wrong in them
  shows on a single call.
* Dataset conversion, small utilities: file conversion and thin wrappers.
* `policy/`: more than nine tenths of the repository's lines are vendored training
  and inference code of some eighty policies, behind the interface of
  `model_template.py`. The share of all lines that the models map is small for
  that reason; of `client_server/`, the deployment loop, the recorder and the job
  script, nearly every line is mapped.

## 8. Plan

Next: the refinement of `AnsweredOnce` by the server's part of `PolicySession`, so
that the eviction of `Overtaken` is tied to `KeepsRecent` by a proof and not only by
reading; two clients on one server, whose requests evict each other's answers.

Run `tlc -workers 2 -config <cfg> <module>.tla` with the configuration and the
module that `PROJECT.json` gives for a run, and `tlapm <module>.tla` for the
proofs.
