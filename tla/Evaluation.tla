------------------------------ MODULE Evaluation ------------------------------
(***************************************************************************)
(* The environment's side of an evaluation: the main program of             *)
(* utils/debug_env_client.py, the loops of policy/demo_policy/deploy.py it   *)
(* runs, and the WsModelClient they call (client_server/ws/model_client.py). *)
(*                                                                         *)
(* The batch loop is modelled; the single-environment loop is the same with *)
(* one environment.  A call to the model either returns or raises; what is  *)
(* below it is PolicyClient.  The environments are external: which of them   *)
(* still run after a step is theirs to decide (in TestEnv, all of them).     *)
(***************************************************************************)
EXTENDS Ordering

CONSTANTS NumEnvs,     \* Batch_Size
          Episodes,    \* --eval_episode_num
          StepLimit,   \* episode_step_limit
          MaxChunk,    \* actions of a chunk (bound)
          MaxEmpty     \* chunks without an action, since the reset (bound)

ASSUME EvaluationAssumption ==
  /\ NumEnvs \in Nat /\ Episodes \in Nat /\ MaxEmpty \in Nat
  /\ StepLimit \in Nat \ {0} /\ MaxChunk \in Nat \ {0}

Envs == 1..NumEnvs

VARIABLES
  pc,       \* the main thread
  episode,  \* idx of the main loop
  running,  \* the environments that still run
  steps,    \* episode_step
  time,     \* the actions each environment has executed in this episode
  batch,    \* env_idx_list
  rows,     \* actions: for each position, the observation its chunk was made from
  idx,      \* action_idx
  size,     \* chunk_size
  stop,     \* what _stop_check returns
  seen,     \* the policy: how many observations it had of each environment, and
  latest,   \*   which was the last
  step,     \* WsModelClient._step
  sent,     \* history: the step of the last request, the inferences when it was made
  inferred, \* history: inferences the policy has run since its last reset
  empties,  \* history: those of them that gave no action
  late,     \* history: actions taken since _stop_check returned True
  loop,     \* the client's event loop and its thread
  orphan    \* a request was abandoned by an interrupt and is still on the loop

envVars == <<running, steps, time>>
deployVars == <<batch, rows, idx, size>>
modelVars == <<seen, latest, inferred, empties>>
clientVars == <<step, sent>>
loopVars == <<loop, orphan>>
vars == <<pc, episode, envVars, deployVars, stop, modelVars, clientVars, late, loopVars>>

Calls == {"envReset", "reset", "observe", "infer", "again"}
Observations == [env : Envs, time : 0..StepLimit]

TypeOK ==
  /\ pc \in Calls \cup {"connect", "check", "act", "next", "close", "drain", "join", "exited"}
  /\ episode \in 0..Episodes
  /\ running \in SUBSET Envs /\ steps \in 0..StepLimit
  /\ time \in [Envs -> 0..StepLimit] /\ seen \in [Envs -> Nat]
  /\ \E n \in 0..NumEnvs : batch \in [1..n -> Envs] /\ rows \in [1..n -> Observations]
  /\ idx \in 0..MaxChunk /\ size \in 0..MaxChunk
  /\ latest \in [Envs -> 0..StepLimit]
  /\ step \in Nat /\ inferred \in Nat /\ late \in Nat /\ empties \in 0..MaxEmpty
  /\ sent \in [step : Nat, inferred : Nat]
  /\ stop \in BOOLEAN /\ orphan \in BOOLEAN
  /\ loop \in {"running", "closed", "left"}

Empty == [i \in {} |-> 0]

Init ==
  /\ pc = "connect" /\ episode = 0
  /\ running = {} /\ steps = 0 /\ time = [e \in Envs |-> 0]
  /\ batch = Empty /\ rows = Empty /\ idx = 0 /\ size = 0
  /\ stop = FALSE /\ late = 0
  /\ seen = [e \in Envs |-> 0] /\ latest = [e \in Envs |-> 0]
  /\ inferred = 0 /\ empties = 0
  /\ step = 0 /\ sent = [step |-> 0, inferred |-> 0]
  /\ loop = "running" /\ orphan = FALSE

-----------------------------------------------------------------------------
(* WsModelClient.                                                            *)

\* The loop thread is started, then the client connects on it; a failure shuts
\* the loop down before it is raised.
Connect ==
  /\ pc = "connect" /\ pc' \in {"next", "drain"}
  /\ UNCHANGED <<episode, envVars, deployVars, stop, modelVars, clientVars, late, loopVars>>

\* call("reset"): the index starts over before the request is sent.
ResetModel ==
  /\ step' = 0
  /\ seen' = [e \in Envs |-> 0] /\ latest' = [e \in Envs |-> 0]
  /\ inferred' = 0 /\ empties' = 0
  /\ UNCHANGED sent

\* Any other call is sent with the index.
SendStep == sent' = [step |-> step, inferred |-> inferred]

\* call("get_action_batch"): the index counts the calls that returned.
Infer ==
  /\ step' = step + 1 /\ inferred' = inferred + 1
  /\ SendStep
  /\ UNCHANGED <<seen, latest>>

\* call("update_obs_batch", obs=get_obs_batch(...)).
Update(envs) ==
  /\ seen' = [e \in Envs |-> IF e \in envs THEN seen[e] + 1 ELSE seen[e]]
  /\ latest' = [e \in Envs |-> IF e \in envs THEN time[e] ELSE latest[e]]
  /\ SendStep
  /\ UNCHANGED <<step, inferred, empties>>

Members(b) == {b[i] : i \in DOMAIN b}

\* A call that does not return: the request was never made, or it was and the
\* policy has or has not run it.  Only the index of a reset changes before the
\* answer.
Unreturned ==
  \/ UNCHANGED <<modelVars, clientVars>>
  \/ pc \in {"envReset", "reset"} /\ ResetModel
  \/ pc \in {"envReset", "reset"} /\ step' = 0 /\ UNCHANGED <<modelVars, sent>>
  \/ pc \in {"observe", "again"} /\ Update(Members(batch))
  \/ pc \in {"observe", "again", "infer"} /\ SendStep /\ UNCHANGED <<modelVars, step>>
  \/ /\ pc = "infer" /\ SendStep /\ inferred' = inferred + 1
     /\ UNCHANGED <<seen, latest, empties, step>>

\* (mutant: the episode goes on after a call that failed)
CallIgnored ==
  /\ pc \in Calls /\ pc' = "check"
  /\ Unreturned
  /\ UNCHANGED <<episode, envVars, deployVars, stop, late, loopVars>>

\* A call raises, and the main program goes to its finally.
CallRaises ==
  /\ pc \in Calls /\ pc' = "close"
  /\ Unreturned
  /\ UNCHANGED <<episode, envVars, deployVars, stop, late, loopVars>>

\* A KeyboardInterrupt ends the main loop wherever it is; a request the main
\* thread was waiting for stays on the loop.
Interrupt ==
  /\ pc \in Calls \cup {"check", "act", "next"} /\ pc' = "close"
  /\ \E left \in BOOLEAN : orphan' = (left /\ pc \in Calls)
  /\ Unreturned
  /\ UNCHANGED <<episode, envVars, deployVars, stop, late, loop>>

\* The abandoned request ends on its own.
OrphanEnds ==
  /\ orphan /\ loop = "running" /\ orphan' = FALSE
  /\ UNCHANGED <<pc, episode, envVars, deployVars, stop, modelVars, clientVars, late, loop>>

\* close(): PolicyEvalClient.close() returns or raises, then _shutdown_loop.
Close ==
  /\ pc = "close" /\ pc' = "drain"
  /\ UNCHANGED <<episode, envVars, deployVars, stop, modelVars, clientVars, late, loopVars>>

\* _drain() cancels what is left on the loop and waits for it, for 5 s at most:
\* a cancelled request is assumed to end within that, since after close() it has
\* nothing long to wait for.
\* (mutant: the loop is stopped without)
DrainSkipped ==
  /\ pc = "drain" /\ pc' = "join"
  /\ UNCHANGED <<episode, envVars, deployVars, stop, modelVars, clientVars, late, loopVars>>

Drain ==
  /\ pc = "drain" /\ pc' = "join" /\ orphan' = FALSE
  /\ UNCHANGED <<episode, envVars, deployVars, stop, modelVars, clientVars, late, loop>>

\* The thread is joined for 5 s; the loop is closed only if it has ended.
Join ==
  /\ pc = "join" /\ pc' = "exited"
  /\ loop' \in {"closed", "left"}
  /\ UNCHANGED <<episode, envVars, deployVars, stop, modelVars, clientVars, late, orphan>>

-----------------------------------------------------------------------------
(* The main program and the deployment loop.                                 *)

\* `for idx in range(eval_episode_num)`, with `finally: close()` behind it.
NextEpisode ==
  /\ pc = "next"
  /\ IF episode < Episodes THEN pc' = "envReset" /\ episode' = episode + 1
                           ELSE pc' = "close" /\ UNCHANGED episode
  /\ UNCHANGED <<envVars, deployVars, stop, modelVars, clientVars, late, loopVars>>

\* TestEnv.reset: the model first, then the environments.
ResetEnv ==
  /\ pc = "envReset" /\ pc' = "reset"
  /\ ResetModel
  /\ running' = Envs /\ steps' = 0 /\ time' = [e \in Envs |-> 0]
  /\ UNCHANGED <<episode, deployVars, stop, late, loopVars>>

\* eval_one_episode_batch begins with a reset of its own.
Reset ==
  /\ pc = "reset" /\ pc' = "check"
  /\ ResetModel
  /\ UNCHANGED <<episode, envVars, deployVars, stop, late, loopVars>>

\* is_episode_end().
\* (mutant: one step too many)
EndedLate == stop \/ steps > StepLimit \/ running = {}
Ended == stop \/ steps >= StepLimit \/ running = {}

\* The head of the while loop, and get_running_env_idx_list().
Check ==
  /\ pc = "check"
  /\ IF Ended THEN pc' = "next" /\ UNCHANGED batch
              ELSE pc' = "observe" /\ \E f \in Enumerations(running) : batch' = f
  /\ rows' = IF Ended THEN rows
                      ELSE [i \in DOMAIN batch' |-> [env |-> batch'[i], time |-> 0]]
  /\ UNCHANGED <<episode, envVars, idx, size, stop, modelVars, clientVars, late, loopVars>>

Observe ==
  /\ pc = "observe" /\ pc' = "infer"
  /\ Update(Members(batch))
  /\ UNCHANGED <<episode, envVars, deployVars, stop, late, loopVars>>

\* The policy makes a chunk per environment, in the order of the list, from the
\* last observation it had of it.  A chunk may be empty: then the loop begins
\* again without an action.
GetActions ==
  /\ pc = "infer"
  /\ Infer
  /\ rows' = [i \in DOMAIN batch |-> [env |-> batch[i], time |-> latest[batch[i]]]]
  /\ size' \in 0..MaxChunk /\ idx' = 0
  /\ IF size' = 0 THEN empties < MaxEmpty /\ empties' = empties + 1 /\ pc' = "check"
                  ELSE UNCHANGED empties /\ pc' = "act"
  /\ UNCHANGED <<episode, envVars, batch, stop, late, loopVars>>

\* Those still running keep their places, in the list and in the actions.
\* (mutant: the list is reduced, the actions are not)
NarrowListOnly ==
  LET active == {i \in DOMAIN batch : batch[i] \in running'}
  IN  \E f \in Enumerations(active) :
        /\ batch' = [i \in DOMAIN f |-> batch[f[i]]]
        /\ rows' = [i \in DOMAIN f |-> rows[i]]

Narrow ==
  LET active == {i \in DOMAIN batch : batch[i] \in running'}
  IN  \E f \in Enumerations(active) :
        /\ batch' = [i \in DOMAIN f |-> batch[f[i]]]
        /\ rows' = [i \in DOMAIN f |-> rows[f[i]]]

\* What follows an action: the chunk is over, or the next observation.
\* (mutant: the chunk is only left when it is used up)
LeavesOnlyAtEnd(ended) == idx + 1 = size
Leaves(ended) == ended \/ idx + 1 = size

\* take_action_batch(current_action_list, env_idx_list), is_episode_end() and the
\* reduction of the batch to what still runs.
TakeAction ==
  /\ pc = "act"
  /\ running' \in SUBSET running
  /\ steps' = steps + 1 /\ UNCHANGED stop
  /\ time' = [e \in Envs |-> IF e \in Members(batch) THEN time[e] + 1 ELSE time[e]]
  /\ late' = IF stop THEN late + 1 ELSE late
  /\ IF Leaves(Ended') THEN pc' = "check" /\ UNCHANGED <<batch, rows, idx>>
                       ELSE pc' = "again" /\ idx' = idx + 1 /\ Narrow
  /\ UNCHANGED <<episode, size, modelVars, clientVars, loopVars>>

\* (mutant: the observations between the actions of a chunk are dropped)
ObserveAgainNot ==
  /\ pc = "again" /\ pc' = "act"
  /\ UNCHANGED <<episode, envVars, deployVars, stop, modelVars, clientVars, late, loopVars>>

ObserveAgain ==
  /\ pc = "again" /\ pc' = "act"
  /\ Update(Members(batch))
  /\ UNCHANGED <<episode, envVars, deployVars, stop, late, loopVars>>

\* Someone asks for the evaluation to stop.
StopRequested ==
  /\ ~stop /\ stop' = TRUE
  /\ UNCHANGED <<pc, episode, envVars, deployVars, modelVars, clientVars, late, loopVars>>

Main ==
  \/ Connect \/ NextEpisode \/ ResetEnv \/ Reset \/ Check \/ Observe \/ GetActions
  \/ TakeAction \/ ObserveAgain \/ CallRaises \/ Close \/ Drain \/ Join

Next == Main \/ Interrupt \/ OrphanEnds \/ StopRequested

\* The main thread goes on: every call returns or raises (PolicyClient's
\* CallSettles and CloseReturns), every environment takes its actions.
Spec == Init /\ [][Next]_vars /\ WF_vars(Main)

-----------------------------------------------------------------------------
\* The action an environment gets is its own, and the one meant for this moment:
\* row idx of the chunk made from what it looked like idx actions ago, also
\* after other environments of the batch have ended.
ActionsInPlace ==
  pc = "act" =>
    \A i \in DOMAIN batch : rows[i].env = batch[i] /\ time[batch[i]] = rows[i].time + idx

\* An inference is made from the current observation of every environment it is
\* for, and the policy has had each observation of the episode exactly once, and
\* once more for every chunk it left empty.
EveryStepObserved ==
  pc = "infer" =>
    \A i \in DOMAIN batch : /\ latest[batch[i]] = time[batch[i]]
                            /\ seen[batch[i]] = time[batch[i]] + 1 + empties

\* The step on a frame is the number of inferences the policy has run since its
\* reset: no call follows one that failed after the policy had run it, which
\* the client's index does not know of.
FramesCarryStep == sent.step = sent.inferred

\* Once the stop is requested the robots get at most one more action.
StopsSoon == late <= 1

\* Whatever raises or interrupts: the client is closed, and with it the loop has
\* nothing left to run.
EndsClosed == <>(pc = "exited" /\ loop # "running" /\ ~orphan)
=============================================================================
