---------------------------- MODULE EvaluationProofs ----------------------------
(* Proofs about Evaluation, for every number of environments, episodes, steps *)
(* and actions of a chunk.                                                  *)
EXTENDS Evaluation, OrderingProofs

USE EvaluationAssumption

InStep == {"observe", "infer", "act", "again"}

\* Within a step of the loop: the episode is not over, the list names the
\* environments that run, and the chunk is not used up.
Loop ==
  /\ \A e \in Envs : time[e] <= steps
  /\ pc \in InStep => steps < StepLimit /\ Members(batch) = running
  /\ pc \in {"act", "again"} => idx < size

\* The policy has had every observation but the one it is about to get, and the
\* one before an empty chunk twice.
Fed ==
  /\ pc = "reset" => running = Envs /\ \A e \in Envs : time[e] = 0
  /\ pc = "reset" => empties = 0
  /\ pc \in {"check", "observe", "again"} => \A e \in running : seen[e] = time[e] + empties
  /\ pc \in {"infer", "act"} => \A e \in running : seen[e] = time[e] + 1 + empties
  /\ pc = "infer" => \A e \in running : latest[e] = time[e]

\* Each place of the list has the actions of its environment, idx of them used.
Aligned ==
  pc \in {"act", "again"} =>
    /\ DOMAIN rows = DOMAIN batch
    /\ \A i \in DOMAIN batch : rows[i].env = batch[i] /\ time[batch[i]] = rows[i].time + idx

\* The client counts what the policy infers, until it is closed.
Counted ==
  /\ pc \in Calls \cup {"connect", "check", "act", "next"} => step = inferred
  /\ sent.step = sent.inferred

\* An action that follows the stop leaves the loop.
Stopping == late = 0 \/ (late = 1 /\ stop /\ pc \notin InStep)

Places == \E n \in 0..NumEnvs : batch \in [1..n -> Envs] /\ rows \in [1..n -> Observations]

\* TypeOK, with what its step needs.
Typed == TypeOK /\ Loop

LEMMA Initially == Init => Typed /\ Fed /\ Aligned /\ Counted /\ Stopping
<1> SUFFICES ASSUME Init PROVE Typed /\ Fed /\ Aligned /\ Counted /\ Stopping
  OBVIOUS
<1>1. Empty \in [1..0 -> Envs] /\ Empty \in [1..0 -> Observations] BY DEF Empty
<1>2. 0 \in 0..NumEnvs OBVIOUS
<1>3. Places BY <1>1, <1>2 DEF Init, Places
<1>a. /\ pc = "connect" /\ episode \in 0..Episodes /\ running \in SUBSET Envs
      /\ steps \in 0..StepLimit /\ time \in [Envs -> 0..StepLimit] /\ seen \in [Envs -> Nat]
      /\ idx \in 0..MaxChunk /\ size \in 0..MaxChunk /\ latest \in [Envs -> 0..StepLimit]
      /\ step \in Nat /\ inferred \in Nat /\ late \in Nat /\ loop = "running"
      /\ empties \in 0..MaxEmpty
  BY DEF Init
<1>b. sent \in [step : Nat, inferred : Nat] BY DEF Init
<1>c. stop \in BOOLEAN /\ orphan \in BOOLEAN BY DEF Init
<1>4. TypeOK BY <1>3, <1>a, <1>b, <1>c DEF TypeOK, Places
<1>5. Loop BY DEF Init, Loop, InStep
<1>6. Fed /\ Aligned /\ Counted /\ Stopping BY DEF Init, Fed, Aligned, Counted, Stopping
<1> QED BY <1>4, <1>5, <1>6 DEF Typed

\* Going through the environments that run.
LEMMA BatchOf ==
  ASSUME NEW S \in SUBSET Envs, NEW f \in Enumerations(S)
  PROVE  \E n \in 0..NumEnvs : f \in [1..n -> Envs] /\ Members(f) = S
<1>1. Envs = 1..NumEnvs /\ NumEnvs \in Nat BY DEF Envs
<1>2. IsFiniteSet(S) /\ Cardinality(S) \in 0..NumEnvs BY <1>1, IntervalFacts
<1>3. S \in SUBSET Nat BY <1>1
<1>4. /\ f \in [1..Cardinality(S) -> S]
      /\ \A s \in S : \E i \in 1..Cardinality(S) : f[i] = s
  BY <1>2, <1>3, EnumerationFacts
<1>5. f \in [1..Cardinality(S) -> Envs] BY <1>4
<1>6. Members(f) = S BY <1>4 DEF Members
<1> QED BY <1>2, <1>5, <1>6

\* What Narrow leaves: the places of what still runs, each with its actions.
LEMMA NarrowFacts ==
  ASSUME Places, Narrow, running' \in SUBSET Members(batch)
  PROVE  /\ Places'
         /\ Members(batch') = running'
         /\ DOMAIN rows' = DOMAIN batch'
         /\ \A i \in DOMAIN batch' : \E j \in DOMAIN batch :
              batch'[i] = batch[j] /\ rows'[i] = rows[j]
<1> DEFINE active == {i \in DOMAIN batch : batch[i] \in running'}
           m == Cardinality(active)
<1>1. PICK n \in 0..NumEnvs : batch \in [1..n -> Envs] /\ rows \in [1..n -> Observations]
  BY DEF Places
<1>2. PICK f \in Enumerations(active) : /\ batch' = [i \in DOMAIN f |-> batch[f[i]]]
                                        /\ rows' = [i \in DOMAIN f |-> rows[f[i]]]
  BY DEF Narrow
<1>3. active \in SUBSET (1..n) /\ n \in Nat BY <1>1
<1>4. active \in SUBSET Nat BY <1>3
<1>5. IsFiniteSet(active) /\ m \in 0..n BY <1>3, IntervalFacts
<1>6. f \in [1..m -> active] /\ \A s \in active : \E i \in 1..m : f[i] = s
  BY <1>2, <1>4, <1>5, EnumerationFacts
<1>7. \A s \in active : s \in 1..n /\ batch[s] \in Envs /\ rows[s] \in Observations
  BY <1>1
<1>8. m \in 0..NumEnvs BY <1>1, <1>5
<1>9. \A s \in active : s \in DOMAIN batch /\ batch[s] \in running' OBVIOUS
<1>10. \A e \in running' : \E s \in active : batch[s] = e BY DEF Members
<1> HIDE DEF active, m
<1>11. /\ batch' = [i \in 1..m |-> batch[f[i]]] /\ rows' = [i \in 1..m |-> rows[f[i]]]
  BY <1>2, <1>6
<1>12. batch' \in [1..m -> Envs] /\ rows' \in [1..m -> Observations] BY <1>6, <1>7, <1>11
<1>13. Places' BY <1>8, <1>12 DEF Places
<1>14. Members(batch') = running'
  <2>1. \A i \in 1..m : batch'[i] \in running' BY <1>6, <1>9, <1>11
  <2>2. \A e \in running' : \E i \in 1..m : batch'[i] = e BY <1>6, <1>10, <1>11
  <2> QED BY <1>12, <2>1, <2>2 DEF Members
<1>15. \A i \in DOMAIN batch' : \E j \in DOMAIN batch :
         batch'[i] = batch[j] /\ rows'[i] = rows[j]
  BY <1>6, <1>9, <1>11
<1> QED BY <1>12, <1>13, <1>14, <1>15

\* What a call that does not return leaves behind.
LEMMA UnreturnedFacts ==
  ASSUME TypeOK, Unreturned
  PROVE  /\ seen' \in [Envs -> Nat] /\ latest' \in [Envs -> 0..StepLimit]
         /\ step' \in Nat /\ inferred' \in Nat /\ empties' \in 0..MaxEmpty
         /\ sent' \in [step : Nat, inferred : Nat]
         /\ UNCHANGED sent \/ (pc \in Calls /\ sent' = [step |-> step, inferred |-> inferred])
<1> USE DEF modelVars, clientVars
<1>0. /\ seen \in [Envs -> Nat] /\ latest \in [Envs -> 0..StepLimit]
      /\ time \in [Envs -> 0..StepLimit] /\ step \in Nat /\ inferred \in Nat
      /\ empties \in 0..MaxEmpty /\ sent \in [step : Nat, inferred : Nat] /\ 0 \in 0..MaxEmpty
      /\ 0 \in 0..StepLimit
  BY DEF TypeOK
<1>1. CASE UNCHANGED <<modelVars, clientVars>> BY <1>0, <1>1
<1>2. CASE ResetModel BY <1>0, <1>2 DEF ResetModel
<1>3. CASE step' = 0 /\ UNCHANGED <<modelVars, sent>> BY <1>0, <1>3
<1>4. CASE pc \in {"observe", "again"} /\ Update(Members(batch))
  <2>1. /\ seen' = [e \in Envs |-> IF e \in Members(batch) THEN seen[e] + 1 ELSE seen[e]]
        /\ latest' = [e \in Envs |-> IF e \in Members(batch) THEN time[e] ELSE latest[e]]
        /\ sent' = [step |-> step, inferred |-> inferred]
        /\ UNCHANGED <<step, inferred, empties>>
    BY <1>4 DEF Update, SendStep
  <2>2. \A e \in Envs : seen[e] + 1 \in Nat BY <1>0
  <2>3. seen' \in [Envs -> Nat] /\ latest' \in [Envs -> 0..StepLimit] BY <1>0, <2>1, <2>2
  <2> QED BY <1>0, <1>4, <2>1, <2>3 DEF Calls
<1>5. CASE pc \in {"observe", "again", "infer"} /\ SendStep /\ UNCHANGED <<modelVars, step>>
  BY <1>0, <1>5 DEF SendStep, Calls
<1>6. CASE pc = "infer" /\ SendStep /\ inferred' = inferred + 1
           /\ UNCHANGED <<seen, latest, empties, step>>
  BY <1>0, <1>6 DEF SendStep, Calls
<1> QED BY <1>1, <1>2, <1>3, <1>4, <1>5, <1>6 DEF Unreturned

-----------------------------------------------------------------------------
\* Types and the position within the loop.
LEMMA TypedStep == Typed /\ [Next]_vars => TypeOK' /\ Loop'
<1> SUFFICES ASSUME TypeOK, Loop, [Next]_vars PROVE TypeOK' /\ Loop'
  BY DEF Typed
<1> USE DEF envVars, deployVars, modelVars, clientVars, loopVars
<1>0. /\ Places /\ StepLimit \in Nat \ {0} /\ MaxChunk \in Nat \ {0}
      /\ running \in SUBSET Envs /\ steps \in 0..StepLimit /\ time \in [Envs -> 0..StepLimit]
  BY DEF TypeOK, Places
<1>1. CASE Connect \/ Close \/ CallRaises \/ Interrupt
  <2>1. UNCHANGED <<episode, envVars, deployVars, stop, late, loop>>
    BY <1>1 DEF Connect, Close, CallRaises, Interrupt
  <2>2. /\ seen' \in [Envs -> Nat] /\ latest' \in [Envs -> 0..StepLimit]
        /\ step' \in Nat /\ inferred' \in Nat /\ empties' \in 0..MaxEmpty
        /\ sent' \in [step : Nat, inferred : Nat]
    <3>1. CASE Connect \/ Close BY <3>1 DEF Connect, Close, TypeOK
    <3>2. CASE CallRaises \/ Interrupt
      BY <3>2, UnreturnedFacts DEF CallRaises, Interrupt
    <3> QED BY <1>1, <3>1, <3>2
  <2>3. pc' \in {"next", "drain", "close"} BY <1>1 DEF Connect, Close, CallRaises, Interrupt
  <2>a. orphan' \in BOOLEAN BY <1>1 DEF Connect, Close, CallRaises, Interrupt, TypeOK
  <2>4. TypeOK' BY <2>1, <2>2, <2>3, <2>a DEF TypeOK
  <2> QED BY <2>1, <2>3, <2>4 DEF Loop, InStep
<1>2. CASE NextEpisode
  <2>1. UNCHANGED <<envVars, deployVars, stop, modelVars, clientVars, late, loopVars>>
    BY <1>2 DEF NextEpisode
  <2>2. episode' \in 0..Episodes /\ pc' \in {"envReset", "close"}
    BY <1>2 DEF NextEpisode, TypeOK
  <2>3. TypeOK' BY <2>1, <2>2 DEF TypeOK, Calls
  <2> QED BY <2>1, <2>2, <2>3 DEF Loop, InStep
<1>3. CASE ResetEnv \/ Reset
  <2>1. /\ UNCHANGED <<episode, deployVars, stop, sent, late, loopVars>>
        /\ step' = 0 /\ inferred' = 0 /\ empties' = 0
        /\ seen' = [e \in Envs |-> 0] /\ latest' = [e \in Envs |-> 0]
        /\ pc' \in {"reset", "check"}
    BY <1>3 DEF ResetEnv, Reset, ResetModel
  <2>2. /\ running' \in SUBSET Envs /\ steps' \in 0..StepLimit
        /\ time' \in [Envs -> 0..StepLimit] /\ \A e \in Envs : time'[e] <= steps'
    <3>1. CASE ResetEnv
      <4>1. running' = Envs /\ steps' = 0 /\ time' = [e \in Envs |-> 0] BY <3>1 DEF ResetEnv
      <4>2. 0 \in 0..StepLimit BY <1>0
      <4> QED BY <4>1, <4>2
    <3>2. CASE Reset
      <4>1. running' = running /\ steps' = steps /\ time' = time BY <3>2 DEF Reset
      <4>2. \A e \in Envs : time[e] <= steps BY DEF Loop
      <4> QED BY <1>0, <4>1, <4>2
    <3> QED BY <1>3, <3>1, <3>2
  <2>a. seen' \in [Envs -> Nat] /\ latest' \in [Envs -> 0..StepLimit] BY <1>0, <2>1
  <2>b. step' \in Nat /\ inferred' \in Nat /\ empties' \in 0..MaxEmpty /\ pc' \in Calls \cup {"check"}
    BY <2>1 DEF Calls
  <2>c. /\ UNCHANGED <<episode, batch, rows, idx, size, stop, sent, late, loop, orphan>>
        /\ running' \in SUBSET Envs /\ steps' \in 0..StepLimit /\ time' \in [Envs -> 0..StepLimit]
    BY <2>1, <2>2
  <2>3. TypeOK' BY <2>a, <2>b, <2>c DEF TypeOK
  <2> QED BY <2>1, <2>2, <2>3 DEF Loop, InStep
<1>4. CASE Check
  <2>1. UNCHANGED <<episode, envVars, idx, size, stop, modelVars, clientVars, late, loopVars>>
    BY <1>4 DEF Check
  <2>2. CASE Ended
    <3>1. pc' = "next" /\ UNCHANGED <<batch, rows>> BY <1>4, <2>2 DEF Check
    <3>2. TypeOK' BY <2>1, <3>1 DEF TypeOK
    <3> QED BY <2>1, <3>1, <3>2 DEF Loop, InStep
  <2>3. CASE ~Ended
    <3>1. /\ pc' = "observe" /\ batch' \in Enumerations(running)
          /\ rows' = [i \in DOMAIN batch' |-> [env |-> batch'[i], time |-> 0]]
      BY <1>4, <2>3 DEF Check
    <3>2. PICK n \in 0..NumEnvs : batch' \in [1..n -> Envs] /\ Members(batch') = running
      BY <1>0, <3>1, BatchOf
    <3>3. rows' \in [1..n -> Observations] BY <3>1, <3>2 DEF Observations
    <3>4. Places' BY <3>2, <3>3 DEF Places
    <3>5. TypeOK' BY <2>1, <3>1, <3>4 DEF TypeOK, Calls, Places
    <3>6. steps < StepLimit BY <1>0, <2>3 DEF Ended
    <3> QED BY <2>1, <3>1, <3>2, <3>5, <3>6 DEF Loop, InStep
  <2> QED BY <2>2, <2>3
<1>5. CASE Observe \/ ObserveAgain
  <2>1. UNCHANGED <<episode, envVars, deployVars, stop, late, loopVars, step, inferred, empties>>
    BY <1>5 DEF Observe, ObserveAgain, Update
  <2>2. seen' \in [Envs -> Nat] /\ latest' \in [Envs -> 0..StepLimit]
    <3>1. /\ seen' = [e \in Envs |-> IF e \in Members(batch) THEN seen[e] + 1 ELSE seen[e]]
          /\ latest' = [e \in Envs |-> IF e \in Members(batch) THEN time[e] ELSE latest[e]]
      BY <1>5 DEF Observe, ObserveAgain, Update
    <3>2. seen \in [Envs -> Nat] /\ latest \in [Envs -> 0..StepLimit] BY DEF TypeOK
    <3>3. \A e \in Envs : seen[e] + 1 \in Nat BY <3>2
    <3>4. seen' \in [Envs -> Nat] BY <3>1, <3>2, <3>3
    <3>5. latest' \in [Envs -> 0..StepLimit] BY <1>0, <3>1, <3>2
    <3> QED BY <3>4, <3>5
  <2>3. sent' \in [step : Nat, inferred : Nat]
    BY <1>5 DEF Observe, ObserveAgain, Update, SendStep, TypeOK
  <2>4. (pc = "observe" /\ pc' = "infer") \/ (pc = "again" /\ pc' = "act")
    BY <1>5 DEF Observe, ObserveAgain
  <2>5. TypeOK' BY <2>1, <2>2, <2>3, <2>4 DEF TypeOK, Calls
  <2>6. Members(batch') = Members(batch) BY <2>1 DEF Members
  <2> QED BY <2>1, <2>4, <2>5, <2>6 DEF Loop, InStep
<1>6. CASE GetActions
  <2>1. /\ UNCHANGED <<episode, envVars, batch, stop, late, loopVars, seen, latest>>
        /\ pc = "infer" /\ size' \in 0..MaxChunk /\ idx' = 0
        /\ rows' = [i \in DOMAIN batch |-> [env |-> batch[i], time |-> latest[batch[i]]]]
    BY <1>6 DEF GetActions, Infer
  <2>2. step' \in Nat /\ inferred' \in Nat BY <1>6 DEF GetActions, Infer, TypeOK
  <2>3. sent' \in [step : Nat, inferred : Nat] BY <1>6 DEF GetActions, Infer, SendStep, TypeOK
  <2>4. PICK n \in 0..NumEnvs : batch \in [1..n -> Envs] BY <1>0 DEF Places
  <2>5. \A i \in 1..n : latest[batch[i]] \in 0..StepLimit BY <2>4 DEF TypeOK
  <2>6. rows' \in [1..n -> Observations] BY <2>1, <2>4, <2>5 DEF Observations
  <2>7. Places' BY <2>1, <2>4, <2>6 DEF Places
  <2>8. \/ size' = 0 /\ empties < MaxEmpty /\ empties' = empties + 1 /\ pc' = "check"
        \/ size' # 0 /\ empties' = empties /\ pc' = "act"
    BY <1>6 DEF GetActions
  <2>9. empties' \in 0..MaxEmpty /\ idx' \in 0..MaxChunk BY <1>0, <2>1, <2>8 DEF TypeOK
  <2>10. TypeOK' BY <2>1, <2>2, <2>3, <2>7, <2>8, <2>9 DEF TypeOK, Calls, Places
  <2>11. Members(batch') = Members(batch) BY <2>1 DEF Members
  <2>12. pc' = "act" => idx' < size' BY <1>0, <2>1, <2>8
  <2> QED BY <2>1, <2>8, <2>10, <2>11, <2>12 DEF Loop, InStep
<1>7. CASE TakeAction
  <2>1. /\ pc = "act" /\ running' \in SUBSET running /\ steps' = steps + 1
        /\ time' = [e \in Envs |-> IF e \in Members(batch) THEN time[e] + 1 ELSE time[e]]
        /\ UNCHANGED <<stop, episode, size, modelVars, clientVars, loopVars>>
    BY <1>7 DEF TakeAction
  <2>2. steps < StepLimit /\ Members(batch) = running /\ idx < size
    BY <2>1 DEF Loop, InStep
  <2>3. steps' \in 0..StepLimit /\ late' \in Nat
    <3>1. late' = IF stop THEN late + 1 ELSE late BY <1>7 DEF TakeAction
    <3> QED BY <1>0, <2>1, <2>2, <3>1 DEF TypeOK
  <2>4. \A e \in Envs : time'[e] \in 0..StepLimit /\ time'[e] <= steps'
    <3>1. \A e \in Envs : time[e] <= steps /\ time[e] \in Nat BY <1>0 DEF Loop
    <3>2. \A e \in Envs : time'[e] \in {time[e], time[e] + 1} BY <2>1
    <3> QED BY <1>0, <2>1, <2>2, <3>1, <3>2
  <2>5. time' \in [Envs -> 0..StepLimit] BY <2>1, <2>4
  <2>6. CASE Leaves(Ended')
    <3>1. pc' = "check" /\ UNCHANGED <<batch, rows, idx>> BY <1>7, <2>6 DEF TakeAction
    <3>2. TypeOK' BY <2>1, <2>3, <2>5, <3>1 DEF TypeOK
    <3> QED BY <2>1, <2>4, <3>1, <3>2 DEF Loop, InStep
  <2>7. CASE ~Leaves(Ended')
    <3>1. pc' = "again" /\ idx' = idx + 1 /\ Narrow BY <1>7, <2>7 DEF TakeAction
    <3>2. Places' /\ Members(batch') = running' BY <1>0, <2>1, <2>2, <3>1, NarrowFacts
    <3>3. idx + 1 # size /\ steps' < StepLimit BY <1>0, <2>3, <2>7 DEF Leaves, Ended
    <3>4. idx' \in 0..MaxChunk /\ idx' < size BY <2>2, <3>1, <3>3 DEF TypeOK
    <3>5. TypeOK' BY <2>1, <2>3, <2>5, <3>1, <3>2, <3>4 DEF TypeOK, Calls, Places
    <3> QED BY <2>1, <2>4, <3>1, <3>2, <3>3, <3>4, <3>5 DEF Loop, InStep
  <2> QED BY <2>6, <2>7
<1>8. CASE OrphanEnds \/ Drain \/ Join
  <2>1. UNCHANGED <<episode, envVars, deployVars, stop, modelVars, clientVars, late>>
    BY <1>8 DEF OrphanEnds, Drain, Join
  <2>2. orphan' \in BOOLEAN BY <1>8 DEF OrphanEnds, Drain, Join, TypeOK
  <2>3. loop' \in {"running", "closed", "left"} /\ pc' \in {pc, "join", "exited"}
    BY <1>8 DEF OrphanEnds, Drain, Join, TypeOK
  <2>4. TypeOK' BY <2>1, <2>2, <2>3 DEF TypeOK
  <2>5. Members(batch') = Members(batch) BY <2>1 DEF Members
  <2> QED BY <2>1, <2>3, <2>4, <2>5 DEF Loop, InStep
<1>9. CASE StopRequested
  <2>1. stop' \in BOOLEAN BY <1>9 DEF StopRequested
  <2>2. UNCHANGED <<pc, episode, envVars, deployVars, modelVars, clientVars, late, loopVars>>
    BY <1>9 DEF StopRequested
  <2>3. TypeOK' BY <2>1, <2>2 DEF TypeOK
  <2>4. Members(batch') = Members(batch) BY <2>2 DEF Members
  <2> QED BY <2>2, <2>3, <2>4 DEF Loop
<1>10. CASE UNCHANGED vars
  <2>1. Members(batch') = Members(batch) BY <1>10 DEF vars, Members
  <2> QED BY <1>10, <2>1 DEF vars, TypeOK, Loop
<1> QED
  BY <1>1, <1>2, <1>3, <1>4, <1>5, <1>6, <1>7, <1>8, <1>9, <1>10 DEF Next, Main

-----------------------------------------------------------------------------
\* What the policy has been given of each environment.
LEMMA FedStep == Typed /\ Fed /\ [Next]_vars => Fed'
<1> SUFFICES ASSUME TypeOK, Loop, Fed, [Next]_vars PROVE Fed'
  BY DEF Typed
<1> USE DEF envVars, deployVars, modelVars, clientVars, loopVars
<1>0. /\ running \in SUBSET Envs /\ time \in [Envs -> 0..StepLimit]
      /\ seen \in [Envs -> Nat] /\ latest \in [Envs -> 0..StepLimit] /\ empties \in Nat
  BY DEF TypeOK
<1>1. CASE Connect \/ Close \/ NextEpisode
  BY <1>1 DEF Connect, Close, NextEpisode, Fed
<1>11. CASE CallRaises \/ Interrupt BY <1>11 DEF CallRaises, Interrupt, Fed
<1>2. CASE ResetEnv
  <2>1. pc' = "reset" /\ running' = Envs /\ time' = [e \in Envs |-> 0] /\ empties' = 0
    BY <1>2 DEF ResetEnv, ResetModel
  <2> QED BY <2>1 DEF Fed
<1>3. CASE Reset
  <2>1. /\ pc' = "check" /\ seen' = [e \in Envs |-> 0] /\ empties' = 0
        /\ UNCHANGED <<running, time>>
    BY <1>3 DEF Reset, ResetModel
  <2>2. \A e \in Envs : time[e] = 0 BY <1>3 DEF Reset, Fed
  <2> QED BY <1>0, <2>1, <2>2 DEF Fed
<1>4. CASE Check BY <1>4 DEF Check, Fed
<1>5. CASE Observe \/ ObserveAgain
  <2>1. /\ seen' = [e \in Envs |-> IF e \in running THEN seen[e] + 1 ELSE seen[e]]
        /\ latest' = [e \in Envs |-> IF e \in running THEN time[e] ELSE latest[e]]
        /\ UNCHANGED <<running, time, empties>> /\ pc' \in {"infer", "act"}
        /\ pc \in {"observe", "again"}
    BY <1>5 DEF Observe, ObserveAgain, Update, Loop, InStep
  <2>2. \A e \in running : seen[e] = time[e] + empties BY <2>1 DEF Fed
  <2> QED BY <1>0, <2>1, <2>2 DEF Fed
<1>6. CASE GetActions
  <2>1. UNCHANGED <<running, time, seen>> /\ pc = "infer"
    BY <1>6 DEF GetActions, Infer
  <2>2. \A e \in running : seen[e] = time[e] + 1 + empties BY <2>1 DEF Fed
  <2>3. \/ pc' = "check" /\ empties' = empties + 1
        \/ pc' = "act" /\ empties' = empties
    BY <1>6 DEF GetActions
  <2> QED BY <1>0, <2>1, <2>2, <2>3 DEF Fed
<1>7. CASE TakeAction
  <2>1. /\ pc = "act" /\ running' \in SUBSET running /\ UNCHANGED <<seen, empties>>
        /\ time' = [e \in Envs |-> IF e \in running THEN time[e] + 1 ELSE time[e]]
    BY <1>7 DEF TakeAction, Loop, InStep
  <2>2. pc' \in {"check", "again"} BY <1>7 DEF TakeAction
  <2>3. \A e \in running : time'[e] = time[e] + 1 /\ seen[e] = time[e] + 1 + empties
    BY <1>0, <2>1 DEF Fed
  <2>4. \A e \in running : seen[e] = time'[e] + empties BY <2>3
  <2> QED BY <2>1, <2>2, <2>4 DEF Fed
<1>8. CASE OrphanEnds \/ Drain \/ Join
  BY <1>8 DEF OrphanEnds, Drain, Join, Fed
<1>9. CASE StopRequested BY <1>9 DEF StopRequested, Fed
<1>10. CASE UNCHANGED vars BY <1>10 DEF vars, Fed
<1> QED
  BY <1>1, <1>2, <1>3, <1>4, <1>5, <1>6, <1>7, <1>8, <1>9, <1>10, <1>11 DEF Next, Main

\* Places and actions.
LEMMA AlignedStep == Typed /\ Fed /\ Aligned /\ [Next]_vars => Aligned'
<1> SUFFICES ASSUME TypeOK, Loop, Fed, Aligned, [Next]_vars PROVE Aligned'
  BY DEF Typed
<1> USE DEF envVars, deployVars, modelVars, clientVars, loopVars
<1>0. Places /\ time \in [Envs -> 0..StepLimit] BY DEF TypeOK, Places
<1>1. CASE pc' \notin {"act", "again"} BY <1>1 DEF Aligned
<1>2. CASE GetActions /\ pc' = "act"
  <2>1. /\ pc = "infer" /\ idx' = 0 /\ UNCHANGED <<batch, time>>
        /\ rows' = [i \in DOMAIN batch |-> [env |-> batch[i], time |-> latest[batch[i]]]]
    BY <1>2 DEF GetActions
  <2>2. \A i \in DOMAIN batch : latest[batch[i]] = time[batch[i]] /\ time[batch[i]] \in Nat
    <3>1. Members(batch) = running /\ \A e \in running : latest[e] = time[e]
      BY <2>1 DEF Loop, InStep, Fed
    <3>2. \A i \in DOMAIN batch : batch[i] \in Members(batch) BY DEF Members
    <3>3. \A i \in DOMAIN batch : batch[i] \in Envs BY <1>0 DEF Places
    <3> QED BY <1>0, <3>1, <3>2, <3>3
  <2> QED BY <2>1, <2>2 DEF Aligned
<1>3. CASE ObserveAgain
  <2>1. pc = "again" /\ UNCHANGED <<batch, rows, idx, time>> BY <1>3 DEF ObserveAgain
  <2> QED BY <2>1 DEF Aligned
<1>4. CASE TakeAction /\ pc' = "again"
  <2>1. /\ pc = "act" /\ running' \in SUBSET running /\ idx' = idx + 1 /\ Narrow
        /\ time' = [e \in Envs |-> IF e \in Members(batch) THEN time[e] + 1 ELSE time[e]]
    BY <1>4 DEF TakeAction
  <2>2. Members(batch) = running BY <2>1 DEF Loop, InStep
  <2>3. /\ DOMAIN rows' = DOMAIN batch'
        /\ \A i \in DOMAIN batch' : \E j \in DOMAIN batch :
             batch'[i] = batch[j] /\ rows'[i] = rows[j]
    BY <1>0, <2>1, <2>2, NarrowFacts
  <2>4. \A j \in DOMAIN batch : /\ rows[j].env = batch[j]
                                /\ time'[batch[j]] = rows[j].time + (idx + 1)
    <3> SUFFICES ASSUME NEW j \in DOMAIN batch
                 PROVE  /\ rows[j].env = batch[j]
                        /\ time'[batch[j]] = rows[j].time + (idx + 1)
      OBVIOUS
    <3>1. /\ rows[j].env = batch[j] /\ time[batch[j]] = rows[j].time + idx
          /\ j \in DOMAIN rows
      BY <2>1 DEF Aligned
    <3>2. batch[j] \in Envs /\ rows[j].time \in Nat
      BY <1>0, <3>1 DEF Places, Observations
    <3>3. batch[j] \in Members(batch) BY DEF Members
    <3>4. time'[batch[j]] = time[batch[j]] + 1 BY <1>0, <2>1, <3>2, <3>3
    <3>5. idx \in Nat BY DEF TypeOK
    <3> QED BY <3>1, <3>2, <3>4, <3>5
  <2> QED BY <2>1, <2>3, <2>4 DEF Aligned
<1>5. CASE OrphanEnds \/ StopRequested
  <2>1. UNCHANGED <<pc, batch, rows, idx, time>> BY <1>5 DEF OrphanEnds, StopRequested
  <2> QED BY <2>1 DEF Aligned
<1>6. CASE UNCHANGED vars BY <1>6 DEF vars, Aligned
<1>7. ASSUME pc' \in {"act", "again"}
      PROVE  \/ (GetActions /\ pc' = "act") \/ ObserveAgain \/ (TakeAction /\ pc' = "again")
             \/ OrphanEnds \/ StopRequested \/ UNCHANGED vars
  BY <1>7 DEF Next, Main, Connect, NextEpisode, ResetEnv, Reset, Check, Observe, GetActions,
              TakeAction, CallRaises, Close, Drain, Join, Interrupt
<1> QED BY <1>1, <1>2, <1>3, <1>4, <1>5, <1>6, <1>7

\* The client's index and the policy's inferences.
LEMMA CountedStep == TypeOK /\ Counted /\ [Next]_vars => Counted'
<1> SUFFICES ASSUME TypeOK, Counted, [Next]_vars PROVE Counted'
  OBVIOUS
<1> USE DEF envVars, deployVars, modelVars, clientVars, loopVars
<1>1. CASE ResetEnv \/ Reset
  <2>1. step' = 0 /\ inferred' = 0 /\ UNCHANGED sent BY <1>1 DEF ResetEnv, Reset, ResetModel
  <2> QED BY <2>1 DEF Counted
<1>2. CASE Observe \/ ObserveAgain \/ GetActions
  <2>1. /\ sent' = [step |-> step, inferred |-> inferred] /\ pc \in Calls
        /\ \/ UNCHANGED <<step, inferred>>
           \/ step' = step + 1 /\ inferred' = inferred + 1
    BY <1>2 DEF Observe, ObserveAgain, Update, GetActions, Infer, SendStep, Calls
  <2> QED BY <2>1 DEF Counted
<1>3. CASE CallRaises \/ Interrupt
  <2>1. UNCHANGED sent \/ (pc \in Calls /\ sent' = [step |-> step, inferred |-> inferred])
    BY <1>3, UnreturnedFacts DEF CallRaises, Interrupt
  <2>2. pc' = "close" BY <1>3 DEF CallRaises, Interrupt
  <2> QED BY <2>1, <2>2 DEF Counted, Calls
<1>4. CASE OrphanEnds \/ StopRequested BY <1>4 DEF OrphanEnds, StopRequested, Counted
<1>5. CASE UNCHANGED vars BY <1>5 DEF vars, Counted
<1>6. CASE Connect \/ NextEpisode \/ Check \/ TakeAction
  <2>1. UNCHANGED <<step, sent, inferred>>
    BY <1>6 DEF Connect, NextEpisode, Check, TakeAction
  <2>2. pc \in {"connect", "next", "check", "act"}
    BY <1>6 DEF Connect, NextEpisode, Check, TakeAction
  <2> QED BY <2>1, <2>2 DEF Counted
<1>7. CASE Close \/ Drain \/ Join
  <2>1. UNCHANGED <<step, sent, inferred>> /\ pc' \in {"drain", "join", "exited"}
    BY <1>7 DEF Close, Drain, Join
  <2> QED BY <2>1 DEF Counted, Calls
<1> QED BY <1>1, <1>2, <1>3, <1>4, <1>5, <1>6, <1>7 DEF Next, Main

\* The stop.
LEMMA StoppingStep == TypeOK /\ Stopping /\ [Next]_vars => Stopping'
<1> SUFFICES ASSUME TypeOK, Stopping, [Next]_vars PROVE Stopping'
  OBVIOUS
<1> USE DEF envVars, deployVars, modelVars, clientVars, loopVars
<1>1. CASE TakeAction
  <2>1. pc = "act" /\ late' = (IF stop THEN late + 1 ELSE late) /\ UNCHANGED stop
    BY <1>1 DEF TakeAction
  <2>2. late = 0 BY <2>1 DEF Stopping, InStep
  <2>3. stop => pc' = "check" BY <1>1, <2>1 DEF TakeAction, Leaves, Ended
  <2> QED BY <2>1, <2>2, <2>3 DEF Stopping, InStep
<1>2. CASE StopRequested BY <1>2 DEF StopRequested, Stopping
<1>3. CASE Check
  <2>1. UNCHANGED <<late, stop>> /\ (stop => pc' = "next") BY <1>3 DEF Check, Ended
  <2> QED BY <2>1 DEF Stopping, InStep
<1>4. CASE UNCHANGED vars BY <1>4 DEF vars, Stopping
<1>5. CASE Observe \/ GetActions \/ ObserveAgain \/ OrphanEnds
  <2>1. UNCHANGED <<late, stop>> BY <1>5 DEF Observe, GetActions, ObserveAgain, OrphanEnds
  <2>2. pc' = pc \/ pc \in InStep
    BY <1>5 DEF Observe, GetActions, ObserveAgain, OrphanEnds, InStep
  <2> QED BY <2>1, <2>2 DEF Stopping
<1>6. CASE Connect \/ NextEpisode \/ ResetEnv \/ Reset \/ CallRaises \/ Close \/ Drain \/ Join
           \/ Interrupt
  <2>1. UNCHANGED <<late, stop>>
    BY <1>6 DEF Connect, NextEpisode, ResetEnv, Reset, CallRaises, Close, Drain, Join, Interrupt
  <2>2. pc' \notin InStep
    BY <1>6 DEF Connect, NextEpisode, ResetEnv, Reset, CallRaises, Close, Drain, Join, Interrupt,
                InStep
  <2> QED BY <2>1, <2>2 DEF Stopping
<1> QED BY <1>1, <1>2, <1>3, <1>4, <1>5, <1>6 DEF Next, Main

-----------------------------------------------------------------------------
EvalInv == Typed /\ Fed /\ Aligned /\ Counted /\ Stopping

THEOREM EvaluationInvariant == Spec => []EvalInv
<1>1. Init => EvalInv BY Initially DEF EvalInv
<1>2. EvalInv /\ [Next]_vars => EvalInv'
  <2> SUFFICES ASSUME EvalInv, [Next]_vars
               PROVE  Typed' /\ Fed' /\ Aligned' /\ Counted' /\ Stopping'
    BY DEF EvalInv
  <2>1. TypeOK' /\ Loop' BY TypedStep DEF EvalInv
  <2>2. Fed' /\ Aligned' BY FedStep, AlignedStep DEF EvalInv
  <2>3. Counted' /\ Stopping' BY CountedStep, StoppingStep DEF EvalInv, Typed
  <2> QED BY <2>1, <2>2, <2>3 DEF Typed
<1> QED BY <1>1, <1>2, PTL DEF Spec

\* Every variable keeps its type, whatever raises or interrupts.
THEOREM EvaluationTypeCorrect == Spec => []TypeOK
<1>1. EvalInv => TypeOK BY DEF EvalInv, Typed
<1> QED BY <1>1, EvaluationInvariant, PTL

\* An environment gets its own action, meant for this moment, however many of
\* the batch have ended.
THEOREM ActionsInPlaceCorrect == Spec => []ActionsInPlace
<1>1. EvalInv => ActionsInPlace BY DEF EvalInv, Aligned, ActionsInPlace
<1> QED BY <1>1, EvaluationInvariant, PTL

\* An inference is made from current observations, none missed and none twice
\* but for those before an empty chunk.
THEOREM EveryStepObservedCorrect == Spec => []EveryStepObserved
<1>1. EvalInv => EveryStepObserved
  <2> SUFFICES ASSUME EvalInv, pc = "infer", NEW i \in DOMAIN batch
               PROVE  /\ latest[batch[i]] = time[batch[i]]
                      /\ seen[batch[i]] = time[batch[i]] + 1 + empties
    BY DEF EveryStepObserved
  <2>1. batch[i] \in running BY DEF EvalInv, Typed, Loop, InStep, Members
  <2> QED BY <2>1 DEF EvalInv, Fed
<1> QED BY <1>1, EvaluationInvariant, PTL

\* A frame's step is the number of inferences the policy has run since its
\* reset: nothing is sent after a failed call, whether the policy ran it or not.
THEOREM FramesCarryStepCorrect == Spec => []FramesCarryStep
<1>1. EvalInv => FramesCarryStep BY DEF EvalInv, Counted, FramesCarryStep
<1> QED BY <1>1, EvaluationInvariant, PTL

\* After a stop at most one more action is taken.
THEOREM StopsSoonCorrect == Spec => []StopsSoon
<1>1. EvalInv => StopsSoon BY DEF EvalInv, Stopping, StopsSoon
<1> QED BY <1>1, EvaluationInvariant, PTL
=============================================================================
