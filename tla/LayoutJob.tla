------------------------------- MODULE LayoutJob -------------------------------
(***************************************************************************)
(* The jobs of one run id: scripts/run_robodojo_layout_range.sh, followed   *)
(* by the evaluation it execs.  A job asks for some layouts, writes a       *)
(* resume manifest that makes the evaluation skip the others, and carries   *)
(* into it what the run has already scored.  It may be killed at any point; *)
(* the next job of the run starts after it.                                 *)
(*                                                                         *)
(* The evaluation is RoboDojo, which is not in this repository: it is       *)
(* modelled from what the script says of it (lines 4-23, 131-134, 174-187). *)
(***************************************************************************)
EXTENDS Ordering

CONSTANTS Layouts,    \* the task's layouts, 0..count-1 in the script
          NoLayout,   \* no episode under way
          MaxJobs     \* jobs started for the run (bound)

ASSUME LayoutsAssumption == IsFiniteSet(Layouts) /\ NoLayout \notin Layouts
ASSUME JobsAssumption == MaxJobs \in Nat

-----------------------------------------------------------------------------
(* Where the results live.  The script and the evaluation it starts each      *)
(* derive the directory from the environment.                                 *)

\* ${name:-default}: the value of an environment variable, "" when it is unset.
Or(value, default) == IF value = "" THEN default ELSE value

\* Lines 55-63: the script's names; CKPT_NAME is exported as ROBODOJO_CKPT.
JobDir(env) ==
  [cfg    |-> Or(env.ENV_CFG, "arx_x5"),
   action |-> Or(env.ROBODOJO_ACTION_TYPE, Or(env.ACTION_TYPE, "joint")),
   ckpt   |-> Or(env.CKPT_NAME, Or(env.ROBODOJO_CKPT, "sim"))]

\* run_robodojo_sim_eval.sh: its own names, its own default per policy.
EvalDir(env, default) ==
  [cfg    |-> Or(env.ROBODOJO_ENV_CFG, "arx_x5"),
   action |-> Or(env.ROBODOJO_ACTION_TYPE, default),
   ckpt   |-> JobDir(env).ckpt]

Settings == [ENV_CFG : {"", "arx_x5", "x7"}, ROBODOJO_ENV_CFG : {"", "arx_x5", "x7"},
             ACTION_TYPE : {"", "joint", "ee"}, ROBODOJO_ACTION_TYPE : {"", "joint", "ee"},
             CKPT_NAME : {"", "a"}, ROBODOJO_CKPT : {"", "b"}]

-----------------------------------------------------------------------------
VARIABLES
  pc,       \* "off", "read", "write", "load", "eval"
  wanted,   \* LAYOUTS, the layouts this job asks for
  manifest, \* _resume_<run id>.json: what to skip, and the details to restore
  record,   \* the details of _result.json in the evaluation's directory,
            \* numbered, in recorded order
  readable, \* whether _result.json can be parsed
  memory,   \* the details the evaluation holds
  skip,     \* the layouts it does not run
  episode,  \* the layout it is running
  ran,      \* history: the layouts this job's evaluation has started
  jobs,     \* jobs started
  agree     \* JobDir and EvalDir are the same directory

jobVars == <<pc, wanted, manifest, record, readable, memory, skip, episode, ran,
             jobs, agree>>

Detail == [layout : Layouts, job : 1..MaxJobs]
Numbered(d) == IsFiniteSet(DOMAIN d) /\ d \in [1..Cardinality(DOMAIN d) -> Detail]
LayoutsIn(d) == {d[i].layout : i \in DOMAIN d}
Entries(d) == {d[i] : i \in DOMAIN d}

JobTypeOK ==
  /\ pc \in {"off", "read", "write", "load", "eval"}
  /\ wanted \in SUBSET Layouts /\ skip \in SUBSET Layouts /\ ran \in SUBSET Layouts
  /\ episode \in Layouts \cup {NoLayout}
  /\ Numbered(record) /\ Numbered(memory) /\ Numbered(manifest.details)
  /\ manifest.skip \in SUBSET Layouts
  /\ readable \in BOOLEAN /\ agree \in BOOLEAN /\ jobs \in 0..MaxJobs

NoDetails == [i \in {} |-> NoLayout]

JobInit ==
  /\ pc = "off" /\ wanted = {} /\ episode = NoLayout /\ ran = {} /\ jobs = 0
  /\ manifest = [skip |-> {}, details |-> NoDetails]
  /\ record = NoDetails /\ readable = TRUE /\ memory = NoDetails /\ skip = {}
  /\ \E env \in Settings, default \in {"joint", "ee"} :
       agree = (JobDir(env) = EvalDir(env, default))

\* The script is started for a non-empty set of layouts.
StartJob(layouts) ==
  /\ pc = "off" /\ jobs < MaxJobs /\ layouts # {}
  /\ pc' = "read" /\ wanted' = layouts /\ jobs' = jobs + 1
  /\ UNCHANGED <<manifest, record, readable, memory, skip, episode, ran, agree>>

\* An unreadable record stops the job.  The script looks in its own directory;
\* when that is not the evaluation's, it finds no record there.
ReadRecord ==
  /\ pc = "read"
  /\ IF agree /\ ~readable THEN pc' = "off" /\ wanted' = {}
                           ELSE pc' = "write" /\ UNCHANGED wanted
  /\ UNCHANGED <<manifest, record, readable, memory, skip, episode, ran, jobs, agree>>

\* The entries i of the record to carry, renumbered from the start in their order.
\* (mutant: nothing is carried, the blank manifest of lines 11-18)
CarryNothing(details, layouts) == {NoDetails}
\* (mutant: the carried entries keep their numbers)
CarryInPlace(details, layouts) ==
  LET kept == {i \in DOMAIN details : details[i].layout \notin layouts}
  IN  {[i \in kept |-> details[i]]}

Carry(details, layouts) ==
  LET kept == {i \in DOMAIN details : details[i].layout \notin layouts}
  IN  {[i \in DOMAIN f |-> details[f[i]]] : f \in Enumerations(kept)}

\* What the evaluation must not run: the layouts carried as completed, and as
\* abandoned the others nobody asked for.
\* (mutant: only completed layouts are listed)
SkipCompleted(details, layouts) == LayoutsIn(details)
Skip(details, layouts) == LayoutsIn(details) \cup {l \in Layouts : l \notin layouts}

\* The manifest, through a temporary name; then exec.
\* (mutant: the details are those of the record, not those carried)
WriteManifestUnfiltered ==
  /\ pc = "write" /\ pc' = "load"
  /\ \E details \in Carry(IF agree THEN record ELSE NoDetails, wanted) :
       manifest' = [skip |-> Skip(details, wanted),
                    details |-> IF agree THEN record ELSE NoDetails]
  /\ UNCHANGED <<wanted, record, readable, memory, skip, episode, ran, jobs, agree>>

WriteManifest ==
  /\ pc = "write" /\ pc' = "load"
  /\ \E details \in Carry(IF agree THEN record ELSE NoDetails, wanted) :
       manifest' = [skip |-> Skip(details, wanted), details |-> details]
  /\ UNCHANGED <<wanted, record, readable, memory, skip, episode, ran, jobs, agree>>

\* The evaluation restores its results from the manifest in its directory.
LoadManifest ==
  /\ pc = "load" /\ pc' = "eval"
  /\ memory' = IF agree THEN manifest.details ELSE NoDetails
  /\ skip' = IF agree THEN manifest.skip ELSE {}
  /\ UNCHANGED <<wanted, manifest, record, readable, episode, ran, jobs, agree>>

\* It runs --eval-num layouts, the number of those asked for.
StartEpisode(l) ==
  /\ pc = "eval" /\ episode = NoLayout
  /\ l \notin skip \cup ran /\ Cardinality(ran) < Cardinality(wanted)
  /\ episode' = l /\ ran' = ran \cup {l}
  /\ UNCHANGED <<pc, wanted, manifest, record, readable, memory, skip, jobs, agree>>

\* The next episode's number is the number of details (lines 180-182).
Put(details, d) ==
  LET n == Cardinality(DOMAIN details) + 1
  IN  [i \in DOMAIN details \cup {n} |-> IF i = n THEN d ELSE details[i]]

\* The evaluation rewrites its _result.json after every episode, atomically, from
\* memory, whatever the script has found or not found.
EndEpisode ==
  /\ pc = "eval" /\ episode # NoLayout
  /\ memory' = Put(memory, [layout |-> episode, job |-> jobs])
  /\ record' = memory' /\ readable' = TRUE
  /\ episode' = NoLayout
  /\ UNCHANGED <<pc, wanted, manifest, skip, ran, jobs, agree>>

\* The job ends, or is killed, wherever it is.
EndJob ==
  /\ pc # "off" /\ pc' = "off"
  /\ wanted' = {} /\ memory' = NoDetails /\ skip' = {} /\ episode' = NoLayout /\ ran' = {}
  /\ UNCHANGED <<manifest, record, readable, jobs, agree>>

\* The record becomes unreadable between two jobs.
Spoil ==
  /\ pc = "off" /\ readable /\ readable' = FALSE
  /\ UNCHANGED <<pc, wanted, manifest, record, memory, skip, episode, ran, jobs, agree>>

JobNext ==
  \/ \E layouts \in SUBSET Layouts : StartJob(layouts)
  \/ ReadRecord \/ WriteManifest \/ LoadManifest
  \/ \E l \in Layouts : StartEpisode(l)
  \/ EndEpisode \/ EndJob \/ Spoil

JobSpec == JobInit /\ [][JobNext]_jobVars

-----------------------------------------------------------------------------
\* "So selecting layouts cannot erase results" (lines 20-23): an entry of the
\* record survives everything but its own layout being asked for again.
SelectingNeverErases ==
  [][\A d \in Entries(record) : d.layout \notin wanted => d \in Entries(record')]_jobVars

\* The same, as long as both scripts derive one directory from the environment, so
\* that the results the script carries over are those the evaluation rewrites.
KeepsResults ==
  [][agree => \A d \in Entries(record) : d.layout \notin wanted =>
                d \in Entries(record')]_jobVars

\* Whatever was asked for, killed and asked for again, the record scores a
\* layout once, under consecutive numbers.
OncePerLayout ==
  /\ Numbered(record)
  /\ \A i, j \in DOMAIN record : record[i].layout = record[j].layout => i = j

\* "Exactly the wanted layouts" (lines 4-9), as long as both scripts derive one
\* directory from the environment.
OnlyWanted == agree => ran \subseteq wanted
=============================================================================
