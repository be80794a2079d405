---------------------------- MODULE LayoutSweepProofs ----------------------------
(* Proofs about LayoutJob, for every set of layouts and any number of jobs,   *)
(* and about LayoutSweep: it implements its two parts, so what is proved of    *)
(* them holds of the composition.                                           *)
EXTENDS LayoutSweep, OrderingProofs

-----------------------------------------------------------------------------
(* The jobs.                                                                  *)

\* Numbered entries of different layouts.
Well(d) ==
  /\ Numbered(d)
  /\ \A i, j \in DOMAIN d : d[i].layout = d[j].layout => i = j

LEMMA NumberedFacts ==
  /\ \A d : Numbered(d) => /\ IsFiniteSet(DOMAIN d) /\ Cardinality(DOMAIN d) \in Nat
                           /\ DOMAIN d = 1..Cardinality(DOMAIN d)
                           /\ \A i \in DOMAIN d : d[i] \in Detail
  /\ \A n \in Nat : \A d \in [1..n -> Detail] : Numbered(d) /\ Cardinality(DOMAIN d) = n
<1>1. ASSUME NEW d, Numbered(d)
      PROVE  /\ IsFiniteSet(DOMAIN d) /\ Cardinality(DOMAIN d) \in Nat
             /\ DOMAIN d = 1..Cardinality(DOMAIN d)
             /\ \A i \in DOMAIN d : d[i] \in Detail
  <2>1. Cardinality(DOMAIN d) \in Nat BY <1>1, FS_CardinalityType DEF Numbered
  <2> QED BY <1>1, <2>1 DEF Numbered
<1>2. ASSUME NEW n \in Nat, NEW d \in [1..n -> Detail]
      PROVE  Numbered(d) /\ Cardinality(DOMAIN d) = n
  <2>1. DOMAIN d = 1..n OBVIOUS
  <2>2. IsFiniteSet(1..n) /\ Cardinality(1..n) = n
    <3>1. 1 \in Int /\ n \in Int OBVIOUS
    <3> QED BY <3>1, FS_Interval
  <2> QED BY <2>1, <2>2 DEF Numbered
<1> QED BY <1>1, <1>2

LEMMA NothingWell == Well(NoDetails) /\ Entries(NoDetails) = {} /\ LayoutsIn(NoDetails) = {}
<1>1. NoDetails \in [1..0 -> Detail] BY DEF NoDetails
<1>2. Numbered(NoDetails) BY <1>1, NumberedFacts
<1> QED BY <1>2 DEF Well, NoDetails, Entries, LayoutsIn

\* What is carried is exactly what was not asked for, numbered from the start.
LEMMA CarryFacts ==
  ASSUME NEW d, Well(d), NEW layouts, NEW e \in Carry(d, layouts)
  PROVE  /\ Well(e)
         /\ \A x \in Entries(d) : x.layout \notin layouts => x \in Entries(e)
         /\ \A x \in Entries(e) : x \in Entries(d) /\ x.layout \notin layouts
<1> DEFINE kept == {i \in DOMAIN d : d[i].layout \notin layouts}
           n == Cardinality(kept)
<1>1. /\ IsFiniteSet(DOMAIN d) /\ Cardinality(DOMAIN d) \in Nat
      /\ DOMAIN d = 1..Cardinality(DOMAIN d) /\ \A i \in DOMAIN d : d[i] \in Detail
  BY NumberedFacts DEF Well
<1>2. kept \in SUBSET Nat /\ IsFiniteSet(kept)
  <2>1. kept \subseteq DOMAIN d OBVIOUS
  <2> QED BY <1>1, <2>1, FS_Subset
<1>3. PICK f \in Enumerations(kept) : e = [i \in DOMAIN f |-> d[f[i]]]
  BY DEF Carry
<1>4. /\ n \in Nat /\ f \in [1..n -> kept]
      /\ \A i, j \in 1..n : f[i] = f[j] => i = j
      /\ \A s \in kept : \E i \in 1..n : f[i] = s
  BY <1>2, EnumerationFacts
<1> HIDE DEF n
<1>5. DOMAIN e = 1..n /\ \A i \in 1..n : e[i] = d[f[i]] BY <1>3, <1>4
<1>6. \A i \in 1..n : f[i] \in DOMAIN d /\ d[f[i]].layout \notin layouts BY <1>4
<1>7. e \in [1..n -> Detail] BY <1>1, <1>3, <1>4, <1>6
<1>8. Numbered(e) BY <1>4, <1>7, NumberedFacts
<1>9. \A i, j \in DOMAIN e : e[i].layout = e[j].layout => i = j
  BY <1>4, <1>5, <1>6 DEF Well
<1>10. \A x \in Entries(d) : x.layout \notin layouts => x \in Entries(e)
  <2> SUFFICES ASSUME NEW i \in DOMAIN d, d[i].layout \notin layouts PROVE d[i] \in Entries(e)
    BY DEF Entries
  <2>1. i \in kept OBVIOUS
  <2>2. PICK k \in 1..n : f[k] = i BY <1>4, <2>1
  <2> QED BY <1>5, <2>2 DEF Entries
<1>11. \A x \in Entries(e) : x \in Entries(d) /\ x.layout \notin layouts
  BY <1>5, <1>6 DEF Entries
<1> QED BY <1>8, <1>9, <1>10, <1>11 DEF Well

\* A new layout is entered under the next number, and nothing else changes.
LEMMA PutFacts ==
  ASSUME NEW d, Well(d), NEW x \in Detail, x.layout \notin LayoutsIn(d)
  PROVE  /\ Well(Put(d, x))
         /\ \A y : y \in Entries(Put(d, x)) <=> y \in Entries(d) \/ y = x
<1> DEFINE m == Cardinality(DOMAIN d)
           e == Put(d, x)
<1>1. m \in Nat /\ DOMAIN d = 1..m /\ \A i \in DOMAIN d : d[i] \in Detail
  BY NumberedFacts DEF Well
<1>2. e = [i \in DOMAIN d \cup {m + 1} |-> IF i = m + 1 THEN x ELSE d[i]] BY DEF Put
<1> HIDE DEF m, e
<1>3. DOMAIN d \cup {m + 1} = 1..(m + 1) BY <1>1
<1>4. /\ DOMAIN e = 1..(m + 1) /\ e[m + 1] = x
      /\ \A i \in 1..m : e[i] = d[i] /\ i # m + 1
  BY <1>1, <1>2, <1>3
<1>5. e \in [1..(m + 1) -> Detail] BY <1>1, <1>2, <1>3
<1>6. Numbered(e) /\ m + 1 \in Nat BY <1>1, <1>5, NumberedFacts
<1>7. \A i \in 1..(m + 1) : i = m + 1 \/ i \in 1..m BY <1>1
<1>8. \A i \in 1..m : d[i].layout # x.layout BY <1>1 DEF LayoutsIn
<1>9. \A i, j \in DOMAIN e : e[i].layout = e[j].layout => i = j
  BY <1>1, <1>4, <1>7, <1>8 DEF Well
<1>10. \A y : y \in Entries(e) <=> y \in Entries(d) \/ y = x
  <2>1. \A y : y \in Entries(e) <=> \E i \in 1..(m + 1) : y = e[i] BY <1>4 DEF Entries
  <2>2. \A y : y \in Entries(d) <=> \E i \in 1..m : y = d[i] BY <1>1 DEF Entries
  <2>3. m + 1 \in 1..(m + 1) /\ \A i \in 1..m : i \in 1..(m + 1) BY <1>1
  <2> QED BY <1>4, <1>7, <2>1, <2>2, <2>3
<1> QED BY <1>6, <1>9, <1>10 DEF Well, e

-----------------------------------------------------------------------------
\* The three places details are kept, each a well-formed record.
AllWell == Well(record) /\ Well(memory) /\ Well(manifest.details)

\* What is skipped covers what is restored, and everything not asked for.
Skips ==
  /\ LayoutsIn(manifest.details) \subseteq manifest.skip
  /\ pc = "load" => \A l \in Layouts : l \notin wanted => l \in manifest.skip
  /\ pc = "eval" /\ agree => \A l \in Layouts : l \notin wanted => l \in skip

\* What the evaluation holds: what it restored and what it has finished, never
\* the layout that is running.
Holds ==
  /\ pc = "eval" => LayoutsIn(memory) \subseteq skip \cup (ran \ {episode})
  /\ pc = "eval" /\ episode # NoLayout => episode \in ran /\ episode \notin skip
  /\ pc # "eval" => episode = NoLayout /\ ran = {}
  /\ pc # "off" => jobs >= 1

\* No result is missing: neither from the manifest nor from memory.
Carries ==
  agree => /\ pc = "load" => \A d \in Entries(record) : d.layout \notin wanted =>
                               d \in Entries(manifest.details)
           /\ pc = "eval" => \A d \in Entries(record) : d.layout \notin wanted =>
                               d \in Entries(memory)

JobInv == JobTypeOK /\ AllWell /\ Skips /\ Holds /\ Carries /\ OnlyWanted

USE LayoutsAssumption, JobsAssumption

LEMMA JobInitially == JobInit => JobInv
<1> SUFFICES ASSUME JobInit PROVE JobInv
  OBVIOUS
<1>1. /\ pc = "off" /\ wanted = {} /\ episode = NoLayout /\ ran = {} /\ jobs = 0 /\ skip = {}
      /\ manifest = [skip |-> {}, details |-> NoDetails]
      /\ record = NoDetails /\ memory = NoDetails
  BY DEF JobInit
<1>2. readable \in BOOLEAN /\ agree \in BOOLEAN BY DEF JobInit
<1>3. AllWell BY <1>1, NothingWell DEF AllWell
<1>4. JobTypeOK BY <1>1, <1>2, <1>3 DEF JobTypeOK, AllWell, Well
<1> QED BY <1>1, <1>3, <1>4, NothingWell DEF JobInv, Skips, Holds, Carries, OnlyWanted

LEMMA JobStep == JobInv /\ [JobNext]_jobVars => JobInv'
<1> SUFFICES ASSUME JobInv, [JobNext]_jobVars PROVE JobInv'
  OBVIOUS
<1>0. JobTypeOK /\ AllWell /\ Skips /\ Holds /\ Carries /\ OnlyWanted BY DEF JobInv
<1>1. ASSUME NEW layouts \in SUBSET Layouts, StartJob(layouts) PROVE JobInv'
  <2>1. /\ pc = "off" /\ pc' = "read" /\ wanted' = layouts /\ jobs' = jobs + 1 /\ jobs < MaxJobs
        /\ UNCHANGED <<manifest, record, readable, memory, skip, episode, ran, agree>>
    BY <1>1 DEF StartJob
  <2>2. jobs' \in 0..MaxJobs /\ jobs' >= 1 BY <1>0, <2>1 DEF JobTypeOK
  <2>3. JobTypeOK' BY <1>0, <2>1, <2>2 DEF JobTypeOK
  <2>4. AllWell' /\ Skips' /\ Carries' BY <1>0, <2>1 DEF AllWell, Skips, Carries
  <2>5. Holds' /\ OnlyWanted' BY <1>0, <2>1, <2>2 DEF Holds, OnlyWanted
  <2> QED BY <2>3, <2>4, <2>5 DEF JobInv
<1>2. CASE ReadRecord
  <2>1. /\ pc = "read" /\ pc' \in {"off", "write"} /\ wanted' \in {wanted, {}}
        /\ UNCHANGED <<manifest, record, readable, memory, skip, episode, ran, jobs, agree>>
    BY <1>2 DEF ReadRecord
  <2>2. JobTypeOK' BY <1>0, <2>1 DEF JobTypeOK
  <2>3. AllWell' /\ Skips' /\ Carries' BY <1>0, <2>1 DEF AllWell, Skips, Carries
  <2>4. Holds' /\ OnlyWanted' BY <1>0, <2>1 DEF Holds, OnlyWanted
  <2> QED BY <2>2, <2>3, <2>4 DEF JobInv
<1>3. CASE WriteManifest
  <2>1. /\ pc = "write" /\ pc' = "load"
        /\ UNCHANGED <<wanted, record, readable, memory, skip, episode, ran, jobs, agree>>
    BY <1>3 DEF WriteManifest
  <2> DEFINE known == IF agree THEN record ELSE NoDetails
  <2>2. PICK details \in Carry(known, wanted) :
          manifest' = [skip |-> Skip(details, wanted), details |-> details]
    BY <1>3 DEF WriteManifest
  <2>3. Well(known) BY <1>0, NothingWell DEF AllWell
  <2>4. known = record \/ ~agree OBVIOUS
  <2> HIDE DEF known
  <2>5. /\ Well(details)
        /\ \A x \in Entries(known) : x.layout \notin wanted => x \in Entries(details)
    BY <2>3, CarryFacts
  <2>6. \A i \in DOMAIN details : details[i] \in Detail BY <2>5, NumberedFacts DEF Well
  <2>7. LayoutsIn(details) \subseteq Layouts BY <2>6 DEF LayoutsIn, Detail
  <2>8. /\ manifest'.skip = LayoutsIn(details) \cup {l \in Layouts : l \notin wanted}
        /\ manifest'.details = details
    BY <2>2 DEF Skip
  <2>9. JobTypeOK' BY <1>0, <2>1, <2>5, <2>7, <2>8 DEF JobTypeOK, Well
  <2>10. AllWell' BY <1>0, <2>1, <2>5, <2>8 DEF AllWell
  <2>11. Skips' BY <2>1, <2>8 DEF Skips
  <2>12. Carries' BY <2>1, <2>4, <2>5, <2>8 DEF Carries
  <2>13. Holds' /\ OnlyWanted' BY <1>0, <2>1 DEF Holds, OnlyWanted
  <2> QED BY <2>9, <2>10, <2>11, <2>12, <2>13 DEF JobInv
<1>4. CASE LoadManifest
  <2>1. /\ pc = "load" /\ pc' = "eval"
        /\ memory' = IF agree THEN manifest.details ELSE NoDetails
        /\ skip' = IF agree THEN manifest.skip ELSE {}
        /\ UNCHANGED <<wanted, manifest, record, readable, episode, ran, jobs, agree>>
    BY <1>4 DEF LoadManifest
  <2>2. Well(memory') /\ LayoutsIn(memory') \subseteq skip'
    BY <1>0, <2>1, NothingWell DEF AllWell, Skips
  <2>3. JobTypeOK' BY <1>0, <2>1, <2>2 DEF JobTypeOK, Well
  <2>4. AllWell' BY <1>0, <2>1, <2>2 DEF AllWell
  <2>5. Skips' BY <1>0, <2>1 DEF Skips
  <2>6. Carries' BY <1>0, <2>1 DEF Carries
  <2>7. Holds' /\ OnlyWanted' BY <1>0, <2>1, <2>2 DEF Holds, OnlyWanted
  <2> QED BY <2>3, <2>4, <2>5, <2>6, <2>7 DEF JobInv
<1>5. ASSUME NEW l \in Layouts, StartEpisode(l) PROVE JobInv'
  <2>1. /\ pc = "eval" /\ episode = NoLayout /\ l \notin skip \cup ran
        /\ episode' = l /\ ran' = ran \cup {l}
        /\ UNCHANGED <<pc, wanted, manifest, record, readable, memory, skip, jobs, agree>>
    BY <1>5 DEF StartEpisode
  <2>2. JobTypeOK' BY <1>0, <2>1 DEF JobTypeOK
  <2>3. AllWell' /\ Skips' /\ Carries' BY <1>0, <2>1 DEF AllWell, Skips, Carries
  <2>4. LayoutsIn(memory) \subseteq skip \cup ran BY <1>0, <2>1 DEF Holds
  <2>5. Holds' BY <1>0, <2>1, <2>4 DEF Holds
  <2>6. agree => l \in wanted BY <1>0, <2>1 DEF Skips
  <2>7. OnlyWanted' BY <1>0, <2>1, <2>6 DEF OnlyWanted
  <2> QED BY <2>2, <2>3, <2>5, <2>7 DEF JobInv
<1>6. CASE EndEpisode
  <2> DEFINE new == [layout |-> episode, job |-> jobs]
  <2>1. /\ pc = "eval" /\ episode # NoLayout /\ episode' = NoLayout
        /\ memory' = Put(memory, new)
        /\ record' = memory' /\ readable' = TRUE
        /\ UNCHANGED <<pc, wanted, manifest, skip, ran, jobs, agree>>
    BY <1>6 DEF EndEpisode
  <2>2. new \in Detail
    <3>1. episode \in Layouts BY <1>0, <2>1 DEF JobTypeOK
    <3>2. jobs \in 1..MaxJobs BY <1>0, <2>1 DEF JobTypeOK, Holds
    <3> QED BY <3>1, <3>2 DEF Detail
  <2>3. episode \notin LayoutsIn(memory) BY <1>0, <2>1 DEF Holds
  <2>4. /\ Well(memory')
        /\ \A y : y \in Entries(memory') <=> y \in Entries(memory) \/ y = new
    BY <1>0, <2>1, <2>2, <2>3, PutFacts DEF AllWell
  <2>5. new.layout = episode OBVIOUS
  <2> HIDE DEF new
  <2>6. \A e : LayoutsIn(e) = {x.layout : x \in Entries(e)} BY DEF LayoutsIn, Entries
  <2>7. LayoutsIn(memory') \subseteq LayoutsIn(memory) \cup {episode}
    BY <2>4, <2>5, <2>6
  <2>8. AllWell' BY <1>0, <2>1, <2>4 DEF AllWell
  <2>9. JobTypeOK'
    <3>1. readable' \in BOOLEAN BY <1>0, <2>1 DEF JobTypeOK
    <3>2. Numbered(record') /\ Numbered(memory') BY <2>8 DEF AllWell, Well
    <3> QED BY <1>0, <2>1, <3>1, <3>2 DEF JobTypeOK
  <2>10. Skips' BY <1>0, <2>1 DEF Skips
  <2>11. Holds'
    <3>1. LayoutsIn(memory) \subseteq skip \cup ran /\ episode \in ran /\ jobs >= 1
      BY <1>0, <2>1 DEF Holds
    <3>2. NoLayout \notin ran BY <1>0 DEF JobTypeOK
    <3>3. LayoutsIn(memory') \subseteq skip \cup (ran \ {NoLayout}) BY <2>7, <3>1, <3>2
    <3> QED BY <2>1, <3>1, <3>3 DEF Holds
  <2>12. Carries'
    <3>1. Entries(record') = Entries(memory') BY <2>1
    <3> QED BY <2>1, <3>1 DEF Carries
  <2>13. OnlyWanted' BY <1>0, <2>1 DEF OnlyWanted
  <2> QED BY <2>8, <2>9, <2>10, <2>11, <2>12, <2>13 DEF JobInv
<1>7. CASE EndJob
  <2>1. /\ pc' = "off" /\ wanted' = {} /\ memory' = NoDetails /\ skip' = {}
        /\ episode' = NoLayout /\ ran' = {}
        /\ UNCHANGED <<manifest, record, readable, jobs, agree>>
    BY <1>7 DEF EndJob
  <2>2. AllWell' BY <1>0, <2>1, NothingWell DEF AllWell
  <2>3. JobTypeOK' BY <1>0, <2>1, <2>2 DEF JobTypeOK, AllWell, Well
  <2>4. Skips' /\ Carries' BY <1>0, <2>1 DEF Skips, Carries
  <2>5. Holds' /\ OnlyWanted' BY <2>1 DEF Holds, OnlyWanted
  <2> QED BY <2>2, <2>3, <2>4, <2>5 DEF JobInv
<1>8. CASE Spoil
  <2>1. /\ pc = "off" /\ readable' = FALSE
        /\ UNCHANGED <<pc, wanted, manifest, record, memory, skip, episode, ran, jobs, agree>>
    BY <1>8 DEF Spoil
  <2>2. JobTypeOK' BY <1>0, <2>1 DEF JobTypeOK
  <2>3. AllWell' /\ Skips' /\ Carries' BY <1>0, <2>1 DEF AllWell, Skips, Carries
  <2>4. Holds' /\ OnlyWanted' BY <1>0, <2>1 DEF Holds, OnlyWanted
  <2> QED BY <2>2, <2>3, <2>4 DEF JobInv
<1>9. CASE UNCHANGED jobVars
  BY <1>0, <1>9 DEF jobVars, JobInv, JobTypeOK, AllWell, Skips, Holds, Carries, OnlyWanted
<1> QED BY <1>1, <1>2, <1>3, <1>4, <1>5, <1>6, <1>7, <1>8, <1>9 DEF JobNext

THEOREM JobInvariant == JobSpec => []JobInv
BY JobInitially, JobStep, PTL DEF JobSpec

\* However often a run is killed and asked again, its record scores no layout
\* twice and is numbered without gaps.
THEOREM OncePerLayoutCorrect == JobSpec => []OncePerLayout
<1>1. JobInv => OncePerLayout BY DEF JobInv, AllWell, Well, OncePerLayout
<1> QED BY <1>1, JobInvariant, PTL

\* The evaluation runs nothing but what was asked for, provided both scripts
\* mean the same directory.
THEOREM OnlyWantedCorrect == JobSpec => []OnlyWanted
<1>1. JobInv => OnlyWanted BY DEF JobInv
<1> QED BY <1>1, JobInvariant, PTL

\* As long as both scripts mean one directory, a step of a job erases no result but
\* those of layouts it was asked to run.
LEMMA KeepsStep ==
  JobInv /\ [JobNext]_jobVars =>
    [agree => \A d \in Entries(record) : d.layout \notin wanted => d \in Entries(record')]_jobVars
<1> SUFFICES ASSUME JobInv, [JobNext]_jobVars, agree
             PROVE  \A d \in Entries(record) : d.layout \notin wanted => d \in Entries(record')
  OBVIOUS
<1>1. CASE EndEpisode
  <2>1. /\ pc = "eval" /\ record' = Put(memory, [layout |-> episode, job |-> jobs])
        /\ episode # NoLayout
    BY <1>1 DEF EndEpisode
  <2>2. \A d \in Entries(record) : d.layout \notin wanted => d \in Entries(memory)
    BY <2>1 DEF JobInv, Carries
  <2>3. [layout |-> episode, job |-> jobs] \in Detail
    <3>1. episode \in Layouts BY <2>1 DEF JobInv, JobTypeOK
    <3>2. jobs \in 1..MaxJobs BY <2>1 DEF JobInv, JobTypeOK, Holds
    <3> QED BY <3>1, <3>2 DEF Detail
  <2>4. episode \notin LayoutsIn(memory) /\ Well(memory)
    BY <2>1 DEF JobInv, Holds, AllWell
  <2>5. \A d \in Entries(memory) : d \in Entries(record')
    BY <2>1, <2>3, <2>4, PutFacts
  <2> QED BY <2>2, <2>5
<1>2. CASE ~EndEpisode
  <2>1. UNCHANGED record
    BY <1>2 DEF JobNext, StartJob, ReadRecord, WriteManifest, LoadManifest, StartEpisode,
                EndJob, Spoil, jobVars
  <2> QED BY <2>1
<1> QED BY <1>1, <1>2

\* When the script and the evaluation mean one directory, selecting layouts cannot
\* erase results: what a run has scored survives every later job of it that does
\* not ask for the same layout, however these are killed.
THEOREM KeepsResultsCorrect == JobSpec => KeepsResults
<1>1. JobInv /\ [JobNext]_jobVars =>
        [agree => \A d \in Entries(record) : d.layout \notin wanted =>
                    d \in Entries(record')]_jobVars
  BY KeepsStep
<1> QED BY <1>1, JobInvariant, PTL DEF JobSpec, KeepsResults

-----------------------------------------------------------------------------
(* The jobs and the recorders.                                                *)

FrameProofs == INSTANCE LiveFramesProofs WITH Dirs <- Layouts, NoDir <- NoLayout,
                                              MaxLives <- MaxJobs

\* A sweep is a run of jobs.
THEOREM SweepIsJobs == SweepSpec => JobSpec
<1>1. SweepInit => JobInit BY DEF SweepInit
<1>2. [SweepNext]_sweepVars => [JobNext]_jobVars
  BY DEF SweepNext, sweepVars, Begin, Observe, Finish, End, Prepare, JobNext
<1> QED BY <1>1, <1>2, PTL DEF SweepSpec, JobSpec

\* In each directory a sweep is a sequence of recorders, one at a time.
THEOREM SweepIsFrames == SweepSpec => Frames!FramesSpec
<1>1. SweepInit => Frames!FramesInit BY DEF SweepInit
<1>2. [SweepNext]_sweepVars => [Frames!FramesNext]_(Frames!frameVars)
  BY DEF SweepNext, sweepVars, recorderVars, Begin, Observe, Finish, End, Prepare,
         Frames!FramesNext, Frames!frameVars
<1> QED BY <1>1, <1>2, PTL DEF SweepSpec, Frames!FramesSpec

\* LiveFramesProofs speaks of the same recorder.
LEMMA SameInit == Frames!FramesInit => FrameProofs!FramesInit
BY DEF Frames!FramesInit, FrameProofs!FramesInit, Frames!NoRecorder, FrameProofs!NoRecorder,
       Frames!Cameras, FrameProofs!Cameras, Frames!Seqs, FrameProofs!Seqs

LEMMA SameStep ==
  [Frames!FramesNext]_(Frames!frameVars) => [FrameProofs!FramesNext]_(FrameProofs!frameVars)
<1>. USE DEF Frames!NoRecorder, FrameProofs!NoRecorder, Frames!Cameras, FrameProofs!Cameras,
             Frames!frameVars, FrameProofs!frameVars
<1>1. \A d \in Layouts : Frames!Construct(d) => FrameProofs!Construct(d)
  BY DEF Frames!Construct, FrameProofs!Construct
<1>2. Frames!Record => FrameProofs!Record BY DEF Frames!Record, FrameProofs!Record
<1>3. Frames!OpenImage => FrameProofs!OpenImage BY DEF Frames!OpenImage, FrameProofs!OpenImage
<1>4. Frames!CloseImage => FrameProofs!CloseImage
  BY DEF Frames!CloseImage, FrameProofs!CloseImage
<1>5. Frames!PassOver => FrameProofs!PassOver BY DEF Frames!PassOver, FrameProofs!PassOver
<1>6. Frames!NothingWritten => FrameProofs!NothingWritten
  BY DEF Frames!NothingWritten, FrameProofs!NothingWritten
<1>7. Frames!AppendLine => FrameProofs!AppendLine
  BY DEF Frames!AppendLine, FrameProofs!AppendLine
<1>8. Frames!WriteFails => FrameProofs!WriteFails
  BY DEF Frames!WriteFails, FrameProofs!WriteFails
<1>9. Frames!Drop => FrameProofs!Drop BY DEF Frames!Drop, FrameProofs!Drop
<1> QED
  BY <1>1, <1>2, <1>3, <1>4, <1>5, <1>6, <1>7, <1>8, <1>9
     DEF Frames!FramesNext, FrameProofs!FramesNext, Frames!FrameStep, FrameProofs!FrameStep

\* What is proved of the recorders of a directory holds of those of a sweep.
LEMMA SweepRecorders == SweepSpec => []FrameProofs!FramesInv
<1>1. FrameProofs!FramesAssumption
  BY SizesAssumption, LayoutsAssumption, JobsAssumption DEF FrameProofs!FramesAssumption
<1>2. FrameProofs!FramesSpec => []FrameProofs!FramesInv
  BY <1>1, FrameProofs!FramesInvariant
<1>3. Frames!FramesSpec => FrameProofs!FramesSpec
  BY SameInit, SameStep, PTL DEF Frames!FramesSpec, FrameProofs!FramesSpec
<1> QED BY <1>2, <1>3, SweepIsFrames, PTL

\* The state of the jobs and of the recorders keeps its type: the resume manifest
\* and the record stay numbered lists, a recorder stays within its cameras.
THEOREM SweepTypeCorrect == SweepSpec => []TypeOK
<1>1. JobInv => JobTypeOK BY DEF JobInv
<1>2. FrameProofs!FramesInv => Frames!FramesTypeOK
  BY DEF FrameProofs!FramesInv, FrameProofs!FramesTypeOK, Frames!FramesTypeOK,
         FrameProofs!Cameras, Frames!Cameras,
         FrameProofs!Seqs, Frames!Seqs, FrameProofs!File, Frames!File,
         FrameProofs!Line, Frames!Line
<1>3. JobTypeOK /\ Frames!FramesTypeOK => TypeOK BY DEF TypeOK
<1> QED BY <1>1, <1>2, <1>3, SweepIsJobs, JobInvariant, SweepRecorders, PTL

\* The first recorder of a layout's directory never shows a reader a half-written
\* image, whatever job of the run it belongs to and whenever that is killed.
THEOREM SweepFramesWhole == SweepSpec => []FirstRecorderWhole
<1>1. FrameProofs!FramesInv => FirstRecorderWhole
  BY DEF FrameProofs!FramesInv, FrameProofs!FirstRecorderWhole, FirstRecorderWhole,
         Frames!FirstRecorderWhole, FrameProofs!Shows, Frames!Shows
<1> QED BY <1>1, SweepRecorders, PTL

\* What is proved of the jobs holds of a run of them.
THEOREM SweepCorrect == SweepSpec => [](OncePerLayout /\ OnlyWanted) /\ KeepsResults
BY SweepIsJobs, OncePerLayoutCorrect, OnlyWantedCorrect, KeepsResultsCorrect, PTL
=============================================================================
