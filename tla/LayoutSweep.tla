------------------------------ MODULE LayoutSweep ------------------------------
(***************************************************************************)
(* A run of layout jobs whose episodes record live frames, as               *)
(* policy/GPT_6_Astra_Direct_EEF/run_fixed_layout.sh starts them: one frame *)
(* directory per layout (_transcript_path), shared by all jobs of the run.  *)
(***************************************************************************)
EXTENDS LayoutJob

CONSTANTS NumCameras, MaxFrames

ASSUME SizesAssumption == NumCameras \in Nat /\ MaxFrames \in Nat

VARIABLES rec, lives, image, index

Frames == INSTANCE LiveFrames WITH Dirs <- Layouts, NoDir <- NoLayout,
                                   MaxLives <- MaxJobs

recorderVars == <<rec, lives, image, index>>
sweepVars == <<jobVars, recorderVars>>

SweepInit == JobInit /\ Frames!FramesInit

\* An episode makes its recorder at its first observation.
Begin(l) == StartEpisode(l) /\ Frames!Construct(l)

Observe == episode # NoLayout /\ Frames!FrameStep /\ UNCHANGED jobVars

Finish == rec.pc = "idle" /\ EndEpisode /\ Frames!Drop

End == EndJob /\ Frames!Drop

Prepare ==
  /\ \/ \E layouts \in SUBSET Layouts : StartJob(layouts)
     \/ ReadRecord \/ WriteManifest \/ LoadManifest \/ Spoil
  /\ UNCHANGED recorderVars

SweepNext == (\E l \in Layouts : Begin(l)) \/ Observe \/ Finish \/ End \/ Prepare

SweepSpec == SweepInit /\ [][SweepNext]_sweepVars

\* Types of the composition.
TypeOK == JobTypeOK /\ Frames!FramesTypeOK

\* The properties of LiveFrames, of the sweep's directories.
FirstRecorderWhole == Frames!FirstRecorderWhole
IndexedNeverHalf == Frames!IndexedNeverHalf
=============================================================================
