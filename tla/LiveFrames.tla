------------------------------ MODULE LiveFrames ------------------------------
(***************************************************************************)
(* utils/live_frames.py: per directory, a JPEG per frame and camera and an  *)
(* append-only index, written by one LiveFrameRecorder at a time and read   *)
(* by the console at any moment.  An episode makes its own recorder         *)
(* (_live_frame_recorder), also in a directory an earlier one has used.     *)
(***************************************************************************)
EXTENDS Naturals, FiniteSets

CONSTANTS Dirs,       \* frame directories
          NoDir,      \* no recorder
          NumCameras, \* camera directories, in the order they are written
          MaxFrames,  \* frames of an episode (bound)
          MaxLives    \* recorders made in one directory (bound)

\* What the constants must be: a premise of the theorems, and true of every
\* instance, LayoutSweep's above all.
FramesAssumption ==
  /\ NoDir \notin Dirs
  /\ NumCameras \in Nat /\ MaxFrames \in Nat /\ MaxLives \in Nat

VARIABLES
  rec,    \* the recorder: its directory, number, seq, whether it is enabled, what
          \* record() is doing, the camera it is at and those it has written
  lives,  \* recorders made in each directory
  image,  \* the files: who wrote each last, and whether it is closed
  index   \* the lines of index.jsonl

frameVars == <<rec, lives, image, index>>

Cameras == 1..NumCameras
Seqs == 0..(MaxFrames - 1)
File == [life : 0..MaxLives, whole : BOOLEAN]     \* life 0: no such file
Line == [life : 1..MaxLives, seq : Seqs, cameras : SUBSET Cameras]

FramesTypeOK ==
  /\ rec \in [dir : Dirs \cup {NoDir}, life : 0..MaxLives, seq : 0..MaxFrames,
              enabled : BOOLEAN, pc : {"idle", "images", "file", "index"},
              camera : 1..(NumCameras + 1), written : SUBSET Cameras]
  /\ lives \in [Dirs -> 0..MaxLives]
  /\ image \in [Dirs -> [Cameras -> [Seqs -> File]]]
  /\ index \in [Dirs -> SUBSET Line]

NoRecorder == [dir |-> NoDir, life |-> 0, seq |-> 0, enabled |-> FALSE, pc |-> "idle",
               camera |-> 1, written |-> {}]

FramesInit ==
  /\ rec = NoRecorder /\ lives = [d \in Dirs |-> 0]
  /\ image = [d \in Dirs |-> [c \in Cameras |-> [s \in Seqs |->
                [life |-> 0, whole |-> FALSE]]]]
  /\ index = [d \in Dirs |-> {}]

\* LiveFrameRecorder(root): seq starts at 0 whatever the directory holds.
Construct(d) ==
  /\ rec = NoRecorder /\ lives[d] < MaxLives
  /\ lives' = [lives EXCEPT ![d] = @ + 1]
  /\ rec' = [NoRecorder EXCEPT !.dir = d, !.life = lives[d] + 1, !.enabled = TRUE]
  /\ UNCHANGED <<image, index>>

\* record(images), switched off after an error.
Record ==
  /\ rec.dir # NoDir /\ rec.pc = "idle" /\ rec.enabled /\ rec.seq < MaxFrames
  /\ rec' = [rec EXCEPT !.pc = "images", !.camera = 1, !.written = {}]
  /\ UNCHANGED <<lives, image, index>>

\* _write_images: the file is created or truncated; a frame that is no image is
\* passed over.
OpenImage ==
  /\ rec.pc = "images" /\ rec.camera \in Cameras
  /\ rec' = [rec EXCEPT !.pc = "file", !.written = @ \cup {rec.camera}]
  /\ image' = [image EXCEPT ![rec.dir][rec.camera][rec.seq] =
                 [life |-> rec.life, whole |-> FALSE]]
  /\ UNCHANGED <<lives, index>>

CloseImage ==
  /\ rec.pc = "file"
  /\ rec' = [rec EXCEPT !.pc = "images", !.camera = @ + 1]
  /\ image' = [image EXCEPT ![rec.dir][rec.camera][rec.seq] =
                 [life |-> rec.life, whole |-> TRUE]]
  /\ UNCHANGED <<lives, index>>

PassOver ==
  /\ rec.pc = "images" /\ rec.camera \in Cameras
  /\ rec' = [rec EXCEPT !.camera = @ + 1]
  /\ UNCHANGED <<lives, image, index>>

\* No image at all: no line.
NothingWritten ==
  /\ rec.pc = "images" /\ rec.camera \notin Cameras /\ rec.written = {}
  /\ rec' = [rec EXCEPT !.pc = "idle"]
  /\ UNCHANGED <<lives, image, index>>

\* The line follows the images.
\* (mutant: it is appended before the last image is closed)
AppendLineEarly ==
  /\ rec.pc \in {"images", "file"} /\ rec.camera + 1 \notin Cameras
  /\ rec.written # {}
  /\ rec' = [rec EXCEPT !.pc = "idle", !.seq = @ + 1]
  /\ index' = [index EXCEPT ![rec.dir] =
                 @ \cup {[life |-> rec.life, seq |-> rec.seq, cameras |-> rec.written]}]
  /\ UNCHANGED <<lives, image>>

AppendLine ==
  /\ rec.pc = "images" /\ rec.camera \notin Cameras /\ rec.written # {}
  /\ rec' = [rec EXCEPT !.pc = "idle", !.seq = @ + 1]
  /\ index' = [index EXCEPT ![rec.dir] =
                 @ \cup {[life |-> rec.life, seq |-> rec.seq, cameras |-> rec.written]}]
  /\ UNCHANGED <<lives, image>>

\* A write fails: the files stay as they are, the recorder is off (_disable).
WriteFails ==
  /\ rec.pc # "idle"
  /\ rec' = [rec EXCEPT !.pc = "idle", !.enabled = FALSE]
  /\ UNCHANGED <<lives, image, index>>

\* The episode is over, or its process is killed.
Drop ==
  /\ rec' = NoRecorder
  /\ UNCHANGED <<lives, image, index>>

FrameStep ==
  \/ Record \/ OpenImage \/ CloseImage \/ PassOver \/ NothingWritten
  \/ AppendLine \/ WriteFails

FramesNext == (\E d \in Dirs : Construct(d)) \/ FrameStep \/ Drop

FramesSpec == FramesInit /\ [][FramesNext]_frameVars

-----------------------------------------------------------------------------
Shows(d, line) ==
  \A c \in line.cameras :
    image[d][c][line.seq] = [life |-> line.life, whole |-> TRUE]

\* "A reader that trusts the index never sees a half-written JPEG" (class
\* docstring), in a directory only one recorder has used: every file a line
\* names is closed and holds that line's frame, whatever failed or was killed.
FirstRecorderWhole ==
  \A d \in Dirs : lives[d] <= 1 => \A line \in index[d] : Shows(d, line)

\* The same sentence without that premise, for half-written files only.
IndexedNeverHalf ==
  \A d \in Dirs : \A line \in index[d] : \A c \in line.cameras :
    image[d][c][line.seq].whole
=============================================================================
