---------------------------- MODULE LiveFramesProofs ----------------------------
(* Proofs about LiveFrames, for every number of cameras, frames, recorders.   *)
EXTENDS LiveFrames, TLAPS

Recorder == [dir : Dirs \cup {NoDir}, life : 0..MaxLives, seq : 0..MaxFrames,
             enabled : BOOLEAN, pc : {"idle", "images", "file", "index"},
             camera : 1..(NumCameras + 1), written : SUBSET Cameras]

Writing == rec.pc \in {"images", "file"}

\* Where the recorder is: it belongs to the last life of its directory, and its
\* position is within the frame.
Placed ==
  /\ rec.dir = NoDir => rec = NoRecorder
  /\ rec.dir # NoDir => rec.life = lives[rec.dir] /\ rec.life >= 1
  /\ rec.pc # "idle" => rec.seq < MaxFrames /\ Writing
  /\ rec.pc = "file" => rec.camera \in Cameras

\* The images of the frame it is writing: those it is past are closed with
\* its picture, and it has been to no other but the one it is at.
Written ==
  Writing =>
    /\ \A c \in rec.written : c < rec.camera \/ (c = rec.camera /\ rec.pc = "file")
    /\ \A c \in rec.written : c < rec.camera =>
         image[rec.dir][c][rec.seq] = [life |-> rec.life, whole |-> TRUE]

\* In a directory with one recorder so far, no line is about the frame that is
\* being written or about one to come; without a recorder there is no line.
Behind ==
  /\ \A d \in Dirs : lives[d] = 0 => index[d] = {}
  /\ \A d \in Dirs : lives[d] <= 1 =>
       \A line \in index[d] : rec.dir = d => line.seq < rec.seq

FramesInv == FramesTypeOK /\ Placed /\ Written /\ Behind /\ FirstRecorderWhole

LEMMA RecorderType == FramesAssumption => NoRecorder \in Recorder
BY DEF FramesAssumption, NoRecorder, Recorder, Cameras

LEMMA FramesInitially == FramesAssumption /\ FramesInit => FramesInv
<1> SUFFICES ASSUME FramesAssumption, FramesInit PROVE FramesInv
  OBVIOUS
<1>1. rec = NoRecorder /\ rec \in Recorder BY RecorderType DEF FramesInit
<1>2. lives \in [Dirs -> 0..MaxLives] /\ index \in [Dirs -> SUBSET Line]
  BY DEF FramesInit, FramesAssumption
<1>3. image \in [Dirs -> [Cameras -> [Seqs -> File]]]
  <2>1. [life |-> 0, whole |-> FALSE] \in File BY DEF File, FramesAssumption
  <2> QED BY <2>1 DEF FramesInit
<1>4. FramesTypeOK BY <1>1, <1>2, <1>3 DEF FramesTypeOK, Recorder
<1>5. \A d \in Dirs : index[d] = {} BY DEF FramesInit
<1>6. rec.dir = NoDir /\ rec.pc = "idle" BY <1>1 DEF NoRecorder
<1>7. FirstRecorderWhole BY <1>5 DEF FirstRecorderWhole
<1> QED BY <1>1, <1>4, <1>5, <1>6, <1>7
        DEF FramesInv, Placed, Written, Writing, Behind, FirstRecorderWhole

\* A step that leaves files, index and lives alone, and writes nothing new.
LEMMA RecorderStep ==
  ASSUME FramesAssumption, FramesInv, rec' \in Recorder, UNCHANGED <<lives, image, index>>,
         Placed', Written', rec'.dir = rec.dir, rec'.seq = rec.seq
  PROVE  FramesInv'
<1>1. FramesTypeOK' BY DEF FramesInv, FramesTypeOK, Recorder
<1>2. Behind' BY DEF FramesInv, Behind
<1>3. FirstRecorderWhole' BY DEF FramesInv, FirstRecorderWhole, Shows
<1> QED BY <1>1, <1>2, <1>3 DEF FramesInv

\* A step that writes one image of the frame under way.
LEMMA ImageStep ==
  ASSUME FramesAssumption, FramesInv, Writing, rec.camera \in Cameras, NEW file \in File,
         image' = [image EXCEPT ![rec.dir][rec.camera][rec.seq] = file],
         rec' \in Recorder, UNCHANGED <<lives, index>>,
         Placed', Written', rec'.dir = rec.dir, rec'.seq = rec.seq
  PROVE  FramesInv'
<1>1. /\ rec \in Recorder /\ index \in [Dirs -> SUBSET Line]
      /\ image \in [Dirs -> [Cameras -> [Seqs -> File]]]
  BY DEF FramesInv, FramesTypeOK, Recorder
<1>2. rec.dir \in Dirs /\ rec.seq \in Seqs
  BY <1>1 DEF FramesInv, Placed, Writing, NoRecorder, Recorder, Seqs, FramesAssumption
<1>3. image' \in [Dirs -> [Cameras -> [Seqs -> File]]] BY <1>1, <1>2
<1>4. FramesTypeOK' BY <1>3 DEF FramesInv, FramesTypeOK, Recorder
<1>5. Behind' BY DEF FramesInv, Behind
<1>6. ASSUME NEW d \in Dirs, lives[d] <= 1, NEW line \in index[d] PROVE Shows(d, line)'
  <2>1. Shows(d, line) BY <1>6 DEF FramesInv, FirstRecorderWhole
  <2>2. line \in Line BY <1>1, <1>6
  <2>3. d = rec.dir => line.seq # rec.seq
    BY <1>1, <1>2, <1>6, <2>2 DEF FramesInv, Behind, Line, Seqs, Recorder, FramesAssumption
  <2>4. \A c \in line.cameras : image'[d][c][line.seq] = image[d][c][line.seq]
    BY <1>1, <1>2, <2>2, <2>3 DEF Line
  <2> QED BY <2>1, <2>4 DEF Shows
<1>7. FirstRecorderWhole' BY <1>6 DEF FirstRecorderWhole
<1> QED BY <1>4, <1>5, <1>7 DEF FramesInv

LEMMA FramesStep == FramesAssumption /\ FramesInv /\ [FramesNext]_frameVars => FramesInv'
<1> SUFFICES ASSUME FramesAssumption, FramesInv, [FramesNext]_frameVars PROVE FramesInv'
  OBVIOUS
<1>0. /\ rec \in Recorder /\ lives \in [Dirs -> 0..MaxLives]
      /\ image \in [Dirs -> [Cameras -> [Seqs -> File]]]
      /\ index \in [Dirs -> SUBSET Line]
  BY DEF FramesInv, FramesTypeOK, Recorder
<1>a. Placed /\ Written /\ Behind /\ FirstRecorderWhole BY DEF FramesInv
<1>b. NumCameras \in Nat /\ MaxFrames \in Nat /\ MaxLives \in Nat /\ NoDir \notin Dirs
  BY DEF FramesAssumption
<1>c. Writing => rec.dir \in Dirs /\ rec.seq \in Seqs /\ rec.life = lives[rec.dir] /\ rec.life >= 1
  BY <1>0, <1>a, <1>b DEF Placed, Writing, NoRecorder, Recorder, Seqs
<1>1. ASSUME NEW d \in Dirs, Construct(d) PROVE FramesInv'
  <2>1. /\ rec = NoRecorder /\ lives[d] < MaxLives
        /\ lives' = [lives EXCEPT ![d] = @ + 1]
        /\ UNCHANGED <<image, index>>
    BY <1>1 DEF Construct
  <2>2. /\ rec' \in Recorder /\ rec'.dir = d /\ rec'.life = lives[d] + 1
        /\ rec'.pc = "idle"
    <3>1. rec' = [dir |-> d, life |-> lives[d] + 1, seq |-> 0, enabled |-> TRUE,
                  pc |-> "idle", camera |-> 1, written |-> {}]
      BY <1>1 DEF Construct, NoRecorder
    <3>2. lives[d] + 1 \in 0..MaxLives BY <1>0, <1>b, <2>1
    <3>3. 0 \in 0..MaxFrames /\ 1 \in 1..(NumCameras + 1) BY <1>b
    <3> QED BY <3>1, <3>2, <3>3 DEF Recorder
  <2>3. lives' \in [Dirs -> 0..MaxLives] /\ lives'[d] = lives[d] + 1 BY <1>0, <1>b, <2>1
  <2>4. FramesTypeOK' BY <1>0, <2>1, <2>2, <2>3 DEF FramesTypeOK, Recorder
  <2>5. Placed' BY <1>0, <1>b, <2>2, <2>3 DEF Placed
  <2>6. Written' BY <2>2 DEF Written, Writing
  <2>7. \A e \in Dirs : lives'[e] = IF e = d THEN lives[d] + 1 ELSE lives[e] BY <1>0, <2>1
  <2>8. Behind'
    <3>0. \A e \in Dirs : lives[e] \in Nat BY <1>0, <1>b
    <3>1. \A e \in Dirs : lives'[e] = 0 => lives[e] = 0 BY <2>7, <3>0
    <3>2. \A e \in Dirs : lives'[e] <= 1 /\ e = d => lives[e] = 0 BY <2>7, <3>0
    <3> QED BY <1>a, <2>1, <2>2, <3>1, <3>2 DEF Behind
  <2>9. FirstRecorderWhole'
    <3>1. \A e \in Dirs : lives'[e] <= 1 => lives[e] <= 1 BY <1>0, <1>b, <2>7
    <3> QED BY <1>a, <2>1, <3>1 DEF FirstRecorderWhole, Shows
  <2> QED BY <2>4, <2>5, <2>6, <2>8, <2>9 DEF FramesInv
<1>2. CASE Record
  <2>1. /\ rec' \in Recorder /\ rec'.dir = rec.dir /\ rec'.seq = rec.seq /\ rec'.life = rec.life
        /\ rec'.pc = "images" /\ rec'.camera = 1 /\ rec'.written = {}
        /\ rec.dir # NoDir /\ rec.seq < MaxFrames
    <3>1. 1 \in 1..(NumCameras + 1) BY <1>b
    <3>2. /\ rec' = [rec EXCEPT !.pc = "images", !.camera = 1, !.written = {}]
          /\ rec.dir # NoDir /\ rec.seq < MaxFrames
      BY <1>2 DEF Record
    <3> QED BY <1>0, <3>1, <3>2 DEF Recorder
  <2>2. UNCHANGED <<lives, image, index>> BY <1>2 DEF Record
  <2>3. Placed' BY <1>a, <2>1, <2>2 DEF Placed, Writing
  <2>4. Written' BY <2>1 DEF Written, Writing
  <2> QED BY <2>1, <2>2, <2>3, <2>4, RecorderStep
<1>3. CASE OpenImage
  <2>1. /\ rec' \in Recorder /\ rec'.dir = rec.dir /\ rec'.seq = rec.seq /\ rec'.life = rec.life
        /\ rec'.pc = "file" /\ rec'.camera = rec.camera
        /\ rec'.written = rec.written \cup {rec.camera}
        /\ rec.pc = "images" /\ rec.camera \in Cameras
    BY <1>0, <1>3 DEF OpenImage, Recorder
  <2>2. /\ image' = [image EXCEPT ![rec.dir][rec.camera][rec.seq] =
                       [life |-> rec.life, whole |-> FALSE]]
        /\ UNCHANGED <<lives, index>>
    BY <1>3 DEF OpenImage
  <2>3. [life |-> rec.life, whole |-> FALSE] \in File BY <1>0 DEF Recorder, File
  <2>4. Writing BY <2>1 DEF Writing
  <2>5. Placed' BY <1>a, <1>c, <2>1, <2>2, <2>4, <1>b DEF Placed, Writing
  <2>6. /\ image'[rec.dir][rec.camera][rec.seq] = [life |-> rec.life, whole |-> FALSE]
        /\ \A c \in Cameras : c # rec.camera =>
             image'[rec.dir][c][rec.seq] = image[rec.dir][c][rec.seq]
    BY <1>0, <1>c, <2>1, <2>2, <2>4
  <2>7. rec.written \subseteq Cameras /\ Cameras \subseteq Nat BY <1>0, <1>b DEF Recorder, Cameras
  <2>8. \A c \in rec.written : c < rec.camera BY <1>a, <2>1, <2>4 DEF Written
  <2>9. \A c \in rec.written :
          image'[rec.dir][c][rec.seq] = [life |-> rec.life, whole |-> TRUE]
    <3> SUFFICES ASSUME NEW c \in rec.written
                 PROVE  image'[rec.dir][c][rec.seq] = [life |-> rec.life, whole |-> TRUE]
      OBVIOUS
    <3>1. c < rec.camera /\ c \in Cameras /\ c \in Nat /\ rec.camera \in Nat
      BY <2>1, <2>7, <2>8
    <3>2. c # rec.camera BY <3>1
    <3>3. image[rec.dir][c][rec.seq] = [life |-> rec.life, whole |-> TRUE]
      BY <1>a, <2>4, <3>1 DEF Written
    <3> QED BY <2>6, <3>1, <3>2, <3>3
  <2>10. Written'
    <3>1. \A c \in rec'.written : c \in rec.written \/ c = rec.camera BY <2>1
    <3>2. ~(rec.camera < rec.camera)
      <4>1. rec.camera \in Nat BY <2>1, <2>7
      <4> QED BY <4>1
    <3>4. \A c \in rec'.written : c < rec'.camera \/ (c = rec'.camera /\ rec'.pc = "file")
      BY <2>1, <2>8, <3>1
    <3>5. \A c \in rec'.written : c < rec'.camera =>
            image'[rec'.dir][c][rec'.seq] = [life |-> rec'.life, whole |-> TRUE]
      <4> SUFFICES ASSUME NEW c \in rec'.written, c < rec'.camera
                   PROVE  image'[rec'.dir][c][rec'.seq] = [life |-> rec'.life, whole |-> TRUE]
        OBVIOUS
      <4>1. c \in rec.written BY <2>1, <3>1, <3>2
      <4> QED BY <2>1, <2>9, <4>1
    <3> QED BY <3>4, <3>5 DEF Written
  <2> QED BY <2>1, <2>2, <2>3, <2>4, <2>5, <2>10, ImageStep
<1>4. CASE CloseImage
  <2>1. rec.pc = "file" /\ rec.camera \in Cameras BY <1>4, <1>a DEF CloseImage, Placed
  <2>2. /\ rec' \in Recorder /\ rec'.dir = rec.dir /\ rec'.seq = rec.seq /\ rec'.life = rec.life
        /\ rec'.pc = "images" /\ rec'.camera = rec.camera + 1 /\ rec'.written = rec.written
    <3>1. rec.camera + 1 \in 1..(NumCameras + 1) BY <1>b, <2>1 DEF Cameras
    <3>2. rec' = [rec EXCEPT !.pc = "images", !.camera = @ + 1] BY <1>4 DEF CloseImage
    <3> QED BY <1>0, <3>1, <3>2 DEF Recorder
  <2>3. Writing BY <2>1 DEF Writing
  <2>6. DEFINE file == [life |-> rec.life, whole |-> TRUE]
  <2>7. file \in File BY <1>0 DEF Recorder, File
  <2>9. image' = [image EXCEPT ![rec.dir][rec.camera][rec.seq] = file] /\ UNCHANGED <<lives, index>>
    BY <1>4 DEF CloseImage
  <2> HIDE DEF file
  <2>10. Placed' BY <1>a, <1>c, <2>2, <2>3, <2>9, <1>b DEF Placed, Writing
  <2>11. /\ image'[rec.dir][rec.camera][rec.seq] = file
         /\ \A c \in Cameras : c # rec.camera =>
              image'[rec.dir][c][rec.seq] = image[rec.dir][c][rec.seq]
    BY <1>0, <1>c, <2>1, <2>3, <2>9
  <2>12. \A c \in rec.written : c \in Cameras BY <1>0 DEF Recorder
  <2>13. \A c \in rec.written : c < rec.camera + 1 /\ image'[rec.dir][c][rec.seq] = file
    <3> SUFFICES ASSUME NEW c \in rec.written
                 PROVE  c < rec.camera + 1 /\ image'[rec.dir][c][rec.seq] = file
      OBVIOUS
    <3>1. c \in Nat /\ rec.camera \in Nat /\ c \in Cameras BY <1>b, <2>1, <2>12 DEF Cameras
    <3>2. c < rec.camera \/ c = rec.camera BY <1>a, <2>3 DEF Written
    <3>3. CASE c = rec.camera BY <2>11, <3>1, <3>3
    <3>4. CASE c < rec.camera
      <4>1. image[rec.dir][c][rec.seq] = file BY <1>a, <2>3, <3>4 DEF Written, file
      <4>2. c # rec.camera BY <3>1, <3>4
      <4> QED BY <2>11, <3>1, <3>4, <4>1, <4>2
    <3> QED BY <3>2, <3>3, <3>4
  <2>14. Written' BY <2>2, <2>13 DEF Written, Writing, file
  <2> QED BY <2>1, <2>2, <2>3, <2>7, <2>9, <2>10, <2>14, ImageStep
<1>5. CASE PassOver
  <2>1. /\ rec' \in Recorder /\ rec'.dir = rec.dir /\ rec'.seq = rec.seq /\ rec'.life = rec.life
        /\ rec'.pc = "images" /\ rec'.camera = rec.camera + 1 /\ rec'.written = rec.written
        /\ rec.pc = "images"
    <3>1. rec.pc = "images" /\ rec.camera \in Cameras BY <1>5 DEF PassOver
    <3>2. rec.camera + 1 \in 1..(NumCameras + 1) BY <1>b, <3>1 DEF Cameras
    <3>3. rec' = [rec EXCEPT !.camera = @ + 1] BY <1>5 DEF PassOver
    <3> QED BY <1>0, <3>1, <3>2, <3>3 DEF Recorder
  <2>2. UNCHANGED <<lives, image, index>> BY <1>5 DEF PassOver
  <2>3. Placed' BY <1>a, <1>c, <1>b, <2>1, <2>2 DEF Placed, Writing
  <2>4. \A c \in rec.written : c \in Nat /\ rec.camera \in Nat
    BY <1>0, <1>b DEF Recorder, Cameras
  <2>5. \A c \in rec.written : c < rec.camera BY <1>a, <2>1 DEF Written, Writing
  <2>6. \A c \in rec.written : c < rec.camera + 1 BY <2>4, <2>5
  <2>7. \A c \in rec.written :
          image[rec.dir][c][rec.seq] = [life |-> rec.life, whole |-> TRUE]
    BY <1>a, <2>1, <2>5 DEF Written, Writing
  <2>8. Written' BY <2>1, <2>2, <2>6, <2>7 DEF Written, Writing
  <2> QED BY <2>1, <2>2, <2>3, <2>8, RecorderStep
<1>6. ASSUME NothingWritten \/ WriteFails PROVE FramesInv'
  <2>1. /\ rec' \in Recorder /\ rec'.dir = rec.dir /\ rec'.seq = rec.seq /\ rec'.life = rec.life
        /\ rec'.pc = "idle" /\ rec.pc # "idle"
    BY <1>0, <1>6 DEF NothingWritten, WriteFails, Recorder
  <2>2. UNCHANGED <<lives, image, index>> BY <1>6 DEF NothingWritten, WriteFails
  <2>3. Writing BY <1>a, <2>1 DEF Placed
  <2>4. Placed' BY <1>b, <1>c, <2>1, <2>2, <2>3 DEF Placed
  <2>5. Written' BY <2>1 DEF Written, Writing
  <2> QED BY <2>1, <2>2, <2>4, <2>5, RecorderStep
<1>7. CASE AppendLine
  <2>1. DEFINE new == [life |-> rec.life, seq |-> rec.seq, cameras |-> rec.written]
  <2>2. /\ rec.pc = "images" /\ rec.camera \notin Cameras
        /\ index' = [index EXCEPT ![rec.dir] = @ \cup {new}] /\ UNCHANGED <<lives, image>>
    BY <1>7 DEF AppendLine
  <2>3. Writing BY <2>2 DEF Writing
  <2>4. rec.seq < MaxFrames BY <1>a, <2>2 DEF Placed
  <2>5. /\ rec' \in Recorder /\ rec'.dir = rec.dir /\ rec'.seq = rec.seq + 1 /\ rec'.life = rec.life
        /\ rec'.pc = "idle"
    <3>1. rec.seq + 1 \in 0..MaxFrames BY <1>0, <1>b, <2>4 DEF Recorder
    <3>2. rec' = [rec EXCEPT !.pc = "idle", !.seq = @ + 1] BY <1>7 DEF AppendLine
    <3> QED BY <1>0, <3>1, <3>2 DEF Recorder
  <2>6. new \in Line
    <3>1. rec.life \in 1..MaxLives BY <1>0, <1>b, <1>c, <2>3 DEF Recorder
    <3> QED BY <3>1, <1>0, <1>c, <2>3 DEF Line, Recorder
  <2>7. index' \in [Dirs -> SUBSET Line] BY <1>0, <1>c, <2>2, <2>3, <2>6
  <2>8. FramesTypeOK' BY <1>0, <2>2, <2>5, <2>7 DEF FramesTypeOK, Recorder
  <2>9. Placed' BY <1>b, <1>c, <2>2, <2>3, <2>5 DEF Placed
  <2>10. Written' BY <2>5 DEF Written, Writing
  <2>11. \A d \in Dirs : index'[d] = IF d = rec.dir THEN index[d] \cup {new} ELSE index[d]
    BY <1>0, <1>c, <2>2, <2>3
  <2>12. Behind'
    <3>1. rec.seq \in Nat /\ \A d \in Dirs : \A line \in index[d] : line.seq \in Nat
      BY <1>0, <1>b DEF Recorder, Line, Seqs
    <3>2. new.seq = rec.seq OBVIOUS
    <3> HIDE DEF new
    <3>3. lives[rec.dir] # 0 BY <1>0, <1>b, <1>c, <2>3 DEF Recorder
    <3>4. ASSUME NEW d \in Dirs, lives[d] <= 1, NEW line \in index'[d], rec.dir = d
          PROVE  line.seq < rec.seq + 1
      <4>1. CASE line = new BY <3>1, <3>2, <4>1
      <4>2. CASE line \in index[d] BY <1>a, <3>1, <3>4, <4>2 DEF Behind
      <4> QED BY <2>11, <3>4, <4>1, <4>2
    <3>5. \A d \in Dirs : lives[d] = 0 => index'[d] = {} BY <1>a, <2>11, <3>3 DEF Behind
    <3> QED BY <2>2, <2>5, <3>4, <3>5 DEF Behind
  <2>13. \A c \in rec.written :
           image[rec.dir][c][rec.seq] = [life |-> rec.life, whole |-> TRUE]
    BY <1>a, <2>2, <2>3 DEF Written
  <2>14. Shows(rec.dir, new) BY <2>13 DEF Shows
  <2>15. FirstRecorderWhole'
    <3> HIDE DEF new
    <3>1. ASSUME NEW d \in Dirs, lives[d] <= 1, NEW line \in index'[d] PROVE Shows(d, line)
      BY <1>a, <2>11, <2>14, <3>1 DEF FirstRecorderWhole
    <3> QED BY <2>2, <3>1 DEF FirstRecorderWhole, Shows
  <2> QED BY <2>8, <2>9, <2>10, <2>12, <2>15 DEF FramesInv
<1>8. CASE Drop
  <2>1. rec' = NoRecorder /\ UNCHANGED <<lives, image, index>> BY <1>8 DEF Drop
  <2>2. rec' \in Recorder BY <2>1, RecorderType
  <2>3. rec'.dir = NoDir /\ rec'.pc = "idle" BY <2>1 DEF NoRecorder
  <2>4. FramesTypeOK' BY <1>0, <2>1, <2>2 DEF FramesTypeOK, Recorder
  <2>5. Placed' /\ Written' BY <2>1, <2>3 DEF Placed, Written, Writing
  <2>6. Behind' BY <1>a, <1>b, <2>1, <2>3 DEF Behind
  <2>7. FirstRecorderWhole' BY <1>a, <2>1 DEF FirstRecorderWhole, Shows
  <2> QED BY <2>4, <2>5, <2>6, <2>7 DEF FramesInv
<1>9. CASE UNCHANGED frameVars
  <2>1. UNCHANGED <<rec, lives, image, index>> BY <1>9 DEF frameVars
  <2>2. FramesTypeOK' BY <1>0, <2>1 DEF FramesTypeOK, Recorder
  <2>3. Placed' /\ Written' BY <1>a, <2>1 DEF Placed, Written, Writing
  <2>4. Behind' /\ FirstRecorderWhole' BY <1>a, <2>1 DEF Behind, FirstRecorderWhole, Shows
  <2> QED BY <2>2, <2>3, <2>4 DEF FramesInv
<1> QED BY <1>1, <1>2, <1>3, <1>4, <1>5, <1>6, <1>7, <1>8, <1>9 DEF FramesNext, FrameStep

THEOREM FramesInvariant == ASSUME FramesAssumption PROVE FramesSpec => []FramesInv
<1>1. FramesInit => FramesInv BY FramesInitially
<1>2. FramesInv /\ [FramesNext]_frameVars => FramesInv' BY FramesStep
<1> QED BY <1>1, <1>2, PTL DEF FramesSpec

\* A directory that only one recorder has used never shows a reader of its index
\* a half-written or foreign image, whatever failed or was killed.
THEOREM FirstRecorderCorrect ==
  ASSUME FramesAssumption PROVE FramesSpec => []FirstRecorderWhole
<1>1. FramesInv => FirstRecorderWhole BY DEF FramesInv
<1>2. FramesSpec => []FramesInv BY FramesInvariant
<1> QED BY <1>1, <1>2, PTL
=============================================================================
