\* Two jobs over two layouts, each episode recording a frame of two cameras.
CONSTANTS
  l1 = l1  l2 = l2
  NoLayout = NoLayout
  Layouts = {l1, l2}
  MaxJobs = 2
  NumCameras = 2
  MaxFrames = 1
SPECIFICATION SweepSpec
SYMMETRY MCSymmetry
INVARIANT TypeOK
INVARIANT OncePerLayout
INVARIANT OnlyWanted
INVARIANT FirstRecorderWhole
PROPERTY KeepsResults
CHECK_DEADLOCK FALSE
