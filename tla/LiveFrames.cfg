\* One layout, asked for by two jobs of one run; a frame of one camera.
CONSTANTS
  l1 = l1  l2 = l2
  NoLayout = NoLayout
  Layouts = {l1}
  MaxJobs = 2
  NumCameras = 1
  MaxFrames = 1
SPECIFICATION SweepSpec
INVARIANT IndexedNeverHalf
CHECK_DEADLOCK FALSE
