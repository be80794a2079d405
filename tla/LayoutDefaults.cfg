\* Two jobs of one run over two layouts, under any environment variables; no frames.
CONSTANTS
  l1 = l1  l2 = l2
  NoLayout = NoLayout
  Layouts = {l1, l2}
  MaxJobs = 2
  NumCameras = 0
  MaxFrames = 0
SPECIFICATION SweepSpec
PROPERTY SelectingNeverErases
CHECK_DEADLOCK FALSE
