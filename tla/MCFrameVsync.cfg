SPECIFICATION Spec
CONSTANTS
  FrameSlots = 2
  Sizes = {1, 2}
  ImageCounts = {2, 3}
  MaxResizes = 2
  MaxFailures = 3
INVARIANTS VsyncMarksSwapchain
