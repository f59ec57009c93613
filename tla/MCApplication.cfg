CONSTANTS
  Layers = {a, b}
  Sizes = {1, 2}
  InitialSize = 1
  Positions = {0, 1}
  MaxEvents = 2
  FixedDt = 2
  MaxFrameTime = 3
  MaxDelta = 4
  MaxThrows = 1
SPECIFICATION Spec
INVARIANTS LifetimesNest SizeSettles MouseDeltaTrue BacklogBounded
PROPERTIES CloseEndsProgram
