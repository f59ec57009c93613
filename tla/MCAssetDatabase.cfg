CONSTANTS
  Handles = {1, 2, 3, 4}
  Sources = {"tex", "box", "cube"}
  EngineSource <- MCEngineSource
  Products <- MCProducts
  Copies = {1, 2}
  MaxChanges = 2
  Recorded <- MCRecorded
SPECIFICATION Spec
CHECK_DEADLOCK FALSE
INVARIANTS CacheCurrent IndicesAgree
PROPERTIES LoadsReturn
