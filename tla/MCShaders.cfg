CONSTANTS
  Threads = {t1, t2}
  Programs <- MCPrograms
  Capacities = {0, 2}
  MaxCount = 2
  ResourceLists <- MCResources
  NoOne = NoOne
SPECIFICATION ShadersSpec
CHECK_DEADLOCK FALSE
INVARIANTS SetsMatchLayouts
