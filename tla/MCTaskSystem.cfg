SPECIFICATION FairSpec
CONSTANTS
  Tasks = {t1, t2}
  Threads = {main, other}
  NoTask = NoTask
  Nobody = Nobody
CHECK_DEADLOCK FALSE
INVARIANTS HandlesSafe SchedulerObjectsAlive
PROPERTIES FuturesSpec WaitsReturn
