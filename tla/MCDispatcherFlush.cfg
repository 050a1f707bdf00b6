\* The server is shut down, and a task that is flushed adds another task.
CONSTANTS
  t1 = t1
  t2 = t2
  t4 = t4
  shutdown = shutdown
  Tasks = {t1, t2, t4, shutdown}
  Producers = {network}
  NoTask = NoTask
  Child <- ChildClose
  Closer = t4
  ShutdownTask = shutdown
SPECIFICATION FairSpec
PROPERTY ShutdownEnds
CHECK_DEADLOCK FALSE
