\* The server is shut down while two producers add tasks; two items, a creature
\* and scripts two calls deep; two guests of an NPC; two names in scripts that
\* are reloaded; spells and weapons; and sums of one and three coins.
CONSTANTS
  t1 = t1
  t2 = t2
  t3 = t3
  t4 = t4
  shutdown = shutdown
  Tasks = {t1, t2, t3, t4, shutdown}
  Producers = {network, scheduler}
  NoTask = NoTask
  Child <- MCChild
  Closer = t4
  ShutdownTask = shutdown
  Goods = {g1, g2}
  Beasts = {b1}
  Marked = {g1}
  Calls = {"create", "remove", "transform", "move", "combat", "reload"}
  MaxDepth = 2
  MaxUid = 3
  MaxTimers = 2
  MaxResults = 1
  MaxCombats = 1
  MaxCalls = 2
  Guests = {p1, p2}
  Street = {1, 2, 3, 4, 5}
  Zone = {1, 2}
  Near = 1
  Sight = 2
  IdleInterval = 2
  WalkDelay = 1
  MaxQueue = 3
  Names = {n1, n2}
  Persons = {q1}
  Interval = 2
  Day = 3
  MaxEntries = 2
  MaxObjects = 3
  MaxLoads = 3
  MaxTime = 6
  Books <- MCBooks
  Bearings <- MCBearings
  FullMana = 4
  MaxUses = 2
  Hundred = 2
  BagRoom = 2
  Strength = 5
  Prices = {1, 3}
  Hoards <- MCHoards
  MaxMoney = 6
SPECIFICATION ThreadSpec
INVARIANTS TasksAccounted ScriptsConsistent  RegistryConsistent MagicConsistent PurseConsistent
PROPERTIES AcceptedTaskRuns ShutdownEnds
CHECK_DEADLOCK FALSE
