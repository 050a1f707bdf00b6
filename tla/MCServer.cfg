\* Two messages, three packets, and the dispatcher may be stopped at any time;
\* a bag and a coin of two players; two characters, of whom two bans are kept.
CONSTANTS
  Msgs = {msg1, msg2}
  NoMsg = NoMsg
  MaxPackets = 3
  InitRefs = {0}
  MayStop = TRUE
  ann = ann
  bob = bob
  bag1 = bag1
  bag2 = bag2
  depot1 = depot1
  depot2 = depot2
  Owners = {ann, bob}
  HouseOwner = bob
  Bags = {sack}
  Coins = {coin}
  Slot <- MCSlot
  Locker <- MCLocker
  Floor = Floor
  Chest = Chest
  MaxFaults = 1
  Account = {1}
  Char = {2, 6}
  AccountOf <- MCAccountOf
  Exempt = {6}
  Address = {home}
  NoAddress = NoAddress
  MaxTries = 2
  RetryTimeout = 1
  LoginTimeout = 2
  NotationsToBan = 1
  WarningsToDeletion = 1
  Endless = "minus"
  MaxRows = 2
  MaxWarnings = 2
SPECIFICATION ServerSpec
INVARIANTS ConnectionConsistent StorageConsistent BansConsistent
PROPERTIES ClosedIsDeleted NeverHalf
CHECK_DEADLOCK FALSE
