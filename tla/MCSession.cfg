\* Three clients and two player objects; two bags, a paper and a depot, one of
\* two persons opening them, on three tiles.
CONSTANTS
  Clients = {c1, c2, c3}
  Bodies = {b1, b2}
  None = None
  KickOnLogin = {FALSE, TRUE}
  AllowClones = {FALSE, TRUE}
  ann = ann
  bob = bob
  box = box
  Persons = {ann, bob}
  Lookers = {ann}
  Bags = {bag1, bag2}
  Papers = {paper}
  Depots = {box}
  DepotOwner <- MCDepotOwner
  Squares = {1, 2, 3}
  Lockers = {1}
  Cids = {0, 1}
  Capacity = 2
  MaxLetters = 2
  Nowhere = Nowhere
SPECIFICATION SessionSpec
INVARIANTS SessionConsistent WindowsConsistent
PROPERTY LostPlayerLeaves
CHECK_DEADLOCK FALSE
