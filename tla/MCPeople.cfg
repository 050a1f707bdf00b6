\* Three players in three parties; three in chat, two of them gamemasters; two tenants
\* and a bed; two fighters, one with a summon; a list of
\* known creatures with room for two, and stacks of three.
CONSTANTS
  Players = {ann, bob, cid}
  Parties = {P1, P2, P3}
  NoPlayer = NoPlayer
  NoParty = NoParty
  Users = {u, g, h}
  Gamemasters = {g, h}
  NoUser = NoUser
  Public = {}
  Reports = Reports
  Guild = Guild
  Slots = {S1}
  Tenants = {t1, t2}
  NoTenant = NoTenant
  Beds = {B1}
  NoBed = NoBed
  MaxWarnings = 1
  BedsAtTheWall = FALSE
  Fighters = {f1, f2}
  NoFighter = NoFighter
  Summoners = {f1}
  Zones = {"normal", "protection"}
  FightTime = 1
  FragTime = 1
  KillsToRed = 2
  MaxRedTicks = 1
  viewer = viewer
  other1 = other1
  other2 = other2
  piece1 = piece1
  piece2 = piece2
  Places <- MCPlaces
  Soft <- MCSoft
  Steps <- MCSteps
  Falls <- MCFalls
  Viewer = viewer
  Walkers = {other1, other2}
  Pieces = {piece1, piece2}
  FirstKinds <- MCFirstKinds
  Transforms <- MCTransforms
  StackLimit = 3
  KnownLimit = 2
  West = 1
  East = 1
  Viewport = 2
  Nowhere = Nowhere
SPECIFICATION PeopleSpec
INVARIANTS ListsAgree ChatConsistent HouseConsistent FightsConsistent ViewConsistent
CHECK_DEADLOCK FALSE
