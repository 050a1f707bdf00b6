\* Two events under fairness: the timer they implement, and what must happen.
\* Two tiles and two items with scripts, which change one thing more; a monster,
\* its prey and another on eight tiles; four raids.
CONSTANTS
  Tasks = {e1, e2}
  Callers = {dispatcher, network}
  NoTask = NoTask
  Delays = {1, 3}
  MinTicks = 2
  MaxTime = 3
  IdMax = 2
  plate = plate
  altar = altar
  Fields = {}
  Tiles = {t1, t2}
  Tops = {plate}
  Downs = {altar}
  Walker = Walker
  FirstKinds <- MCFirstKinds
  MaxScripts = 1
  MaxDepth = 1
  MaxCache = 2
  NoTile = NoTile
  NoItem = NoItem
  MaxNodes = 512
  MaxClosed = 100
  Hunter = hunter
  Prey = prey
  Beast = beast
  Nobody = Nobody
  HuntTiles <- MCHuntTiles
  Shut = {}
  Lair <- MCHuntTiles
  Viewport = 2
  SearchDist = 3
  TargetDist = 1
  AttackRange = 1
  Mights = {{}, {"items"}, {"items", "creatures"}}
  Moods = {FALSE, TRUE}
  MaxThings = 2
  Spots <- MCSpots
  Havens <- MCHavens
  Asks <- MCAsks
  BlockSolid = {"crate", "pillar"}
  BlockPathFind = {"fire"}
  wolves = wolves
  feast = feast
  dragon = dragon
  ghosts = ghosts
  Raid = {wolves, feast, dragon, ghosts}
  NoRaid = NoRaid
  Entries <- MCEntries
  Files <- MCFiles
  EventId = {1, 2, 3, 4, 5, 6, 7}
  NoId = 0
SPECIFICATION EventsSpec
INVARIANTS EventsLive StepConsistent HuntConsistent RaidsConsistent
PROPERTIES TimerSpec DueEventLeaves
CHECK_DEADLOCK FALSE
