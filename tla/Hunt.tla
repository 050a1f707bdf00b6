-------------------------------- MODULE Hunt --------------------------------
(***************************************************************************)
(* A monster that hunts a player (Source/monster.cpp, creature.cpp): it    *)
(* keeps a map of the cells around it that it may walk on, which is not    *)
(* read from the tiles again but corrected by what it is told, searches a  *)
(* path with it, walks, dances around the player, and pushes things and    *)
(* other monsters out of its way.                                          *)
(*                                                                         *)
(* Around them the world changes: crates (which can be pushed), pillars    *)
(* (which cannot) and fires come and go, the player walks, leaves and      *)
(* comes back, another monster walks about.                                *)
(***************************************************************************)
EXTENDS Paths, FiniteSets

CONSTANTS
  Hunter, Prey, Beast, Nobody,
  HuntTiles,   (* the cells that have a tile with ground                   *)
  Shut,        (* those no monster enters: stairs, teleports, pz           *)
  Lair,        (* Monster::isInSpawnRange: where its own steps may lead    *)
  Viewport,    (* maxViewportX, maxViewportY; 11 in the code               *)
  SearchDist,  (* FindPathParams::maxSearchDist; 12 in the code            *)
  TargetDist,  (* MonsterType::targetDistance                              *)
  AttackRange, (* the range of its attack                                  *)
  Mights,      (* what its type lets it push, the choices                  *)
  Moods,       (* bound: whether the hunter may be fleeing                 *)
  MaxThings,   (* bound: crates, pillars and fires at one time             *)
  Spots,       (* bound: the cells where they are put                      *)
  Havens,      (* bound: the cells to which a script puts the hunter       *)
  Asks,        (* bound: the cells to which a player asks the way          *)
  BlockSolid, BlockPathFind  (* the kinds of things whose type has the flag *)

(* data/items/items.otb: crates and pillars are solid, and every field       *)
(* blocks the path.                                                          *)
ASSUME BlockAssumption == {"crate", "pillar", "fire"} \subseteq BlockSolid \cup BlockPathFind

VARIABLES
  stand,       (* the tile of each creature, or Nobody                     *)
  crates, pillars, fires,
  afire,       (* whether the hunter has the condition of the fires        *)
  grid,        (* localMapCache: the cells around it that may be entered *)
  quarry,      (* followCreature, which it attacks too                     *)
  route,       (* listWalkDir                                              *)
  hasRoute,    (* hasFollowPath                                            *)
  renew,       (* isUpdatingPath                                           *)
  forced,      (* forceUpdateFollowPath                                    *)
  queued,      (* a task for updateCreatureWalk is with the dispatcher     *)
  might,       (* canPushItems and canPushCreatures of its type            *)
  fleeing,     (* isFleeing                                                *)
  dying,       (* creatures whose health is gone                           *)
  asked        (* ghost: the path search of the last step                  *)

huntVars == <<stand, crates, pillars, fires, afire, grid, quarry, route, hasRoute,
              renew, forced, queued, might, fleeing, dying, asked>>

Creatures == {Hunter, Prey, Beast}
Offsets   == (-Viewport..Viewport) \X (-Viewport..Viewport)
NoRequest == [kind |-> "none"]

\* The world a handler works on; the ghosts of the last step are renewed.
World == [stand |-> stand, crates |-> crates, pillars |-> pillars, fires |-> fires,
          afire |-> afire, grid |-> grid, quarry |-> quarry, route |-> route,
          hasRoute |-> hasRoute, renew |-> renew, forced |-> forced, queued |-> queued,
          might |-> might, fleeing |-> fleeing, dying |-> dying, asked |-> NoRequest]

Outcome(w) ==
  /\ stand' = w.stand /\ crates' = w.crates /\ pillars' = w.pillars /\ fires' = w.fires
  /\ afire' = w.afire /\ grid' = w.grid /\ quarry' = w.quarry /\ route' = w.route
  /\ hasRoute' = w.hasRoute /\ renew' = w.renew /\ forced' = w.forced
  /\ queued' = w.queued /\ might' = w.might /\ fleeing' = w.fleeing /\ dying' = w.dying
  /\ asked' = w.asked

HuntBecomes(w) == \E v \in {w} : Outcome(v)

-----------------------------------------------------------------------------
(* What a tile answers: Tile::__queryAdd.                                  *)

On(w, c) == {k \in Creatures : w.stand[k] = c}

Pushes(w, k, what) == k = Hunter /\ what \in w.might

\* For a monster; hardy is FLAG_IGNOREFIELDDAMAGE.
Enters(w, k, c, hardy) ==
  /\ c \in HuntTiles \ Shut
  /\ IF Pushes(w, k, "creatures") THEN On(w, c) \subseteq {Hunter, Beast} ELSE On(w, c) = {}
  /\ c \notin w.pillars
  /\ c \in w.crates => Pushes(w, k, "items")
  /\ c \in w.fires => hardy /\ (Pushes(w, k, "items") \/ (k = Hunter /\ w.afire))

\* For a player.
PlayerEnters(w, c) ==
  c \in HuntTiles /\ On(w, c) = {} /\ c \notin w.pillars \cup w.crates

\* For a crate.
CrateFits(w, c) ==
  c \in HuntTiles /\ On(w, c) = {} /\ c \notin w.pillars \cup w.crates

-----------------------------------------------------------------------------
(* The map of the surroundings.                                            *)

Near(a, b) == a[3] = b[3] /\ Apart(a, b) <= Viewport

\* Creature::updateTileCache
UpdateTileCache(w, c) ==
  LET o == StepTo(w.stand[Hunter], c)
  IN [w EXCEPT !.grid = IF Enters(w, Hunter, c, TRUE) THEN @ \cup {o} ELSE @ \ {o}]

\* Creature::updateMapCache
UpdateMapCache(w) ==
  [w EXCEPT !.grid = {o \in Offsets : Enters(w, Hunter, Moved(w.stand[Hunter], o), TRUE)}]

\* onAddTileItem, onCreatureAppear and onCreatureDisappear of another, which
\* reach those who are near.
Told(w, c) ==
  IF w.stand[Hunter] # Nobody /\ Near(w.stand[Hunter], c) THEN UpdateTileCache(w, c) ELSE w

\* onRemoveTileItem: the tile is read again only for what blocks.
ToldOfRemoval(w, c, kind) ==
  IF kind \in BlockSolid \cup BlockPathFind THEN Told(w, c) ELSE w

\* Creature::getWalkCache: 0 no, 1 yes, 2 ask the tile.
WalkCache(w, c) ==
  LET own == w.stand[Hunter]
  IN CASE own[3] # c[3]                    -> 0
       [] c = own                          -> 1
       [] own[3] = c[3] /\ c # own         ->
            IF ~Near(own, c) THEN 2
            ELSE IF StepTo(own, c) \in w.grid THEN 1 ELSE 0

\* Map::canWalkTo
HunterWalks(w) ==
  {c \in HuntTiles : \/ WalkCache(w, c) = 1
                     \/ WalkCache(w, c) = 2 /\ Enters(w, Hunter, c, TRUE)}
PreyWalks(w) ==
  {c \in HuntTiles : c = w.stand[Prey] \/ (c \notin Shut /\ PlayerEnters(w, c))}

\* AStarNodes::getTileWalkCost
Toll(w) == [c \in HuntTiles |-> (IF On(w, c) # {} THEN 3 * NormalCost ELSE 0)
                              + (IF c \in w.fires THEN 3 * NormalCost ELSE 0)]

SeenFrom(w, target) ==
  [c \in HuntTiles |-> SightClear(c, target, TRUE, HuntTiles, w.pillars)]

-----------------------------------------------------------------------------
(* Paths to what is followed.                                              *)

\* Monster::canUseAttack
CanUseAttack(w, c) ==
  Apart(c, w.stand[Prey]) <= AttackRange /\ SeenFrom(w, w.stand[Prey])[c]

\* Monster::getPathSearchParams, and what the search is told of the world.
FollowQuestion(w) ==
  LET own    == w.stand[Hunter]
      target == w.stand[Prey]
  IN [kind |-> "matching", who |-> Hunter, start |-> own, target |-> target,
      walk |-> HunterWalks(w), toll |-> Toll(w), sees |-> SeenFrom(w, target),
      diagonal |-> TRUE, dist |-> SearchDist, least |-> 1,
      full |-> ~w.fleeing /\ ~CanUseAttack(w, own),
      clear |-> ~w.fleeing, keep |-> w.fleeing,
      most |-> IF w.fleeing THEN Viewport ELSE TargetDist]

Answered(q, a) == [kind |-> q.kind, who |-> q.who, start |-> q.start, target |-> q.target,
                   dist |-> q.dist, least |-> q.least, most |-> q.most, full |-> q.full,
                   clear |-> q.clear, keep |-> q.keep, found |-> a.found, way |-> a.way]

\* Creature::getPathToFollowCreature; the list the search clears is listWalkDir.
PathToFollow(w) ==
  IF w.quarry = Nobody THEN {w}
  ELSE UNION {{[w EXCEPT !.route = a.way, !.hasRoute = a.found, !.asked = Answered(q, a)]
               : a \in {PathMatching(q)}} : q \in {FollowQuestion(w)}}

\* Creature::setFollowCreature, as far as Game::updateCreatureWalk.
Follow(w) ==
  IF w.stand[Prey][3] # w.stand[Hunter][3] \/ ~Near(w.stand[Hunter], w.stand[Prey])
    THEN [w EXCEPT !.quarry = Nobody]
    ELSE [w EXCEPT !.route = << >>, !.hasRoute = FALSE, !.forced = FALSE,
                   !.quarry = Prey, !.renew = TRUE]
Unfollow(w) == [w EXCEPT !.quarry = Nobody, !.renew = FALSE]

\* Creature::onCreatureMove, for the pursuit: of the prey or of the hunter.
Pursued(w) ==
  IF w.quarry = Nobody THEN w
  ELSE LET v == IF w.hasRoute THEN [w EXCEPT !.renew = FALSE, !.queued = TRUE] ELSE w
       IN IF Near(w.stand[Hunter], w.stand[Prey]) THEN v ELSE Unfollow(v)

\* The prey or the beast moves, and the hunter is told of both tiles.
OtherMoves(w, k, c) ==
  LET old == w.stand[k]
      v   == Told(Told([w EXCEPT !.stand[k] = c], c), old)
  IN IF k = Prey THEN Pursued(v) ELSE v

\* Seeded fault: the tile it leaves is not looked at again.
ShiftedStale(w, from) ==
  LET to    == w.stand[Hunter]
      s     == StepTo(from, to)
      fresh == {o \in Offsets : (s[1] # 0 /\ o[1] = s[1] * Viewport)
                             \/ (s[2] # 0 /\ o[2] = s[2] * Viewport)}
  IN [w EXCEPT !.grid = {o \in Offsets : IF o \in fresh
                           THEN Enters(w, Hunter, Moved(to, o), TRUE)
                           ELSE <<o[1] + s[1], o[2] + s[2]>> \in w.grid}]

\* Creature::onCreatureMove of itself, one step: the rows and columns move, the
\* new ones are read, and so is the tile it leaves.
Shifted(w, from) ==
  LET to    == w.stand[Hunter]
      s     == StepTo(from, to)
      fresh == {o \in Offsets : (s[1] # 0 /\ o[1] = s[1] * Viewport)
                             \/ (s[2] # 0 /\ o[2] = s[2] * Viewport)}
      v     == [w EXCEPT !.grid = {o \in Offsets : IF o \in fresh
                           THEN Enters(w, Hunter, Moved(to, o), TRUE)
                           ELSE <<o[1] + s[1], o[2] + s[2]>> \in w.grid}]
  IN UpdateTileCache(v, from)

HunterMoves(w, c) == Pursued(Shifted([w EXCEPT !.stand[Hunter] = c], w.stand[Hunter]))

\* The same when it is teleported.
HunterTeleported(w, c) == Pursued(UpdateMapCache([w EXCEPT !.stand[Hunter] = c, !.route = << >>]))

-----------------------------------------------------------------------------
(* Steps of its own choice.                                                *)

Compass == {<<0, -1>>, <<0, 1>>, <<-1, 0>>, <<1, 0>>}

\* Monster::canWalkTo
CanStep(w, c) ==
  /\ c \in Lair
  /\ WalkCache(w, c) # 0
  /\ On(w, c) = {}
  /\ Enters(w, Hunter, c, FALSE)

\* Monster::getRandomStep
RandomSteps(w) == {s \in Compass : CanStep(w, Moved(w.stand[Hunter], s))}

\* Monster::getDanceStep: as far from the player as before; keepDistance
\* also says on which side of it a step is made at all.
DanceSteps(w, keepAttack, keepDistance) ==
  LET own    == w.stand[Hunter]
      target == w.stand[Prey]
      side(s) == CASE s = <<0, -1>> -> own[2] >= target[2]
                   [] s = <<0, 1>>  -> own[2] <= target[2]
                   [] s = <<1, 0>>  -> own[1] >= target[1]
                   [] s = <<-1, 0>> -> own[1] <= target[1]
  IN {s \in RandomSteps(w) :
        /\ keepDistance => side(s)
        /\ Apart(Moved(own, s), target) = Apart(own, target)
        /\ keepAttack /\ CanUseAttack(w, own) => CanUseAttack(w, Moved(own, s))}

\* Monster::getNextStep: the step, if any, and the route that is left.
NextSteps(w) ==
  LET choice(ss, none) == {[some |-> TRUE, step |-> s, route |-> w.route] : s \in ss}
                            \cup IF none THEN {[some |-> FALSE, route |-> w.route]} ELSE {}
  IN IF w.quarry = Nobody \/ ~w.hasRoute THEN choice(RandomSteps(w), TRUE)
     ELSE IF w.route # << >>
       THEN {[some |-> TRUE, step |-> Head(w.route), route |-> Tail(w.route)]}
     ELSE IF w.fleeing THEN LET ss == DanceSteps(w, FALSE, FALSE) IN choice(ss, ss = {})
     ELSE choice(DanceSteps(w, TRUE, TRUE), TRUE)

\* Monster::pushItem, pushItems: to any side it fits, or it is destroyed.
PushedItems(w, c) ==
  IF "items" \notin w.might \/ c \notin w.crates THEN {w}
  ELSE LET lifted == [w EXCEPT !.crates = @ \ {c}]
           sides  == {d \in HuntTiles : /\ d[3] = c[3] /\ Apart(c, d) = 1
                                        /\ CanThrow(c, d, 8, 6, HuntTiles, w.pillars)
                                        /\ CrateFits(w, d)}
       IN IF sides = {} THEN {ToldOfRemoval(lifted, c, "crate")}
          ELSE {Told([ToldOfRemoval(lifted, c, "crate") EXCEPT !.crates = @ \cup {d}], d)
                : d \in sides}

\* Monster::pushCreature, pushCreatures: to any side it goes, or it is killed.
PushedCreatures(w, c) ==
  IF "creatures" \notin w.might \/ Beast \notin On(w, c) THEN {w}
  ELSE LET sides == {s \in Compass : LET d == Moved(c, s)
                                     IN /\ d \notin w.fires \cup w.crates \cup w.pillars
                                        /\ Enters(w, Beast, d, FALSE)}
       IN IF sides = {} THEN {[w EXCEPT !.dying = @ \cup {Beast}]}
          ELSE {OtherMoves(w, Beast, Moved(c, s)) : s \in sides}

\* Creature::onWalk: what comes of one step.
Walked(w) ==
  UNION {LET v == [w EXCEPT !.route = n.route]
         IN IF ~n.some THEN {v}
            ELSE LET c == Moved(w.stand[Hunter], n.step)
                     cleared == IF c \notin HuntTiles THEN {v}
                                ELSE UNION {PushedCreatures(u, c) : u \in PushedItems(v, c)}
                 IN {IF Enters(u, Hunter, c, TRUE) THEN HunterMoves(u, c)
                     ELSE [u EXCEPT !.forced = TRUE] : u \in cleared}
         : n \in NextSteps(w)}

-----------------------------------------------------------------------------
(* Actions.                                                                *)

HuntInit ==
  /\ stand \in {f \in [Creatures -> HuntTiles \ Shut] : IsInjective(f) /\ f[Hunter] \in Lair}
  /\ crates = {} /\ pillars = {} /\ fires = {} /\ dying = {}
  /\ afire = FALSE /\ hasRoute = FALSE /\ renew = FALSE /\ forced = FALSE /\ queued = FALSE
  /\ fleeing \in Moods /\ might \in Mights
  /\ grid = UpdateMapCache([stand |-> stand, crates |-> {}, pillars |-> {}, fires |-> {},
                            afire |-> FALSE, might |-> might, grid |-> {}]).grid
  /\ quarry = Nobody /\ route = << >> /\ asked = NoRequest

Here(k) == stand[k] # Nobody

\* A thing is put on a tile, or taken away, by a script, a spell or time.
PutThing(c) ==
  /\ On(World, c) = {}
  /\ Cardinality(crates) + Cardinality(pillars) + Cardinality(fires) < MaxThings
  /\ c \notin crates \cup pillars \cup fires
  /\ \/ HuntBecomes(Told([World EXCEPT !.crates = @ \cup {c}], c))
     \/ HuntBecomes(Told([World EXCEPT !.pillars = @ \cup {c}], c))
     \/ HuntBecomes(Told([World EXCEPT !.fires = @ \cup {c}], c))
TakeThing(c) ==
  \/ c \in crates  /\ HuntBecomes(ToldOfRemoval([World EXCEPT !.crates = @ \ {c}], c, "crate"))
  \/ c \in pillars /\ HuntBecomes(ToldOfRemoval([World EXCEPT !.pillars = @ \ {c}], c, "pillar"))
  \/ c \in fires   /\ HuntBecomes(ToldOfRemoval([World EXCEPT !.fires = @ \ {c}], c, "fire"))

\* The prey takes a step; the beast takes one.
PreySteps(s) ==
  /\ Here(Prey) /\ PlayerEnters(World, Moved(stand[Prey], s))
  /\ HuntBecomes(OtherMoves(World, Prey, Moved(stand[Prey], s)))
BeastSteps(s) ==
  /\ Here(Beast) /\ Beast \notin dying
  /\ Enters(World, Beast, Moved(stand[Beast], s), FALSE)
  /\ HuntBecomes(OtherMoves(World, Beast, Moved(stand[Beast], s)))

\* Creature::onCreatureDisappear of another, onCreatureAppear of another.
Gone(k) ==
  LET w == Told([World EXCEPT !.stand[k] = Nobody, !.dying = @ \ {k}], stand[k])
  IN IF k = Prey /\ quarry = Prey THEN Unfollow(w) ELSE w
Leaves(k) == /\ k # Hunter /\ Here(k) /\ (k = Beast => k \in dying)
             /\ HuntBecomes(Gone(k))
Arrives(k, c) ==
  /\ k # Hunter /\ ~Here(k)
  /\ IF k = Prey THEN PlayerEnters(World, c) ELSE Enters(World, k, c, FALSE)
  /\ HuntBecomes(Told([World EXCEPT !.stand[k] = c], c))

\* Game::updateCreatureWalk for the world that v is.
Searches(v) == \E u \in {v} : \E w \in PathToFollow(u) : Outcome(w)

\* Monster::selectTarget takes the prey for its target.
Notice == Here(Prey) /\ quarry = Nobody /\ Searches(Follow(World))

\* Creature::onThink, with or without the two seconds being over.
Think(late) ==
  LET again == quarry # Nobody /\ (forced \/ late)
  IN /\ quarry # Nobody /\ (renew \/ again)
     /\ Searches([World EXCEPT !.renew = FALSE, !.forced = IF again THEN FALSE ELSE @])

\* The dispatcher runs the task of onCreatureMove.
TaskRuns == queued /\ Searches([World EXCEPT !.queued = FALSE])

\* Game::checkCreatureWalk
HunterWalk == \E w \in Walked(World) \ {World} : Outcome(w)

\* A script puts the hunter on another tile with room for it.
Teleport(c) ==
  /\ c # stand[Hunter] /\ c \notin crates /\ On(World, c) = {} /\ Enters(World, Hunter, c, TRUE)
  /\ HuntBecomes(HunterTeleported(World, c))

\* Seeded fault: the tiles are not read again.
BurnUnread == HuntBecomes([World EXCEPT !.afire = ~afire])

\* Monster::onAddCondition and onEndCondition, for the condition of the fires:
\* whoever has it may walk into them, so all the tiles are read again.
Burn == HuntBecomes(UpdateMapCache([World EXCEPT !.afire = ~afire]))
MoodChanges == ~fleeing \in Moods /\ HuntBecomes([World EXCEPT !.fleeing = ~fleeing])

\* A client throws something from further off, or uses something: its player
\* is to walk to a tile, or up to one from which the thing is seen.
PreyQuestion(w, kind, c) ==
  [kind |-> kind, who |-> Prey, start |-> w.stand[Prey], target |-> c,
   walk |-> PreyWalks(w), toll |-> Toll(w), sees |-> SeenFrom(w, c),
   diagonal |-> TRUE, dist |-> -1, least |-> 0, most |-> 1,
   full |-> TRUE, clear |-> TRUE, keep |-> FALSE]
PreyAsks(kind, c) ==
  /\ Here(Prey)
  /\ \E q \in {PreyQuestion(World, kind, c)} :
     \E a \in {IF kind = "to" THEN PathTo(q) ELSE PathMatching(q)} :
       HuntBecomes([World EXCEPT !.asked = Answered(q, a)])

HuntNext ==
  \/ \E c \in Spots : PutThing(c)
  \/ \E c \in HuntTiles : TakeThing(c)
  \/ \E c \in Havens : Teleport(c)
  \/ \E kind \in {"to", "matching"}, c \in Asks : PreyAsks(kind, c)
  \/ \E s \in Compass : PreySteps(s) \/ BeastSteps(s)
  \/ \E k \in Creatures : Leaves(k) \/ \E c \in HuntTiles : Arrives(k, c)
  \/ \E late \in BOOLEAN : Think(late)
  \/ Notice \/ TaskRuns \/ HunterWalk \/ Burn \/ MoodChanges

HuntSpec == HuntInit /\ [][HuntNext]_huntVars

-----------------------------------------------------------------------------
(* Properties.                                                             *)

HuntTypeOK ==
  /\ stand \in [Creatures -> HuntTiles \cup {Nobody}]
  /\ crates \cup pillars \cup fires \subseteq HuntTiles
  /\ grid \subseteq Offsets
  /\ quarry \in {Prey, Nobody} /\ dying \subseteq {Beast}
  /\ {afire, hasRoute, renew, forced, queued, fleeing} \subseteq BOOLEAN

\* The map a monster carries says of every cell around it what the tile would
\* say, as the check of getWalkCache in debug builds demands ("Wrong cache
\* value"): after every thing that comes or goes, every creature that moves,
\* its own steps, and every fire it gets used to or no longer is.
GridExact ==
  \A o \in Offsets \ {<<0, 0>>} :
    LET c == Moved(stand[Hunter], o)
    IN o \in grid <=> Enters(World, Hunter, c, TRUE)

\* No living thing shares a tile with the hunter, and it is under no crate.
RoomOfItsOwn ==
  /\ stand[Hunter] \notin crates \cup pillars
  /\ \A k \in Creatures \ ({Hunter} \cup dying) : stand[k] # stand[Hunter]

\* The cells a search may use, as the tiles say and not the map.
Open(a) ==
  LET free == IF a.who = Prey THEN PreyWalks(World)
              ELSE {c \in HuntTiles : c = a.start \/ Enters(World, Hunter, c, TRUE)}
  IN {c \in free : \/ c = a.start
                   \/ /\ c[3] = a.start[3]
                      /\ a.dist # -1 => Apart(a.start, c) <= a.dist
                      /\ a.keep => IsInRange(c, a)}

\* The cells that will do, and of those it reaches the best.
Goals(a) ==
  IF a.kind = "to" THEN {a.target} \ {a.start}
  ELSE {c \in HuntTiles : /\ c[3] = a.start[3]
                          /\ IsInRange(c, a)
                          /\ a.clear => SeenFrom(World, a.target)[c]
                          /\ Apart(c, a.target) \in a.least..a.most}
Bests(a, reached) ==
  {c \in reached : a.most = 1 \/
                   \A d \in reached : Apart(c, a.target) >= Apart(d, a.target)}

\* A path leads over cells that may be walked on to where it should; there is
\* one unless no such cell can be reached; and of those to the best distance
\* from the target it is the cheapest.  (A path to a tile may cost more than it
\* need: the estimate of a diagonal is more than two straight steps.)
WayRight ==
  asked # NoRequest =>
    \A cost \in {Cheapest(asked.start, Open(asked), Toll(World), ToSet(Straight \o Diagonal))} :
      LET reached == {c \in Goals(asked) \cap Open(asked) : cost[c] # -1}
          end     == Ends(asked.start, asked.way)
      IN /\ asked.found <=> reached # {}
         /\ asked.found =>
              /\ Walkable(asked.start, asked.way, Open(asked))
              /\ end \in reached
              /\ asked.kind = "matching" =>
                   /\ end \in Bests(asked, reached)
                   /\ WayCost(asked.start, asked.way, Toll(World))
                        = Min({cost[c] : c \in Bests(asked, reached)})

\* What can be seen can be seen from both ends, and not through a closed wall:
\* there is a chain of neighbouring cells between that nothing stops.
SightSound ==
  Here(Prey) /\ Near(stand[Hunter], stand[Prey]) =>
    LET a == stand[Hunter]
        b == stand[Prey]
        between == {c \in HuntTiles : c[3] = a[3]} \ (pillars \ {a, b})
        clear == SightClear(a, b, TRUE, HuntTiles, pillars)
    IN /\ clear = SightClear(b, a, TRUE, HuntTiles, pillars)
       /\ clear => Cheapest(a, between, [c \in between |-> 0],
                            ToSet(Straight \o Diagonal))[b] # -1

HuntConsistent == HuntTypeOK /\ GridExact /\ RoomOfItsOwn /\ WayRight /\ SightSound
=============================================================================
