----------------------------- MODULE ClientView --------------------------------
(***************************************************************************)
(* The map and what a client is told of it: the stack of things of a tile  *)
(* (Source/tile.cpp), the spectators of a change (map.cpp) and the         *)
(* messages that keep the client's copy in step (protocolgame.cpp).        *)
(*                                                                         *)
(* A position is <<x, z>>: one axis stands for the two of a floor, which   *)
(* the code treats alike; z is the floor, 7 the ground, 8 and more below.  *)
(* Viewer is the player whose client is followed.  The client is external: *)
(* it applies a message to the list it holds for the tile, and stacks a    *)
(* new thing by the rule of Tile::__addThing.                              *)
(***************************************************************************)
EXTENDS Integers, Sequences, FiniteSets, SequencesExt, FiniteSetsExt

CONSTANTS
  Places,      (* the positions that have a tile                           *)
  Soft,        (* bound: those where items lie and the ground changes      *)
  Steps,       (* the pairs of positions a creature can walk between       *)
  Falls,       (* [from |-> to]: the tiles that change the floor           *)
  Viewer, Walkers,
  Pieces,      (* the items; FirstKinds: what each may begin as            *)
  FirstKinds, Transforms,
  StackLimit,  (* things of a tile a client can hold: 10                   *)
  KnownLimit,  (* creatures a client can know: 150                         *)
  West, East,  (* the window of a client: 8 and 9 (6 and 7)                *)
  Viewport,    (* Map::maxViewportX                                        *)
  Nowhere

ASSUME ClientViewAssumption ==
  /\ Places \subseteq Int \X (0..15) /\ Nowhere \notin Places
  /\ Steps \subseteq Places \X Places
  /\ DOMAIN Falls \subseteq Places /\ \A p \in DOMAIN Falls : Falls[p] \in Places
  /\ Viewer \notin Walkers
  /\ {StackLimit, KnownLimit} \subseteq Nat \ {0, 1}
  /\ West < Viewport /\ East < Viewport

Movers == Walkers \cup {Viewer}
Floor(p) == p[2]

\* The properties of item types that a tile asks about.
Gone     == "gone"
Splash   == {"blood", "slime"}
OnTop    == [blood |-> 2, slime |-> 2, opendoor |-> 3]
Fields   == {"fire", "ward"}
Fixed    == {"ward"}
Blocking == {"crate"}
Kinds    == {"blood", "slime", "opendoor", "fire", "ward", "crate", "coins1", "coins2"}
SameType == {<<"coins1", "coins2">>}

VARIABLES
  tile,     (* the ground, topItems, creatures and downItems of each tile  *)
  kind,     (* what each item is                                           *)
  state,    (* the TILESTATE flags: fields and blocking items              *)
  at,       (* where the creatures are                                     *)
  view,     (* the client's lists, for the tiles of its window             *)
  known,    (* ProtocolGame::knownCreatureList                             *)
  knows,    (* the creatures whose name and looks the client keeps         *)
  overrun   (* the list was full of creatures in sight                     *)

viewVars == <<tile, kind, state, at, view, known, knows, overrun>>

TheMap == [tile |-> tile, kind |-> kind, state |-> state, at |-> at, view |-> view,
           known |-> known, knows |-> knows, overrun |-> overrun]

MapBecomes(w) ==
  /\ tile' = w.tile   /\ kind' = w.kind   /\ state' = w.state /\ at' = w.at
  /\ view' = w.view   /\ known' = w.known /\ knows' = w.knows /\ overrun' = w.overrun

ViewInit ==
  /\ tile = [p \in Places |-> [ground |-> "soil", top |-> <<>>, creatures |-> <<>>, down |-> <<>>]]
  /\ kind = [i \in Pieces |-> Gone]
  /\ state = [p \in Places |-> {}]
  /\ at = [c \in Movers |-> Nowhere]
  /\ view = <<>> /\ known = <<>> /\ knows = {} /\ overrun = FALSE

-----------------------------------------------------------------------------
(* Reading the map.                                                        *)

\* Tile::__getIndexOfThing and __getThing count through this list; from 0.
Stack(w, p) == LET t == w.tile[p]
               IN <<t.ground>> \o t.top \o t.creatures \o t.down

StackPos(w, p, x) == (CHOOSE k \in DOMAIN Stack(w, p) : Stack(w, p)[k] = x) - 1

\* A thing as it is drawn.
Drawn(w, x) == IF x \in Pieces THEN w.kind[x] ELSE x

Cut(s) == SubSeq(s, 1, Min({Len(s), StackLimit}))

\* What GetTileDescription writes of a tile: the first things only.
Description(w, p) ==
  LET s == Stack(w, p) IN Cut([k \in DOMAIN s |-> Drawn(w, s[k])])

\* ProtocolGame::canSee, of a position.
CanSee(w, p) ==
  LET me == w.at[Viewer]
      off == Floor(me) - Floor(p)
  IN /\ me # Nowhere
     /\ IF Floor(me) <= 7 THEN Floor(p) <= 7 ELSE off \in -2..2
     /\ p[1] \in (me[1] - West + off)..(me[1] + East + off)

\* Map::getSpectators with multifloor: does the event at p reach the viewer?
Spectates(w, p) ==
  LET me == w.at[Viewer]
      off == Floor(p) - Floor(me)
      low  == IF Floor(p) > 7 THEN Floor(p) - 2 ELSE 0
      high == IF Floor(p) > 7 THEN Floor(p) + 2
              ELSE CASE Floor(p) = 7 -> 9 [] Floor(p) = 6 -> 8 [] OTHER -> 7
  IN /\ me # Nowhere
     /\ Floor(me) \in low..high
     /\ me[1] \in (p[1] - Viewport + off)..(p[1] + Viewport + off)

Reaches(w, p) == Spectates(w, p) /\ CanSee(w, p)

-----------------------------------------------------------------------------
(* The client.                                                             *)

Rank(x) == CASE x \in {"soil", "grass"} -> 0
             [] x \in DOMAIN OnTop -> OnTop[x]
             [] x \in Movers -> 4
             [] OTHER -> 5

\* Message 0x6A: before the first thing that does not go below it.
ClientAdds(w, p, x) ==
  IF p \notin DOMAIN w.view THEN w
  ELSE LET s == w.view[p]
           k == Cardinality({j \in DOMAIN s : Rank(s[j]) < Rank(x)})
       IN [w EXCEPT !.view[p] = Cut(SubSeq(s, 1, k) \o <<x>> \o SubSeq(s, k + 1, Len(s)))]

\* Message 0x6C, which RemoveTileItem writes for the first StackLimit only.
ClientRemoves(w, p, n) ==
  IF n >= StackLimit \/ p \notin DOMAIN w.view \/ n + 1 \notin DOMAIN w.view[p] THEN w
  ELSE [w EXCEPT !.view[p] = RemoveAt(@, n + 1)]

\* Message 0x6B
ClientUpdates(w, p, n, x) ==
  IF n >= StackLimit \/ p \notin DOMAIN w.view \/ n + 1 \notin DOMAIN w.view[p] THEN w
  ELSE [w EXCEPT !.view[p][n + 1] = x]

\* Seeded fault: the oldest creature is forgotten, in sight or not.
ForgetOldest(w, c) ==
  CASE Contains(w.known, c) ->
         [w EXCEPT !.known = Append(SelectSeq(@, LAMBDA d : d # c), c)]
    [] Len(w.known) < KnownLimit ->
         [w EXCEPT !.known = Append(@, c), !.knows = @ \cup {c}]
    [] OTHER ->
         [w EXCEPT !.known = Append(Tail(@), c), !.knows = (@ \ {Head(w.known)}) \cup {c}]

\* ProtocolGame::checkCreatureAsKnown, and the client that keeps and forgets
\* the creatures it is told to.  When KnownLimit tries find nobody out of sight
\* the newcomer itself leaves the list.
CheckCreatureAsKnown(w, c) ==
  LET all   == Append(w.known, c)
      gone  == {n \in 1..KnownLimit : \/ w.at[all[n]] = Nowhere
                                      \/ ~CanSee(w, w.at[all[n]])}
      n     == IF gone = {} THEN KnownLimit ELSE Min(gone)
  IN CASE Contains(w.known, c) ->
            [w EXCEPT !.known = Append(SelectSeq(@, LAMBDA d : d # c), c)]
       [] Len(w.known) < KnownLimit ->
            [w EXCEPT !.known = all, !.knows = @ \cup {c}]
       [] OTHER ->
            [w EXCEPT !.known = IF gone = {} THEN Front(all)
                                ELSE SubSeq(all, n + 1, Len(all)) \o SubSeq(all, 1, n - 1),
                      !.knows = (@ \ {all[n]}) \cup {c},
                      !.overrun = @ \/ gone = {}]

\* GetTileDescription for one tile.
Describe(w, p) ==
  LET said  == Description(w, p)
      heard == FoldLeft(LAMBDA v, x : IF x \in Movers THEN CheckCreatureAsKnown(v, x) ELSE v,
                        w, said)
  IN [heard EXCEPT !.view = (p :> said) @@ @]

\* GetFloorDescription: the columns from x1 to x2 of one floor.
GetFloorDescription(w, x1, x2, z, offset) ==
  LET cells == {p \in Places : Floor(p) = z /\ p[1] \in (x1 + offset)..(x2 + offset)}
  IN FoldLeft(Describe, w, SetToSortSeq(cells, LAMBDA p, q : p[1] < q[1]))

\* GetMapDescription: all the floors a player on floor z can see.
GetMapDescription(w, x1, x2, z) ==
  LET floors == IF z > 7 THEN [k \in 1..5 |-> z - 3 + k] ELSE [k \in 1..8 |-> 8 - k]
  IN FoldLeft(LAMBDA v, f : GetFloorDescription(v, x1, x2, f, z - f), w, floors)

\* The tiles that scroll out of the window leave the client's memory.
Scroll(w) == [w EXCEPT !.view = [p \in {q \in DOMAIN @ : CanSee(w, q)} |-> @[p]]]

AddMapDescription(w, p) ==
  GetMapDescription([w EXCEPT !.view = <<>>], p[1] - West, p[1] + East, Floor(p))

-----------------------------------------------------------------------------
(* A tile tells its spectators.                                            *)

\* Tile::updateTileFlags, of an item that leaves the tile or joins it.
LoseFlags(w, p, i) ==
  LET others == {w.kind[j] : j \in (ToSet(w.tile[p].top) \cup ToSet(w.tile[p].down)) \ {i}}
      lost == {f \in {"field"} : w.kind[i] \in Fields}
                \cup {f \in {"block"} : w.kind[i] \in Blocking /\ others \cap Blocking = {}}
  IN [w EXCEPT !.state[p] = @ \ lost]

GainFlags(w, p, i) ==
  [w EXCEPT !.state[p] = @ \cup {f \in {"field"} : w.kind[i] \in Fields}
                           \cup {f \in {"block"} : w.kind[i] \in Blocking}]

OnAddTileItem(w, p, i) ==
  LET v == GainFlags(w, p, i)
  IN IF Reaches(v, p) THEN ClientAdds(v, p, v.kind[i]) ELSE v

OnUpdateTileItem(w, p, n, x) ==
  IF Reaches(w, p) THEN ClientUpdates(w, p, n, x) ELSE w

OnRemoveTileItem(w, p, n, i) ==
  LET v == LoseFlags(w, p, i)
  IN IF Reaches(v, p) THEN ClientRemoves(v, p, n) ELSE v

\* Seeded fault: the tile is described again only when it is still full.
PostRemoveLate(w, p) ==
  IF Len(Stack(w, p)) > StackLimit /\ Reaches(w, p) THEN Describe(w, p) ELSE w

\* Tile::onUpdateTile, when the client may lack things it has room for: the
\* count is compared after the thing is gone.
PostRemove(w, p) ==
  IF Len(Stack(w, p)) > StackLimit - 2 /\ Reaches(w, p) THEN Describe(w, p) ELSE w

\* Tile::__removeThing of an item (a stack that becomes smaller is updated).
TakeOff(w, p, i) ==
  LET n == StackPos(w, p, i)
      v == [w EXCEPT !.tile[p].top = SelectSeq(@, LAMBDA j : j # i),
                     !.tile[p].down = SelectSeq(@, LAMBDA j : j # i)]
  IN OnRemoveTileItem(v, p, n, i)

Destroy(w, i) == [w EXCEPT !.kind[i] = Gone]

\* Tile::__addThing of an item: one splash, one field, top items by order.
PutOn(w, p, i) ==
  LET t == w.tile[p]
      old(S, s) == SelectSeq(s, LAMBDA j : w.kind[j] \in S)
      Without(S, s) == IF old(S, s) = <<>> THEN w
                       ELSE Destroy(TakeOff(w, p, old(S, s)[1]), old(S, s)[1])
  IN CASE w.kind[i] \in DOMAIN OnTop ->
            LET v == IF w.kind[i] \in Splash THEN Without(Splash, t.top) ELSE w
                s == v.tile[p].top
                k == Cardinality({j \in DOMAIN s : OnTop[v.kind[s[j]]] < OnTop[v.kind[i]]})
            IN OnAddTileItem([v EXCEPT !.tile[p].top = InsertAt(s, k + 1, i)], p, i)
       [] w.kind[i] \in Fields /\ old(Fields, t.down) # <<>>
            /\ w.kind[old(Fields, t.down)[1]] \in Fixed -> Destroy(w, i)
       [] OTHER ->
            LET v == IF w.kind[i] \in Fields THEN Without(Fields, t.down) ELSE w
            IN OnAddTileItem([v EXCEPT !.tile[p].down = <<i>> \o @], p, i)

-----------------------------------------------------------------------------
(* Items come, go and change.                                              *)

Lying(w, i) == {p \in Places : Contains(w.tile[p].top \o w.tile[p].down, i)}
PlaceOf(w, i) == CHOOSE p \in Lying(w, i) : TRUE

\* Game::internalAddItem with a new item.
CreateOn(i, k, p) ==
  /\ kind[i] = Gone /\ <<i, k>> \in FirstKinds
  /\ MapBecomes(PutOn([TheMap EXCEPT !.kind[i] = k], p, i))

\* A ground item put on a tile that has one replaces it (Tile::__addThing).
ChangeGround(p) ==
  LET g == IF tile[p].ground = "soil" THEN "grass" ELSE "soil"
  IN MapBecomes(OnUpdateTileItem([TheMap EXCEPT !.tile[p].ground = g], p, 0, g))

\* Game::internalRemoveItem
RemoveItem(i) ==
  /\ kind[i] # Gone
  /\ LET p == PlaceOf(TheMap, i)
     IN MapBecomes(PostRemove(Destroy(TakeOff(TheMap, p, i), i), p))

\* Game::internalMoveItem of a whole item; the notifications come last.
MoveItemTo(i, q) ==
  /\ kind[i] # Gone /\ q # PlaceOf(TheMap, i)
  /\ LET p == PlaceOf(TheMap, i)
     IN MapBecomes(PostRemove(PutOn(TakeOff(TheMap, p, i), q, i), p))

\* Tile::__updateThing, Tile::__replaceThing: in the place it has.
Alter(w, p, i, k) ==
  LET v == [LoseFlags(w, p, i) EXCEPT !.kind[i] = k]
  IN OnUpdateTileItem(GainFlags(v, p, i), p, StackPos(w, p, i), k)

\* Game::transformItem: an item of the same type is updated in place, one that
\* goes to the other list is removed and added, another one replaces it.
TransformItem(i, k) ==
  /\ <<kind[i], k>> \in Transforms
  /\ LET p == PlaceOf(TheMap, i)
         removed == PostRemove(TakeOff(TheMap, p, i), p)
     IN MapBecomes(
          CASE (k \in DOMAIN OnTop) # (kind[i] \in DOMAIN OnTop) ->
                 PutOn([removed EXCEPT !.kind[i] = k], p, i)
            [] <<kind[i], k>> \in SameType -> Alter(PostRemove(TheMap, p), p, i, k)
            [] OTHER -> PostRemove(Alter(TheMap, p, i, k), p))

\* Tile::__removeThing with a part of a stack.
RemoveSome(i) ==
  /\ kind[i] = "coins2"
  /\ LET p == PlaceOf(TheMap, i)
         v == [TheMap EXCEPT !.kind[i] = "coins1"]
     IN MapBecomes(PostRemove(OnUpdateTileItem(v, p, StackPos(v, p, i), "coins1"), p))

-----------------------------------------------------------------------------
(* Creatures come, go and walk.                                            *)

EnterTile(w, c, p) == [w EXCEPT !.tile[p].creatures = <<c>> \o @, !.at[c] = p]
Depart(w, c, p) == [w EXCEPT !.tile[p].creatures = SelectSeq(@, LAMBDA d : d # c)]

\* ProtocolGame::sendAddCreature of another creature.
SendAddCreature(w, c) ==
  IF Reaches(w, w.at[c])
  THEN ClientAdds(CheckCreatureAsKnown(w, c), w.at[c], c)
  ELSE w

\* ProtocolGame::MoveDownCreature: the floors that come into sight, and the
\* column the window slides over (the perspective moves with the floor).
MoveDownCreature(w, old, new) ==
  LET to == Floor(new)
      x1 == old[1] - West
      x2 == old[1] + East
      floors == CASE to = 8 -> <<8, 9, 10>>
                  [] to \in 9..13 -> <<to + 2>>
                  [] OTHER -> <<>>
      v == FoldLeft(LAMBDA u, f : GetFloorDescription(u, x1, x2, f, Floor(old) - f), w, floors)
  IN GetMapDescription(v, old[1] + East, old[1] + East, to)

\* Seeded fault: the column on the west is forgotten on the way up.
MoveUpUnshifted(w, old, new) ==
  LET to == Floor(new)
      floors == IF to = 7 THEN <<5, 4, 3, 2, 1, 0>> ELSE IF to > 7 THEN <<Floor(old) - 3>> ELSE <<>>
  IN FoldLeft(LAMBDA u, f : GetFloorDescription(u, old[1] - West, old[1] + East, f, Floor(old) - f),
              w, floors)

\* ProtocolGame::MoveUpCreature
MoveUpCreature(w, old, new) ==
  LET to == Floor(new)
      x1 == old[1] - West
      x2 == old[1] + East
      floors == IF to = 7 THEN <<5, 4, 3, 2, 1, 0>>
                ELSE IF to > 7 THEN <<Floor(old) - 3>> ELSE <<>>
      v == FoldLeft(LAMBDA u, f : GetFloorDescription(u, x1, x2, f, Floor(old) - f), w, floors)
  IN GetMapDescription(v, old[1] - West, old[1] - West, to)

\* Message 0x6D: the client takes the creature from one list to the other.
ClientMoves(w, c, old, n, new) == ClientAdds(ClientRemoves(w, old, n), new, c)

\* ProtocolGame::sendMoveCreature for the viewer's own creature.
SendOwnMove(w, old, n, new, teleport) ==
  IF teleport \/ n >= StackLimit
  THEN AddMapDescription(ClientRemoves(w, old, n), new)
  ELSE LET moved == IF Floor(old) = 7 /\ Floor(new) >= 8 THEN ClientRemoves(w, old, n)
                    ELSE ClientMoves(w, Viewer, old, n, new)
           floor == CASE Floor(new) > Floor(old) -> MoveDownCreature(moved, old, new)
                      [] Floor(new) < Floor(old) -> MoveUpCreature(moved, old, new)
                      [] OTHER -> moved
       IN CASE old[1] < new[1] -> GetMapDescription(floor, new[1] + East, new[1] + East, Floor(new))
            [] old[1] > new[1] -> GetMapDescription(floor, new[1] - West, new[1] - West, Floor(new))
            [] OTHER -> floor

\* ... and for another one; the position is the one it already has.
SendMoveCreature(w, c, old, n, new, teleport) ==
  CASE CanSee(w, old) /\ CanSee(w, new) ->
         IF teleport \/ (Floor(old) = 7 /\ Floor(new) >= 8) \/ n >= StackLimit
         THEN SendAddCreature(ClientRemoves(w, old, n), c)
         ELSE ClientMoves(w, c, old, n, new)
    [] CanSee(w, old) /\ ~CanSee(w, new) -> ClientRemoves(w, old, n)
    [] ~CanSee(w, old) /\ CanSee(w, new) -> SendAddCreature(w, c)
    [] OTHER -> w

\* Tile::moveCreature
MoveCreature(w, c, q, teleport) ==
  LET p == w.at[c]
      n == StackPos(w, p, c)
      v == EnterTile(Depart(w, c, p), c, q)
      sent == IF c = Viewer THEN Scroll(SendOwnMove(v, p, n, q, teleport))
              ELSE IF Spectates(v, p) \/ Spectates(v, q)
                   THEN SendMoveCreature(v, c, p, n, q, teleport) ELSE v
  IN PostRemove(sent, p)

\* Game::internalMoveCreature: the step, and the floor change it may lead to.
WalkTo(c, q) ==
  /\ <<at[c], q>> \in Steps
  /\ LET w == MoveCreature(TheMap, c, q, FALSE)
     IN MapBecomes(IF q \in DOMAIN Falls THEN MoveCreature(w, c, Falls[q], FALSE) ELSE w)

\* Game::internalTeleport of a creature.
TeleportTo(c, q) ==
  /\ at[c] \notin {Nowhere, q}
  /\ MapBecomes(MoveCreature(TheMap, c, q, TRUE))

\* Game::placeCreature; the newcomer's own client gets the map.
PlaceOn(c, p) ==
  /\ at[c] = Nowhere
  /\ LET w == EnterTile(TheMap, c, p)
     IN MapBecomes(IF c = Viewer
                   THEN AddMapDescription([w EXCEPT !.known = <<>>, !.knows = {},
                                                    !.overrun = FALSE], p)
                   ELSE SendAddCreature(w, c))

\* Game::removeCreature
Vanish(c) ==
  /\ at[c] # Nowhere
  /\ LET p == at[c]
         n == StackPos(TheMap, p, c)
         w == Depart(TheMap, c, p)
         told == IF Reaches(w, p) THEN ClientRemoves(w, p, n) ELSE w
         left == [PostRemove(told, p) EXCEPT !.at[c] = Nowhere]
     IN MapBecomes(IF c = Viewer
                   THEN [left EXCEPT !.view = <<>>, !.known = <<>>, !.knows = {}, !.overrun = FALSE]
                   ELSE left)

\* Game::internalCreatureTurn: the creature is sent by its place in the stack.
Turn(c) ==
  /\ at[c] # Nowhere /\ Reaches(TheMap, at[c])
  /\ MapBecomes(ClientUpdates(TheMap, at[c], StackPos(TheMap, at[c], c), c))

\* Game::playerUpdateTile: the client asks for a tile again.
UpdateTile(p) ==
  /\ CanSee(TheMap, p)
  /\ MapBecomes(Describe(TheMap, p))

-----------------------------------------------------------------------------

\* A client that was told to forget a creature in sight fails; what happens to
\* it from there on is not followed.
ViewNext ==
  /\ ~overrun
  /\ \/ \E c \in Movers, p \in Places :
          PlaceOn(c, p) \/ WalkTo(c, p) \/ TeleportTo(c, p)
     \/ \E c \in Movers : Vanish(c) \/ Turn(c)
     \/ \E i \in Pieces, p \in Soft :
          (\E k \in Kinds : CreateOn(i, k, p)) \/ MoveItemTo(i, p)
     \/ \E i \in Pieces : RemoveItem(i) \/ RemoveSome(i) \/ \E k \in Kinds : TransformItem(i, k)
     \/ \E p \in Places : UpdateTile(p)
     \/ \E p \in Soft : ChangeGround(p)

-----------------------------------------------------------------------------
(* What is true of it.                                                     *)

ViewTypeOK ==
  /\ \A p \in Places :
       /\ tile[p].ground \in {"soil", "grass"}
       /\ ToSet(tile[p].top \o tile[p].down) \subseteq Pieces
       /\ ToSet(tile[p].creatures) = {c \in Movers : at[c] = p}
  /\ kind \in [Pieces -> Kinds \cup {Gone}]
  /\ \A i \in Pieces : Cardinality(Lying(TheMap, i)) = (IF kind[i] = Gone THEN 0 ELSE 1)
  /\ Len(known) <= KnownLimit /\ knows \subseteq Movers /\ overrun \in BOOLEAN

\* The client's copy is the map: for every tile in the window of the player, and
\* no other, the client holds the first StackLimit things of the tile in their
\* order, however they came, went, changed or moved between the floors; a stack
\* position the server sends always names the thing it means.
InStep ==
  /\ DOMAIN view = {p \in Places : CanSee(TheMap, p)}
  /\ \A p \in DOMAIN view : view[p] = Description(TheMap, p)

\* The server's list of the creatures the client knows is the client's, and it
\* holds every creature on the client's screen, as long as no more creatures
\* than the list has room for were in sight ("lets kick some players with debug
\* errors :)", protocolgame.cpp).
KnownAgrees ==
  overrun \/ /\ ToSet(known) = knows
             /\ \A p \in DOMAIN view : ToSet(view[p]) \cap Movers \subseteq knows

\* The flags by which a tile answers for its items are those of its items.
FlagsExact ==
  \A p \in Places :
    LET here == {kind[i] : i \in ToSet(tile[p].top \o tile[p].down)}
    IN state[p] = {f \in {"field"} : here \cap Fields # {}}
                    \cup {f \in {"block"} : here \cap Blocking # {}}

\* Tiles, the client's picture of them and their flags agree after each change,
\* and the server knows which creatures the client knows.
ViewConsistent == ViewTypeOK /\ InStep /\ FlagsExact /\ KnownAgrees
================================================================================
