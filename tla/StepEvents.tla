----------------------------- MODULE StepEvents -----------------------------
(***************************************************************************)
(* The events of tiles (movement.cpp): what runs when a creature steps on  *)
(* or off a tile and when an item comes or goes, and the cache of the tile *)
(* asked last, m_lastCacheTile and m_lastCacheItemVector.                  *)
(*                                                                         *)
(* The cache is filled by the very loop that runs the scripts.  A script   *)
(* may add, remove or change items of the tile, or move the creature, and  *)
(* each of these asks the cache again from within the loop.  Calls are     *)
(* kept on a stack of jobs, as in the program; a step of the model is one  *)
(* turn of a loop.                                                         *)
(***************************************************************************)
EXTENDS Integers, Sequences, FiniteSets, SequencesExt

CONSTANTS
  Tiles,
  Tops, Downs,   (* items that lie under, and above, creatures              *)
  Fields,        (* magic fields, splashes: a new one replaces the old      *)
  Walker,        (* a creature                                              *)
  FirstKinds,    (* item -> the kind it begins as                           *)
  MaxScripts,    (* bound: what scripts do within one task                  *)
  MaxCache,      (* bound: entries of the cache, the empty ones too         *)
  MaxDepth,      (* ScriptEnviroment's limit of 16 nested events            *)
  NoTile, NoItem

ASSUME StepAssumption ==
  /\ NoTile \notin Tiles /\ Tiles # {} /\ {NoItem, Walker} \cap (Tops \cup Downs) = {}
  /\ Fields \subseteq Tops \cup Downs /\ Tops \cap Downs = {}
  /\ FirstKinds \in [Tops \cup Downs -> {"step", "tile", "none"}]

VARIABLES
  things,     (* tile -> its things as __getThing counts them              *)
  kind,       (* "step", "tile" or "none": the events of an item's type     *)
  cacheTile,  (* m_lastCacheTile                                            *)
  cache,      (* m_lastCacheItemVector                                      *)
  jobs,       (* the calls under way                                        *)
  scripts,    (* what scripts have done in this task                        *)
  disturbed,  (* the cache was filled while the tile changed or for two     *)
              (* tiles, or told of an item a script had taken away, or not  *)
              (* told of a field that another one replaced                  *)
  skipped,    (* the item the last filling passed over: the one that came   *)
  danger      (* an undisturbed cache has asked the type of a freed item    *)

stepVars == <<things, kind, cacheTile, cache, jobs, scripts, disturbed, skipped, danger>>

TileItems  == Tops \cup Downs
Things     == TileItems \cup {Walker}
Step == [things |-> things, kind |-> kind, cacheTile |-> cacheTile, cache |-> cache,
         jobs |-> jobs, scripts |-> scripts, disturbed |-> disturbed, skipped |-> skipped,
         danger |-> danger]

StepBecomes(w) ==
  /\ things' = w.things /\ kind' = w.kind /\ cacheTile' = w.cacheTile /\ cache' = w.cache
  /\ jobs' = w.jobs /\ scripts' = w.scripts /\ disturbed' = w.disturbed /\ skipped' = w.skipped
  /\ danger' = w.danger

TileOf(w, x) == IF \E t \in Tiles : Contains(w.things[t], x)
                THEN CHOOSE t \in Tiles : Contains(w.things[t], x) ELSE NoTile

\* MoveEvents::hasTileEvent
HasTileEvent(w, x) == w.kind[x] # "none"

Job(do, t, x, kind0) == [do |-> do, tile |-> t, item |-> x, of |-> kind0, i |-> 0, last |-> 0]

Push(w, js) == [w EXCEPT !.jobs = js \o @]

\* A loop that fills the cache, somewhere on the stack.
Filling(w, t) == \E k \in DOMAIN w.jobs : w.jobs[k].do = "fill" /\ w.jobs[k].tile = t

Disturb(w, t) == [w EXCEPT !.disturbed = @ \/ Filling(w, t)]

-----------------------------------------------------------------------------
(* Tile::__addThing, __removeThing and the notifications.                  *)

\* The things of a tile that are in a set, in their order.
Those(s, S) ==
  LET kept[n \in 0..Len(s)] == IF n = 0 THEN <<>>
                               ELSE IF s[n] \in S THEN Append(kept[n - 1], s[n]) ELSE kept[n - 1]
  IN kept[Len(s)]

Layer(x) == IF x \in Tops THEN Tops ELSE Downs

\* Under creatures, among them, or in front of what lies above them.
Insert(s, x) ==
  LET low == IF x \in Tops THEN Tops ELSE Things \ Downs
  IN Those(s, low) \o <<x>> \o Those(s, Things \ low)

\* Tile::__addThing: the old field is freed, and nobody is told but those who
\* see it.
Put(w, t, x)  ==
  LET old == IF x \in Fields THEN Fields \cap Layer(x) \cap ToSet(w.things[t]) ELSE {}
      rest == Those(w.things[t], Things \ old)
  IN [Disturb(w, t) EXCEPT !.things[t] = Insert(rest, x),
                           !.disturbed = @ \/ (w.cacheTile = t /\ old \cap ToSet(w.cache) # {})]
Lift(w, t, x) == Disturb([w EXCEPT !.things[t] = Those(@, Things \ {x})], t)

\* MoveEvents::onAddTileItem
OnAddTileItem(w, t, x) ==
  IF w.cacheTile = t /\ ~Contains(w.cache, x) /\ HasTileEvent(w, x)
  THEN [w EXCEPT !.cache = Append(@, x)] ELSE w

\* Seeded fault: the cache is not told of what leaves.
OnRemoveUntold(w, t, x) == w

\* MoveEvents::onRemoveTileItem: one entry becomes null.
OnRemoveTileItem(w, t, x) ==
  IF w.cacheTile = t /\ Contains(w.cache, x)
  THEN LET k == CHOOSE k \in DOMAIN w.cache :
                  w.cache[k] = x /\ \A j \in 1..(k - 1) : w.cache[j] # x
       IN [w EXCEPT !.cache[k] = NoItem]
  ELSE w

\* An item comes to t, and the events of its coming; or goes.
ItemComes(w, t, x) == Push(OnAddTileItem(Put(w, t, x), t, x), <<Job("ask", t, x, "tile")>>)
ItemGoes(w, t, x)  == Push(OnRemoveTileItem(Lift(w, t, x), t, x), <<Job("ask", t, x, "tile")>>)

\* Game::internalMoveItem between tiles: both are changed, then both notified.
ItemMoves(w, from, to, x) ==
  LET v == Put(Lift(w, from, x), to, x)
  IN Push(OnRemoveTileItem(v, from, x),
          <<Job("ask", from, x, "tile"), Job("came", to, x, "tile")>>)

\* Game::transformItem within a type: it is taken for gone, then for new.
ItemChanges(w, t, x, to) ==
  Push(OnRemoveTileItem(Disturb(w, t), t, x), <<Job("ask", t, x, "tile"), Job("change", t, x, to)>>)

\* doSetItemActionId, of an item on a tile: the cache is told, nobody is called.
SetActionId(w, t, x, to) ==
  OnAddTileItem([OnRemoveTileItem(Disturb(w, t), t, x) EXCEPT !.kind[x] = to], t, x)

\* Tile::moveCreature
CreatureMoves(w, from, to) ==
  Push(Put(Lift(w, from, Walker), to, Walker),
       <<Job("ask", from, Walker, "step"), Job("ask", to, Walker, "step")>>)

-----------------------------------------------------------------------------
(* The loops.                                                              *)

Top  == Head(jobs)
Pop(w) == [w EXCEPT !.jobs = Tail(@)]
Turn(w) == [w EXCEPT !.jobs[1].i = @ + 1]

\* MoveEvents::onCreatureMove and onItemMove, after the event of the position
\* and the item's own: with the cache of this tile, or filling it.
StartLoop(w) ==
  LET t == Head(w.jobs).tile
      filled == [w EXCEPT !.cacheTile = t, !.cache = <<>>, !.skipped = NoItem,
                          !.disturbed = \E k \in DOMAIN w.jobs : w.jobs[k].do = "fill",
                          !.jobs[1].do = "fill", !.jobs[1].last = Len(w.things[t])]
  IN IF w.cacheTile # t THEN filled
     ELSE IF w.cache = <<>> THEN Pop(w)
     ELSE [w EXCEPT !.jobs[1].do = "use"]

\* A script runs, nested at most MaxDepth deep, and does one thing.
Runs(w) ==
  IF scripts = MaxScripts \/ Len(cache) >= MaxCache \/ Cardinality({k \in DOMAIN jobs : jobs[k].do \in {"fill", "use"}}) > MaxDepth
  THEN {w}
  ELSE LET did == [w EXCEPT !.scripts = @ + 1] IN {w} \cup
    {ItemGoes(did, TileOf(w, x), x) : x \in {x \in TileItems : TileOf(w, x) # NoTile}}
    \cup {ItemComes(did, t, x) : t \in Tiles, x \in {x \in TileItems : TileOf(w, x) = NoTile /\ w.kind[x] # "freed"}}
    \cup {ItemChanges(did, TileOf(w, x), x, IF w.kind[x] = "step" THEN "none" ELSE "step") :
            x \in {x \in TileItems : TileOf(w, x) # NoTile /\ w.kind[x] # "tile"}}
    \cup {SetActionId(did, TileOf(w, x), x, IF w.kind[x] = "tile" THEN "none" ELSE "tile") :
            x \in {x \in TileItems : TileOf(w, x) # NoTile}}
    \cup {CreatureMoves(did, TileOf(w, Walker), t) : t \in Tiles \ {TileOf(w, Walker)}}

\* MoveEvent::executeStep and executeAddRemItem, from a loop.
Fire(w) == Runs(Turn(w))

\* One item of the cache.
UseTurn ==
  LET x == cache[Top.i + 1]
  IN \E w \in IF Top.i >= Len(cache) THEN {Pop(Step)}
              ELSE IF x = NoItem \/ x = Top.item THEN {Turn(Step)}
              ELSE IF kind[x] = Top.of THEN Fire(Step)
              ELSE {Turn([Step EXCEPT !.danger = @ \/ (kind[x] = "freed" /\ ~disturbed)])} : StepBecomes(w)

\* One thing of the tile, up to the number there were.
FillTurn ==
  LET s == things[Top.tile]
      x == s[Top.i + 1]
      kept == [Step EXCEPT !.cache = Append(@, x)]
  IN \E w \in IF Top.i >= Top.last THEN {Pop(Step)}
              ELSE IF Top.i >= Len(s) \/ x \notin TileItems THEN {Turn(Step)}
              ELSE IF x = Top.item THEN {Turn([Step EXCEPT !.skipped = x])}
              ELSE IF kind[x] = Top.of THEN Fire(kept)
              ELSE IF HasTileEvent(Step, x) THEN {Turn(kept)} ELSE {Turn(Step)} : StepBecomes(w)

Work ==
  /\ jobs # <<>>
  /\ \/ Top.do = "ask" /\ \E w \in Runs([Step EXCEPT !.jobs[1].do = "start"]) :
                                    StepBecomes(IF w.jobs[1].do = "start" THEN StartLoop(w) ELSE w)
     \/ Top.do = "start" /\ StepBecomes(StartLoop(Step))
     \/ Top.do = "came" /\ StepBecomes(
          LET w == OnAddTileItem([Step EXCEPT !.jobs[1].do = "ask"], Top.tile, Top.item)
          IN [w EXCEPT !.disturbed = @ \/ (w.cache # cache /\ TileOf(Step, Top.item) # Top.tile)])
     \/ Top.do = "change" /\ StepBecomes(
          IF TileOf(Step, Top.item) # Top.tile THEN Pop(Step)
          ELSE OnAddTileItem([Step EXCEPT !.kind[Top.item] = Top.of, !.jobs[1].do = "ask", !.jobs[1].of = "tile"],
                             Top.tile, Top.item))
     \/ Top.do = "use" /\ UseTurn
     \/ Top.do = "fill" /\ FillTurn

-----------------------------------------------------------------------------
(* Between tasks what was removed is freed; then something moves.          *)

Freed == [Step EXCEPT !.kind = [x \in TileItems |-> IF TileOf(Step, x) = NoTile THEN "freed" ELSE @[x]],
                      !.scripts = 0]

\* A new object may have the address of one that was freed.
Remade(w, x) == [w EXCEPT !.kind[x] = FirstKinds[x]]

Quiet(w) == jobs = <<>> /\ StepBecomes(w)

WalkerSteps(t)  == t # TileOf(Step, Walker) /\ Quiet(CreatureMoves(Freed, TileOf(Step, Walker), t))
Room == Len(cache) < MaxCache
ItemThrown(x, t) == Room /\ TileOf(Step, x) \notin {NoTile, t} /\ Quiet(ItemMoves(Freed, TileOf(Step, x), t, x))
ItemRemoved(x)  == TileOf(Step, x) # NoTile /\ Quiet(ItemGoes(Freed, TileOf(Step, x), x))
ItemCreated(x, t) == Room /\ TileOf(Step, x) = NoTile /\ Quiet(ItemComes(Remade(Freed, x), t, x))

StepInit ==
  /\ things = [t \in Tiles |-> IF t = CHOOSE u \in Tiles : TRUE THEN <<Walker>> ELSE <<>>]
  /\ kind = FirstKinds
  /\ cacheTile = NoTile /\ cache = <<>> /\ jobs = <<>>
  /\ scripts = 0 /\ disturbed = FALSE /\ skipped = NoItem /\ danger = FALSE

StepNext ==
  \/ Work
  \/ \E t \in Tiles : WalkerSteps(t)
  \/ \E x \in TileItems, t \in Tiles : ItemThrown(x, t)
  \/ \E x \in TileItems : ItemRemoved(x)
  \/ \E x \in TileItems, t \in Tiles : ItemCreated(x, t)

StepSpec == StepInit /\ [][StepNext]_stepVars

-----------------------------------------------------------------------------
StepTypeOK ==
  /\ cacheTile \in Tiles \cup {NoTile} /\ ToSet(cache) \subseteq TileItems \cup {NoItem}
  /\ \A x \in TileItems : Cardinality({t \in Tiles : Contains(things[t], x)}) <= 1

\* Between tasks the cache holds each item of its tile that has an event, once,
\* and nothing from elsewhere - unless the tile changed while the cache was being filled:
\* then an item may be missing, or be there twice and stay after it is freed,
\* until another tile is asked for - or was told that an item had come which
\* the scripts of the tile it came from had meanwhile taken away, or a new
\* field or splash has taken the place of an old one.  The filling that an item's own coming
\* begins passes over that item: its events stay unheard as long.
CacheExact ==
  jobs = <<>> /\ cacheTile # NoTile /\ ~disturbed =>
    LET live == ToSet(cache) \ {NoItem}
        owed == {x \in ToSet(things[cacheTile]) \cap TileItems : HasTileEvent(Step, x)}
    IN /\ \A j, k \in DOMAIN cache : cache[j] = cache[k] => j = k \/ cache[j] = NoItem
       /\ owed \ {skipped} \subseteq live /\ live \subseteq ToSet(things[cacheTile])

\* So that no event is looked up for an item that was freed.
NothingFreedIsAsked == ~danger

StepConsistent == StepTypeOK /\ CacheExact /\ NothingFreedIsAsked
=============================================================================
