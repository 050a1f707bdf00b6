------------------------------- MODULE Items -------------------------------
(***************************************************************************)
(* Where the items are, and what a cylinder answers when an item is to go  *)
(* into it: the __query functions of Player, Container and Tile            *)
(* (Source/player.cpp, container.cpp, tile.cpp).                           *)
(*                                                                         *)
(* A cylinder is a player (its slots), a bag, or the one tile on which     *)
(* everything takes place.  The items are bags and coins; coins stack.  A  *)
(* world w says for each cylinder what it holds, and keeps what the code   *)
(* keeps twice: the parent of an item and the total weight of a bag.       *)
(***************************************************************************)
EXTENDS Integers, Sequences, FiniteSets, SequencesExt, FiniteSetsExt

CONSTANTS
  Players, Bags,
  Coins,       (* bound: the objects that stacks of coins are made of      *)
  Ground,      (* the tile                                                 *)
  None,        (* the null pointer                                         *)
  MaxStack,    (* coins in a stack; 100 in the code                        *)
  BagSlots,    (* capacity of a bag                                        *)
  BagWeight,   (* weight of an empty bag; a coin weighs 1                  *)
  Capacity     (* what a player can carry                                  *)

ASSUME ItemsAssumption ==
  /\ IsFiniteSet(Players) /\ IsFiniteSet(Bags) /\ IsFiniteSet(Coins)
  /\ {MaxStack, BagSlots, BagWeight, Capacity} \subseteq Nat \ {0}
  /\ Players \cap Bags = {} /\ Players \cap Coins = {} /\ Bags \cap Coins = {}
  /\ Ground \notin Players \cup Bags \cup Coins
  /\ None \notin Players \cup Bags \cup Coins \cup {Ground}

Items     == Bags \cup Coins
Cylinders == Players \cup Bags \cup {Ground}

\* SLOT_BACKPACK takes bags only, a hand takes anything.
Backpack  == 1
Hand      == 2
Slots     == {Backpack, Hand}
Fits(i, k) == i \in Bags \/ k = Hand

\* Cylinder::INDEX_WHEREEVER, and the index by which a client means the parent.
WhereEver == -1
Up        == 254

-----------------------------------------------------------------------------
(* Reading a world.                                                        *)

\* The contents of a cylinder.
In(w, c) == {w.held[c][k] : k \in DOMAIN w.held[c]} \ {None}

\* The cylinders that item i is in, the nearest to the outermost.
Above(w, i) ==
  LET up[n \in 0..Cardinality(Bags)] ==
        IF n = 0 THEN {w.parent[i]}
        ELSE up[n - 1] \cup {w.parent[b] : b \in up[n - 1] \cap Bags}
  IN up[Cardinality(Bags)] \ {None}

\* Container::isHoldingItem
IsHolding(w, b, i) == b \in Bags /\ b \in Above(w, i)

\* Item::getWeight, Container::getWeight
WeightOf(w, i) == IF i \in Coins THEN w.amount[i] ELSE BagWeight + w.weight[i]

\* Item::getItemCount
CountOf(w, i) == IF i \in Coins THEN w.amount[i] ELSE 1

\* __getThing: a player's slots count from 1, the lists from 0.
ThingAt(w, c, k) ==
  LET n == IF c \in Players THEN k ELSE k + 1
  IN IF n \in DOMAIN w.held[c] THEN w.held[c][n] ELSE None

\* __getIndexOfThing
IndexOf(w, c, i) ==
  IF \E n \in DOMAIN w.held[c] : w.held[c][n] = i
    THEN LET n == CHOOSE n \in DOMAIN w.held[c] : w.held[c][n] = i
         IN IF c \in Players THEN n ELSE n - 1
    ELSE -1

\* Player::getFreeCapacity; inventoryWeight is brought up to date by the
\* notifications at the end of every move.
FreeCapacity(w, p) ==
  Capacity -
    FoldLeft(LAMBDA s, i : IF i = None THEN s ELSE s + WeightOf(w, i), 0, w.held[p])

\* Player::hasCapacity
HasCapacity(w, p, i, n) ==
  \/ p \in Above(w, i)
  \/ (IF i \in Coins THEN n ELSE WeightOf(w, i)) < FreeCapacity(w, p)

-----------------------------------------------------------------------------
(* The queries.                                                            *)

\* Seeded fault: a bag may be put into a bag that it holds.
IntoItself(w, b, k, i, n) ==
  IF \/ i = b
     \/ k = WhereEver /\ Len(w.held[b]) >= BagSlots
     \/ \E p \in Players \cap Above(w, b) : ~HasCapacity(w, p, i, n)
    THEN "refused" ELSE "ok"

\* Container::__queryAdd: a bag in a player's inventory asks for its owner.
BagQueryAdd(w, b, k, i, n) ==
  IF \/ i = b
     \/ IsHolding(w, i, b)
     \/ k = WhereEver /\ Len(w.held[b]) >= BagSlots
     \/ \E p \in Players \cap Above(w, b) : ~HasCapacity(w, p, i, n)
    THEN "refused" ELSE "ok"

\* Player::__queryAdd; what lies in the slot is exchanged unless it is a stack
\* that can grow.
PlayerQueryAdd(w, p, k, i, n) ==
  LET there == ThingAt(w, p, k)
  IN CASE k \notin Slots \/ ~Fits(i, k) -> "refused"
       [] k \in Slots /\ Fits(i, k) /\ there # None /\ {there, i} \cap Bags # {}
            -> "exchange"
       [] OTHER -> IF HasCapacity(w, p, i, n) THEN "ok" ELSE "refused"

QueryAdd(w, c, k, i, n) ==
  CASE c \in Players -> PlayerQueryAdd(w, c, k, i, n)
    [] c \in Bags    -> BagQueryAdd(w, c, k, i, n)
    [] c = Ground    -> "ok"

\* __queryMaxCount: how much of item i there is room for at index k.
Room(w, c, k, i, n) ==
  LET there == ThingAt(w, c, k)
      grow  == IF i \in Coins /\ there \in Coins THEN MaxStack - w.amount[there] ELSE 0
      fresh == IF i \in Coins THEN MaxStack ELSE 1
      free  == BagSlots - Len(w.held[c])
  IN CASE c = Ground    -> IF n = 0 THEN 1 ELSE n
       [] c \in Bags    -> (IF free > 0 THEN free * fresh ELSE 0) + grow
       [] c \in Players -> IF there = None THEN fresh ELSE grow

\* __queryMaxCount: whether it is content with that.
RoomSuffices(w, c, k, i, n) ==
  \/ c = Ground
  \/ c \in Players /\ ThingAt(w, c, k) = None
  \/ IF i \in Coins \/ c \in Players THEN Room(w, c, k, i, n) >= n
     ELSE Room(w, c, k, i, n) > 0

\* __queryRemove
QueryRemove(w, c, i, n) ==
  /\ IndexOf(w, c, i) # -1
  /\ n # 0
  /\ i \in Coins => n <= w.amount[i]

\* Container::__queryDestination
BagDestination(w, b, k, i) ==
  LET there == IF k = WhereEver THEN None ELSE ThingAt(w, b, k)
  IN CASE k = Up -> [c  |-> IF w.parent[b] \in Bags THEN w.parent[b] ELSE b,
                     k  |-> WhereEver, to |-> None]
       [] k # Up /\ there \in Bags -> [c |-> there, k |-> WhereEver, to |-> None]
       [] OTHER -> [c |-> b, k |-> IF k >= BagSlots THEN WhereEver ELSE k, to |-> there]

\* Seeded fault: the offered bag is as good as another.
PlaceAnywhere(w, p, i) ==
  LET slots == {k \in Slots : PlayerQueryAdd(w, p, k, i, CountOf(w, i)) = "ok"
                                /\ ThingAt(w, p, k) = None}
      worn  == {k \in Slots : /\ ThingAt(w, p, k) \in Bags
                              /\ BagQueryAdd(w, ThingAt(w, p, k), WhereEver, i,
                                              CountOf(w, i)) = "ok"}
  IN CASE slots # {} -> [c |-> p, k |-> Min(slots), to |-> None]
       [] slots = {} /\ worn # {} ->
            [c |-> ThingAt(w, p, Min(worn)), k |-> WhereEver, to |-> None]
       [] OTHER -> [c |-> p, k |-> WhereEver, to |-> None]

\* Player::__queryDestination without a slot: a free slot, else a bag in a
\* slot, else a bag deeper down (their order is left open), but never the bag
\* the player is trading away.
PlaceFor(w, p, i) ==
  LET offered == w.trade[p].item
      slots == {k \in Slots : ThingAt(w, p, k) = None
                                /\ PlayerQueryAdd(w, p, k, i, CountOf(w, i)) = "ok"}
      takes(b) == BagQueryAdd(w, b, WhereEver, i, CountOf(w, i)) = "ok"
      worn  == {k \in Slots : ThingAt(w, p, k) \in Bags \ {offered}}
      first == {k \in worn : takes(ThingAt(w, p, k))}
      deep  == {b \in Bags \ {offered} :
                  takes(b) /\ \E k \in worn : IsHolding(w, ThingAt(w, p, k), b)}
  IN CASE slots # {} -> [c |-> p, k |-> Min(slots), to |-> None]
       [] slots = {} /\ first # {} ->
            [c |-> ThingAt(w, p, Min(first)), k |-> WhereEver, to |-> None]
       [] slots = {} /\ first = {} /\ deep # {} ->
            [c |-> CHOOSE b \in deep : TRUE, k |-> WhereEver, to |-> None]
       [] OTHER -> [c |-> p, k |-> WhereEver, to |-> None]

\* Player::__queryDestination with a slot: into the bag that is there.
SlotDestination(w, p, k) ==
  LET there == ThingAt(w, p, k)
  IN IF there \in Bags THEN [c |-> there, k |-> WhereEver, to |-> None]
     ELSE [c |-> p, k |-> k, to |-> there]

\* __queryDestination: the cylinder and the index an item ends at, and the
\* item it meets there.
QueryDestination(w, c, k, i) ==
  CASE c \in Players -> IF k \in {0, WhereEver} THEN PlaceFor(w, c, i)
                        ELSE SlotDestination(w, c, k)
    [] c \in Bags    -> BagDestination(w, c, k, i)
    [] c = Ground    -> [c |-> c, k |-> k, to |-> ThingAt(w, c, 0)]
=============================================================================
