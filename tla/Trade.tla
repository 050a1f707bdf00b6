------------------------------- MODULE Trade -------------------------------
(***************************************************************************)
(* Moving items and trading them: Game::internalMoveItem,                  *)
(* internalRemoveItem, playerRequestTrade, playerAcceptTrade and           *)
(* internalCloseTrade (Source/game.cpp), with the __addThing,              *)
(* __updateThing and __removeThing of the cylinders and the notifications  *)
(* by which players notice that what they offered was touched.             *)
(*                                                                         *)
(* An offered item stays where it is.  Until both players have accepted,   *)
(* anybody who can reach it may move it, take from it or use it up.        *)
(***************************************************************************)
EXTENDS Items

CONSTANTS
  Start,       (* the store to begin with: held, parent, amount, weight    *)
  MaxLying,    (* bound: things that players put on the tile               *)
  MaxPending   (* bound: objects that wait to be freed before the next task *)

\* What each cylinder of a world holds: slots, or a list.
HeldOK(w) ==
  /\ w.held \in [Cylinders -> [Slots -> Items \cup {None}] \cup Seq(Items)]
  /\ \A c \in Players : w.held[c] \in [Slots -> Items \cup {None}]
  /\ \A c \in Bags \cup {Ground} : w.held[c] \in Seq(Items)

\* An item is where its parent says, once and nowhere else; no bag is ever
\* lost, and no stack is empty (internalMoveItem, __addThing).
PlacedIn(w) ==
  /\ \A c \in Cylinders, i \in Items : i \in In(w, c) <=> w.parent[i] = c
  /\ \A c \in Bags \cup {Ground} : IsInjective(w.held[c])
  /\ \A b \in Bags : w.parent[b] # None
  /\ \A i \in Coins : w.parent[i] # None => w.amount[i] > 0

ASSUME StartAssumption ==
  /\ Start.parent \in [Items -> Cylinders \cup {None}]
  /\ Start.amount \in [Coins -> 0..MaxStack]
  /\ Start.weight \in [Bags -> Int]
  /\ HeldOK(Start) /\ PlacedIn(Start)

VARIABLES
  parent,      (* item -> the cylinder it is in                            *)
  held,        (* cylinder -> slots, or list, of items                     *)
  amount,      (* Item::count of the coins                                 *)
  weight,      (* Container::total_weight                                  *)
  refs,        (* Thing::useCount of the items                             *)
  toRelease,   (* Game::ToReleaseThings, as a bag                          *)
  trade,       (* player -> tradeState, tradeItem, tradePartner            *)
  tradeItems,  (* Game::tradeItems                                         *)
  spent,       (* coins used up so far                                     *)
  crashed      (* a null pointer was followed                              *)

vars == <<parent, held, amount, weight, refs, toRelease, trade, tradeItems,
          spent, crashed>>

World == [parent |-> parent, held |-> held, amount |-> amount, weight |-> weight,
          refs |-> refs, toRelease |-> toRelease, trade |-> trade,
          tradeItems |-> tradeItems, crashed |-> crashed]

Becomes(w) ==
  /\ parent' = w.parent
  /\ held' = w.held
  /\ amount' = w.amount
  /\ weight' = w.weight
  /\ refs' = w.refs
  /\ toRelease' = w.toRelease
  /\ trade' = w.trade
  /\ tradeItems' = w.tradeItems
  /\ crashed' = w.crashed

NoTrade == [state |-> "none", item |-> None, partner |-> None]

Init ==
  /\ parent = Start.parent
  /\ held = Start.held
  /\ amount = Start.amount
  /\ weight = Start.weight
  /\ refs = [i \in Items |-> IF parent[i] = None THEN 0 ELSE 1]
  /\ toRelease = [i \in Items |-> 0]
  /\ trade = [p \in Players |-> NoTrade]
  /\ tradeItems = {}
  /\ spent = 0
  /\ crashed = FALSE

-----------------------------------------------------------------------------
(* Trades that end.                                                        *)

FreeThing(w, i) == [w EXCEPT !.toRelease[i] = @ + 1]

\* Seeded fault: only the player who closes loses the trade.
CloseOwnTrade(w, S) ==
  LET back == {w.trade[p].item : p \in S} \cap w.tradeItems
  IN [w EXCEPT !.trade = [p \in Players |-> IF p \in S THEN NoTrade ELSE @[p]],
               !.tradeItems = @ \ back,
               !.toRelease = [i \in Items |-> @[i] + (IF i \in back THEN 1 ELSE 0)]]

\* Game::internalCloseTrade for each player of S; both sides lose their trade.
CloseTrades(w, S) ==
  LET moving(p) == \/ w.trade[p].state = "transfer"
                   \/ /\ w.trade[p].partner # None
                      /\ w.trade[w.trade[p].partner].state = "transfer"
      hit  == {p \in S : ~moving(p)}
      ends == (hit \cup {w.trade[p].partner : p \in hit}) \ {None}
      back == {w.trade[p].item : p \in ends} \cap w.tradeItems
  IN [w EXCEPT !.trade = [p \in Players |-> IF p \in ends THEN NoTrade ELSE @[p]],
               !.tradeItems = @ \ back,
               !.toRelease = [i \in Items |-> @[i] + (IF i \in back THEN 1 ELSE 0)]]

\* The players who are told of a change in cylinder c.
Watching(c) == IF c \in Players THEN {c} ELSE Players

\* Player::checkTradeState: item i, in some cylinder, is or is part of the offer.
IsOffered(w, p, i) ==
  LET t == w.trade[p].item
  IN t # None /\ (t = i \/ IsHolding(w, t, i))

\* Player::onUpdateContainerItem, onAddContainerItem, onUpdateInventoryItem,
\* onUpdateTileItem.
Changed(w, c, i) == CloseTrades(w, {p \in Watching(c) : IsOffered(w, p, i)})

\* Seeded fault: a bag that holds the offer may go.
RemovedAlone(w, c, i) == Changed(w, c, i)

\* Player::onRemoveContainerItem, onRemoveInventoryItem, onRemoveTileItem.
Removed(w, c, i) ==
  LET with(p) == LET t == w.trade[p].item
                 IN /\ t # None
                    /\ IF c \in Bags THEN w.parent[t] # c /\ IsHolding(w, c, t)
                       ELSE IsHolding(w, i, t)
  IN CloseTrades(w, {p \in Watching(c) : IsOffered(w, p, i) \/ with(p)})

-----------------------------------------------------------------------------
(* Changing what a cylinder holds.                                         *)

\* Container::updateItemWeight, of the bag and of those it is in.
Reweigh(w, c, d) ==
  [w EXCEPT !.weight = [b \in Bags |-> IF b = c \/ (c \in Bags /\ IsHolding(w, b, c))
                                       THEN @[b] + d ELSE @[b]]]

\* __addThing: lists grow at the front, whatever the index; a player without
\* a slot number takes nothing.
AddThing(w, c, k, i) ==
  LET into == [w EXCEPT !.parent[i] = c]
  IN CASE c \in Players ->
            IF k \in Slots THEN [into EXCEPT !.held[c][k] = i] ELSE w
       [] c \in Bags ->
            IF k >= BagSlots THEN w
            ELSE Changed(Reweigh([into EXCEPT !.held[c] = <<i>> \o @], c, WeightOf(w, i)), c, i)
       [] c = Ground -> [into EXCEPT !.held[c] = <<i>> \o @]

\* __updateThing
UpdateThing(w, c, i, n) ==
  Changed(Reweigh([w EXCEPT !.amount[i] = n], c, n - w.amount[i]), c, i)

\* __removeThing: a part of a stack, or the item.
RemoveThing(w, c, i, n) ==
  IF i \in Coins /\ n # w.amount[i]
    THEN UpdateThing(w, c, i, IF n < w.amount[i] THEN w.amount[i] - n ELSE 0)
    ELSE LET told == Removed(w, c, i)
             left == IF c \in Players
                       THEN [k \in Slots |-> IF w.held[c][k] = i THEN None ELSE w.held[c][k]]
                       ELSE RemoveAt(w.held[c], IndexOf(w, c, i) + 1)
         IN [Reweigh(told, c, -WeightOf(w, i)) EXCEPT
               !.held[c] = left, !.parent[i] = None]

\* Item::CreateItem takes an object that is not in use.
Unused(w) == {i \in Coins : w.refs[i] = 0}
NewStack(w) == CHOOSE i \in Unused(w) : TRUE
CreateItem(w, n) == [w EXCEPT !.refs[NewStack(w)] = 1, !.amount[NewStack(w)] = n]

-----------------------------------------------------------------------------
(* Game::internalMoveItem.                                                 *)

\* What lies in the slot goes where the item comes from.
CanExchange(w, from, d, i) ==
  LET n == CountOf(w, d.to)
  IN /\ QueryAdd(w, from, IndexOf(w, from, i), d.to, n) = "ok"
     /\ RoomSuffices(w, from, WhereEver, d.to, n) \/ Room(w, from, WhereEver, d.to, n) # 0
     /\ QueryRemove(w, d.c, d.to, n)

Exchange(w, from, d) ==
  AddThing(RemoveThing(w, d.c, d.to, CountOf(w, d.to)), from, 0, d.to)

\* Seeded fault: the new stack has all the coins.
RestTwice(w, d, i, m) ==
  LET n  == IF d.to \in Coins THEN Min({MaxStack - w.amount[d.to], m}) ELSE 0
      w1 == IF n > 0 THEN UpdateThing(w, d.c, d.to, w.amount[d.to] + n) ELSE w
      w2 == IF w.parent[i] = None THEN FreeThing(w1, i) ELSE w1
  IN IF m = n THEN w2 ELSE AddThing(CreateItem(w2, m), d.c, d.k, NewStack(w1))

\* The coins that do not fit on the stack they meet become a new stack; a
\* stack that was moved as a whole is freed.
PutCoins(w, d, i, m) ==
  LET grows == d.to \in Coins
      n  == IF grows THEN Min({MaxStack - w.amount[d.to], m}) ELSE 0
      w1 == IF grows THEN UpdateThing(w, d.c, d.to, w.amount[d.to] + n) ELSE w
      w2 == IF m > n THEN CreateItem(w1, m - n) ELSE w1
      w3 == IF w.parent[i] = None THEN FreeThing(w2, i) ELSE w2
  IN IF m > n THEN AddThing(w3, d.c, d.k, NewStack(w1)) ELSE w3

\* Remove as much as there is room for, then add it.
Transfer(w, from, d, i, n) ==
  LET room == Room(w, d.c, d.k, i, n)
      m    == IF i \in Coins THEN Min({n, room}) ELSE room
      out  == RemoveThing(w, from, i, m)
  IN IF \/ room = 0 /\ ~RoomSuffices(w, d.c, d.k, i, n)
        \/ ~QueryRemove(w, from, i, m)
       THEN w
     ELSE IF i \in Coins THEN PutCoins(out, d, i, m) ELSE AddThing(out, d.c, d.k, i)

\* A bag to which another cylinder sends the item keeps it, so one
\* __queryDestination is enough.
InternalMoveItem(w, from, to, k, i, n) ==
  LET d     == QueryDestination(w, to, k, i)
      first == QueryAdd(w, d.c, d.k, i, n)
      swap  == Exchange(w, from, d)
  IN CASE i = d.to -> w
       [] i # d.to /\ first = "ok" -> Transfer(w, from, d, i, n)
       [] i # d.to /\ first = "exchange" /\ CanExchange(w, from, d, i) ->
            IF QueryAdd(swap, d.c, d.k, i, n) = "ok"
              THEN Transfer(swap, from, [d EXCEPT !.to = None], i, n) ELSE swap
       [] OTHER -> w

\* Game::internalRemoveItem of n coins
InternalRemoveItem(w, i, n) ==
  LET w1 == RemoveThing(w, w.parent[i], i, n)
  IN IF w1.parent[i] = None THEN FreeThing(w1, i) ELSE w1

-----------------------------------------------------------------------------
(* The tasks.                                                              *)

\* The cylinders that player p can use: its own, and the tile with its bags.
Reach(w, p) == {p, Ground} \cup {b \in Bags : {p, Ground} \cap Above(w, b) # {}}

\* The items p can point at: of those on the tile only the uppermost.
InternalGetThing(w, p) ==
  {i \in Items : /\ w.parent[i] \in Reach(w, p)
                 /\ w.parent[i] = Ground => i = ThingAt(w, Ground, 0)}

\* The indices that a client may send for a cylinder.
Indices(c) == IF c \in Players THEN Slots \cup {0}
              ELSE IF c \in Bags THEN (0..BagSlots) \cup {Up} ELSE {0}

\* Game::playerMoveItem
MoveItem(p) ==
  LET w == World
  IN /\ Unused(w) # {}
     /\ \E i \in InternalGetThing(w, p), c \in Reach(w, p) :
          \E k \in Indices(c), n \in IF i \in Coins THEN 1..MaxStack ELSE {1} :
            Becomes(InternalMoveItem(w, parent[i], c, k, i, n))
     /\ Len(held'[Ground]) <= MaxLying
     /\ UNCHANGED spent

\* A rune, a spell or a script uses up coins.
UseUp(i) ==
  /\ parent[i] # None
  /\ \E n \in 1..amount[i] :
       /\ Becomes(InternalRemoveItem(World, i, n))
       /\ spent' = spent + n

\* Game::internalStartTrade
InternalStartTrade(w, p, q, i) ==
  LET w1 == [w EXCEPT !.trade[p] = [state |-> "init", item |-> i, partner |-> q],
                      !.refs[i] = @ + 1, !.tradeItems = @ \cup {i}]
  IN IF w.trade[q].state = "none"
       THEN [w1 EXCEPT !.trade[q] = [@ EXCEPT !.state = "ack", !.partner = p]] ELSE w1

\* Game::playerRequestTrade.  Left out: the walk
\* to an item that is too far, which ends in a new request, and the limit of a
\* hundred items.
RequestTrade(p, q, i) ==
  /\ p # q
  /\ i \in InternalGetThing(World, p)
  /\ \A t \in tradeItems : t # i /\ ~IsHolding(World, i, t) /\ ~IsHolding(World, t, i)
  /\ \/ trade[p].state = "none"
     \/ trade[p].state = "ack" /\ trade[p].partner = q
  /\ trade[q].state # "none" => trade[q].partner = p
  /\ Becomes(InternalStartTrade(World, p, q, i))
  /\ UNCHANGED spent

\* internalAddItem with test = TRUE
TestAdd(w, p, i) ==
  LET d == QueryDestination(w, p, WhereEver, i)
  IN /\ QueryAdd(w, d.c, d.k, i, CountOf(w, i)) = "ok"
     /\ RoomSuffices(w, d.c, d.k, i, CountOf(w, i))

\* internalRemoveItem with test = TRUE
TestRemove(w, i) ==
  w.parent[i] # None /\ QueryRemove(w, w.parent[i], i, CountOf(w, i))

\* Give i, from where it is, to player q.
Give(w, i, q) == InternalMoveItem(w, w.parent[i], q, WhereEver, i, CountOf(w, i))

\* The second to accept carries the trade out; first i to q, then j to p.  A
\* player who accepted without an offer makes the server follow a null pointer.
CarryOut(w, p, q) ==
  LET i    == w.trade[p].item
      j    == w.trade[q].item
      back == {i, j} \cap w.tradeItems
      w1   == [w EXCEPT !.trade[p].state = "transfer", !.trade[q].state = "transfer",
                        !.tradeItems = @ \ back,
                        !.toRelease = [t \in Items |-> @[t] + (IF t \in back THEN 1 ELSE 0)]]
      w2   == IF /\ TestAdd(w1, q, i) /\ TestAdd(w1, p, j)
                 /\ TestRemove(w1, i) /\ TestRemove(w1, j)
                THEN Give(Give(w1, i, q), j, p) ELSE w1
  IN IF None \in {i, j} THEN [w EXCEPT !.crashed = TRUE]
     ELSE [w2 EXCEPT !.trade[p] = NoTrade, !.trade[q] = NoTrade]

\* Game::playerAcceptTrade
AcceptTrade(p) ==
  /\ trade[p].state \in {"ack", "init"}
  /\ Cardinality(Unused(World)) > 1
  /\ LET w == [World EXCEPT !.trade[p].state = "accept"]
         q == trade[p].partner
     IN Becomes(IF q # None /\ w.trade[q].state = "accept" THEN CarryOut(w, p, q) ELSE w)
  /\ UNCHANGED spent

\* Game::playerCloseTrade; Player::onCreatureMove and onCreatureDisappear, for
\* who walks or logs out and so leaves the partner, or what it offered here.
CloseTrade(p) ==
  /\ trade[p].state # "none"
  /\ Becomes(CloseTrades(World, {p}))
  /\ UNCHANGED spent

\* Game::cleanup; an object without references is deleted.
Cleanup ==
  /\ \E i \in Items : toRelease[i] > 0
  /\ LET left == [i \in Items |-> refs[i] - toRelease[i]]
     IN Becomes([World EXCEPT !.refs = left, !.toRelease = [i \in Items |-> 0],
                              !.amount = [i \in Coins |-> IF left[i] = 0 THEN 0 ELSE @[i]]])
  /\ UNCHANGED spent

Task ==
  \/ \E p \in Players : MoveItem(p) \/ AcceptTrade(p) \/ CloseTrade(p)
  \/ \E p, q \in Players, i \in Items : RequestTrade(p, q, i)
  \/ \E i \in Coins : UseUp(i)

Next ==
  /\ ~crashed
  /\ \/ SumFunction(toRelease) <= MaxPending /\ Task
     \/ Cleanup

Spec == Init /\ [][Next]_vars

-----------------------------------------------------------------------------
(* Properties.                                                             *)

\* The variables stay in their types.
TypeOK ==
  /\ parent \in [Items -> Cylinders \cup {None}]
  /\ HeldOK(World)
  /\ amount \in [Coins -> 0..MaxStack]
  /\ weight \in [Bags -> Int]
  /\ refs \in [Items -> Nat] /\ toRelease \in [Items -> Nat]
  /\ trade \in [Players -> [state : {"none", "ack", "init", "accept"},
                            item : Items \cup {None}, partner : Players \cup {None}]]
  /\ tradeItems \subseteq Items
  /\ spent \in Nat
  /\ crashed \in BOOLEAN

\* The coins of the stacks of S, counted one by one: the k-th of stack i is <<i, k>>.
CoinsIn(w, S) == Cardinality({c \in S \X (1..MaxStack) : c[2] <= w.amount[c[1]]})

\* Moving, stacking, splitting and trading neither makes nor loses a coin.
CoinsConserved ==
  CoinsIn(World, {i \in Coins : parent[i] # None}) + spent =
    CoinsIn(Start, {i \in Coins : Start.parent[i] # None})

\* Trades are between two who both know of it: partners name each other, who
\* offers is in the list of offers, and nothing is offered by two.
PartnersAgree ==
  /\ \A p \in Players :
       LET t == trade[p]
       IN /\ (t.state = "none") <=> (t.partner = None)
          /\ t.state \in {"none", "ack"} => t.item = None
          /\ t.state = "init" => t.item # None
          /\ t.partner # None => /\ trade[t.partner].partner = p
                                 /\ {t.item, trade[t.partner].item} # {None}
  /\ tradeItems = {trade[p].item : p \in Players} \ {None}
  /\ \A p, q \in Players : p # q /\ trade[q].item # None => trade[p].item # trade[q].item

\* What is offered, with all that is in it, is not touched as long as the offer
\* stands; and it stays with the player or on the ground.
Contents(w, i) == [j \in {j \in Items : j = i \/ IsHolding(w, i, j)} |->
                     <<w.parent[j], CountOf(w, j)>>]

OfferStands ==
  [][\A p \in Players :
       LET i == trade[p].item
       IN /\ i # None
          /\ trade'[p].item = i
          /\ <<parent, amount>>' # <<parent, amount>>
          => LET v == World'
             IN /\ Contents(v, i) = Contents(World, i)
                /\ {p, Ground} \cap Above(v, i) # {}]_vars

\* What a player owns.
Belongings(w, p) ==
  [bags  |-> {b \in Bags : p \in Above(w, b)},
   coins |-> CoinsIn(w, {i \in Coins : p \in Above(w, i)})]

\* Item i counts for the coins and the bags it is made of.
Value(w, i) ==
  [bags  |-> {b \in Bags : b = i \/ IsHolding(w, i, b)},
   coins |-> CoinsIn(w, {j \in Coins : j = i \/ IsHolding(w, i, j)})]

\* What p owns when it has given i and got j.
Swapped(w, p, i, j) ==
  LET own  == Belongings(w, p)
      gave == IF p \in Above(w, i) THEN Value(w, i) ELSE [bags |-> {}, coins |-> 0]
      got  == Value(w, j)
  IN [bags |-> (own.bags \ gave.bags) \cup got.bags,
      coins |-> own.coins - gave.coins + got.coins]

\* The exception: an offered bag that is carried in a bag and holds a bag.
\* Player::__queryDestination passes over the offered bag but not over what is
\* in it, so what the player gets may travel back inside.
Nested(w, i) == i \in Bags /\ w.parent[i] \in Bags
                 /\ \E b \in Bags : IsHolding(w, i, b)

\* When the second player accepts, both get what the other offered, or neither
\* does (playerAcceptTrade does not look at what internalMoveItem returns).
FairExchange ==
  [][\A p, q \in Players :
       LET i == trade[p].item
           j == trade[q].item
       IN /\ trade[p].partner = q /\ trade[q].state = "accept" /\ None \notin {i, j}
          /\ trade' # trade /\ <<parent, held, amount>>' # <<parent, held, amount>>
          /\ ~Nested(World, i) /\ ~Nested(World, j)
          /\ AcceptTrade(p)
          => /\ Belongings(World', p) = Swapped(World, p, i, j)
             /\ Belongings(World', q) = Swapped(World, q, j, i)]_vars

\* An item is never released more often than it was referenced, and who is
\* deleted is neither in a cylinder nor in a trade.
ReleasedSafely ==
  \A i \in Items :
    /\ toRelease[i] <= refs[i]
    /\ refs[i] - toRelease[i] =
         (IF parent[i] # None THEN 1 ELSE 0) + (IF i \in tradeItems THEN 1 ELSE 0)

\* Sound types, every item in its place, counted by those who hold it, and both
\* sides of a trade agreed, after any moves, splits and exchanges.
StoreConsistent == TypeOK /\ PlacedIn(World) /\ ReleasedSafely /\ PartnersAgree

\* Whatever is put into what, no bag is inside itself, no offer is part of
\* another, and the total weight that a bag keeps is the weight of what is in it
\* (Container::updateItemWeight).
BagsConsistent ==
  /\ \A i \in Items : parent[i] # None => (Players \cup {Ground}) \cap Above(World, i) # {}
  /\ \A p, q \in Players : p # q /\ trade[q].item # None => ~IsOffered(World, p, trade[q].item)
  /\ \A b \in Bags :
       weight[b] = MapThenSumSet(LAMBDA i : WeightOf(World, i), In(World, b))
=============================================================================
