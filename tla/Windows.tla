------------------------------ MODULE Windows -------------------------------
(***************************************************************************)
(* What a client has open: the windows of containers, its inventory and    *)
(* the windows to write in (player.cpp, container.cpp, Actions.cpp, the    *)
(* requests of game.cpp and the messages of protocolgame.cpp).             *)
(*                                                                         *)
(* The server keeps a list of the containers that a player looks into; the *)
(* client shows what it was last told, and changes what it shows by slot   *)
(* numbers.  Anybody may meanwhile carry a container away, empty it, throw *)
(* it out of reach or burn it with all that is in it, and the player may   *)
(* walk off.  The client is external: it does what messages tell it.       *)
(*                                                                         *)
(* A thing's place is a tile (a number: one axis stands for two), the      *)
(* person who wears it, the container it is in, or Nowhere.                *)
(***************************************************************************)
EXTENDS Integers, Sequences, FiniteSets, SequencesExt

CONSTANTS
  Persons, Bags, Papers,
  Lookers,              (* bound: the persons who open containers           *)
  Depots, DepotOwner,   (* the depot boxes, and whose each is               *)
  Squares, Lockers,     (* the tiles; those where a depot can be opened     *)
  Cids,                 (* the numbers of a client's windows                *)
  Capacity,             (* bound: things in one container                   *)
  MaxLetters,           (* bound: windows to write in                       *)
  Nowhere

VARIABLES
  place,      (* Thing::getParent, of bags and papers                       *)
  inside,     (* Container::itemlist                                        *)
  depotAt,    (* the parent of a depot: the tile of the locker last used    *)
  stands,     (* where the persons are                                      *)
  look,       (* what a paper looks like: its type                          *)
  windows,    (* Player::containerVec                                       *)
  shown,      (* what the clients show in each window, and what they wear   *)
  doubled,    (* the player had one container open twice                    *)
  writing,    (* writeItem, editListId and windowTextId                     *)
  letters,    (* by window id, what the client was asked to write           *)
  misdirected (* a text went where the window was not for                   *)

windowVars == <<place, inside, depotAt, stands, look, windows, shown, doubled,
                writing, letters, misdirected>>

Boxes    == Bags \cup Depots
Pieces   == Bags \cup Papers
NoWindow == [box |-> Nowhere, up |-> FALSE, items |-> <<>>]
Lists    == {"guests", "subowners"}

Desk == [place |-> place, inside |-> inside, depotAt |-> depotAt, stands |-> stands,
         look |-> look, windows |-> windows, shown |-> shown]

DeskBecomes(w) ==
  /\ place' = w.place /\ inside' = w.inside /\ depotAt' = w.depotAt /\ stands' = w.stands
  /\ look' = w.look /\ windows' = w.windows /\ shown' = w.shown

-----------------------------------------------------------------------------
(* Where a thing is.                                                       *)

ParentOf(w, x) == IF x \in Depots THEN w.depotAt[x] ELSE w.place[x]

\* The things from x outward, as long as they are containers' parents.
RECURSIVE Chain(_, _)
Chain(w, x) ==
  IF ParentOf(w, x) \in Boxes THEN <<x>> \o Chain(w, ParentOf(w, x)) ELSE <<x>>

\* The outermost thing, and what it lies on: Thing::getTopParent.
Outermost(w, x) == Last(Chain(w, x))
Ground(w, x)    == ParentOf(w, Outermost(w, x))

\* Thing::isRemoved
IsGone(w, x) == Ground(w, x) = Nowhere

Position(w, x) == LET g == Ground(w, x) IN IF g \in Persons THEN w.stands[g] ELSE g

\* Position::areInRange<1, 1, 0>
Beside(a, b) == a - b \in -1..1

InReach(w, p, x) == ~IsGone(w, x) /\ Beside(w.stands[p], Position(w, x))

-----------------------------------------------------------------------------
(* Messages to a client.                                                   *)

Drawn(w, x) == <<x, IF x \in Papers THEN w.look[x] ELSE 0>>

View(w, c) == [box |-> c, up |-> ParentOf(w, c) \in Boxes,
               items |-> [k \in DOMAIN w.inside[c] |-> Drawn(w, w.inside[c][k])]]

CidsOf(w, p, c) == {e.cid : e \in {e \in ToSet(w.windows[p]) : e.box = c}}

\* ProtocolGame::sendContainer in each of these windows.
Tell(w, p, cids, view) ==
  [w EXCEPT !.shown[p].box = [d \in Cids |-> IF d \in cids THEN view ELSE @[d]]]

\* Player::onSendContainer
OnSendContainer(w, p, c) == Tell(w, p, CidsOf(w, p, c), View(w, c))

\* Player::closeContainer and ProtocolGame::sendCloseContainer
Close(w, p, cids) ==
  Tell([w EXCEPT !.windows[p] = SelectSeq(@, LAMBDA e : e.cid \notin cids)], p, cids, NoWindow)

\* Seeded fault: only the container's own window is closed.
AutoCloseOne(w, p, c) == Close(w, p, CidsOf(w, p, c))

\* Player::autoCloseContainers: what is c, in c, or removed.
AutoCloseContainers(w, p, c) ==
  Close(w, p, {e.cid : e \in {e \in ToSet(w.windows[p]) :
                                 IsGone(w, e.box) \/ c \in ToSet(Chain(w, e.box))}})

\* Player::addContainer: a window number that is in use changes its container.
AddContainer(w, p, cid, c) ==
  LET ks == {k \in DOMAIN w.windows[p] : w.windows[p][k].cid = cid}
  IN IF cid \notin Cids THEN w
     ELSE IF ks = {} THEN [w EXCEPT !.windows[p] = Append(@, [cid |-> cid, box |-> c])]
     ELSE [w EXCEPT !.windows[p] = [k \in DOMAIN @ |-> IF k \in ks THEN [cid |-> cid, box |-> c] ELSE @[k]]]

\* The windows of p in which a change of container c arrives: p is one of the
\* spectators two steps around (Container::onAddContainerItem and the like), and
\* its client shows the window.
ToldWindows(w, p, c) ==
  IF Ground(w, c) = Nowhere \/ w.stands[p] - Position(w, c) \notin -2..2 THEN {}
  ELSE {d \in CidsOf(w, p, c) : w.shown[p].box[d] # NoWindow}

\* What clients do with it.
ClientsChange(w, c, F(_)) ==
  [w EXCEPT !.shown = [p \in Persons |->
     LET told == ToldWindows(w, p, c)
     IN [@[p] EXCEPT !.box = [d \in DOMAIN @ |->
           IF d \in told THEN [@[d] EXCEPT !.items = F(@)] ELSE @[d]]]]]

-----------------------------------------------------------------------------
(* The cylinders.                                                          *)

SlotOf(w, c, x) == CHOOSE k \in DOMAIN w.inside[c] : w.inside[c][k] = x

\* Container::__addThing, Player::__addThing, Tile::__addThing
AddTo(w, c, x) ==
  LET in == [w EXCEPT !.place[x] = c]
  IN CASE c \in Boxes   -> LET AtFront(s) == <<Drawn(in, x)>> \o s
                           IN ClientsChange([in EXCEPT !.inside[c] = <<x>> \o @], c, AtFront)
       [] c \in Persons -> [in EXCEPT !.shown[c].worn = Drawn(in, x)]
       [] OTHER         -> in

\* Container::__removeThing, Player::__removeThing
TakeFrom(w, c, x) ==
  CASE c \in Boxes   -> LET Without(s) == RemoveAt(s, SlotOf(w, c, x))
                        IN [ClientsChange(w, c, Without) EXCEPT
                              !.inside[c] = Remove(@, x), !.place[x] = Nowhere]
    [] c \in Persons -> [w EXCEPT !.shown[c].worn = <<>>, !.place[x] = Nowhere]
    [] OTHER         -> [w EXCEPT !.place[x] = Nowhere]

\* Container::__updateThing, Player::__updateThing: a paper gets another look.
UpdateIn(w, c, x, to) ==
  LET new == [w EXCEPT !.look[x] = to]
  IN CASE c \in Boxes   -> LET Changed(s) == [s EXCEPT ![SlotOf(w, c, x)] = Drawn(new, x)]
                           IN ClientsChange(new, c, Changed)
       [] c \in Persons -> [new EXCEPT !.shown[c].worn = Drawn(new, x)]
       [] OTHER         -> new

\* Container::__replaceThing: y comes in x's stead, in the same slot.
ReplaceInBox(w, c, x, y) ==
  LET k == SlotOf(w, c, x)
      Changed(s) == [s EXCEPT ![k] = Drawn(w, y)]
  IN ClientsChange([w EXCEPT !.inside[c][k] = y, !.place[y] = c, !.place[x] = Nowhere], c, Changed)

\* Player::__replaceThing: the client is told before the slot changes.
ReplaceWorn(w, c, x, y) ==
  [w EXCEPT !.shown[c].worn = Drawn(w, y), !.place[y] = c, !.place[x] = Nowhere]

ReplaceIn(w, c, x, y) ==
  CASE c \in Boxes   -> ReplaceInBox(w, c, x, y)
    [] c \in Persons -> ReplaceWorn(w, c, x, y)
    [] OTHER         -> [w EXCEPT !.place[y] = c, !.place[x] = Nowhere]

\* Whom Tile::postRemoveNotification, Container's and Depot's reach.
Notified(w, c) ==
  LET g == IF c \in Boxes THEN Ground(w, c) ELSE c
  IN IF g \in Persons THEN {g} ELSE IF g = Nowhere THEN {} ELSE Persons

\* Player::postAddNotification of a container.
PostAdd(w, c, x) ==
  IF x \notin Bags THEN w
  ELSE FoldLeft(LAMBDA v, p : OnSendContainer(v, p, x), w, SetToSeq(Notified(w, c)))

\* Player::postRemoveNotification of a container: may p still look into it?
MayLook(w, p, x) ==
  /\ InReach(w, p, x)
  /\ Ground(w, x) \in Persons => Ground(w, x) = p
  /\ Outermost(w, x) \in Depots => DepotOwner[Outermost(w, x)] = p

PostRemove(w, c, x) ==
  IF x \notin Bags THEN w
  ELSE FoldLeft(LAMBDA v, p : IF MayLook(v, p, x) THEN OnSendContainer(v, p, x)
                              ELSE AutoCloseContainers(v, p, x),
                w, SetToSeq(Notified(w, c)))

-----------------------------------------------------------------------------
(* What happens to things.                                                 *)

\* What p can take hold of: internalGetThing, through a server's window too.
AtHand(p, x) ==
  LET c == ParentOf(Desk, x)
  IN \/ c = p
     \/ c \in Squares /\ Beside(stands[p], c)
     \/ c \in Boxes /\ CidsOf(Desk, p, c) # {}

\* Game::internalMoveItem of a whole thing that finds room; not into itself, nor
\* beyond what a container holds (Container::__queryAdd).
MoveThing(p, x, to) ==
  LET from == place[x]
      w == AddTo(TakeFrom(Desk, from, x), to, x)
  IN /\ AtHand(p, x) /\ to # from
     /\ to \in Persons => to = p /\ \A y \in Pieces : place[y] # p
     /\ to \in Boxes => /\ CidsOf(Desk, p, to) # {} \/ (to \in Bags /\ place[to] = p)
                        /\ x \notin ToSet(Chain(Desk, to))
                        /\ Len(inside[to]) < Capacity
     /\ DeskBecomes(PostAdd(PostRemove(w, from, x), to, x))
     /\ UNCHANGED <<doubled, writing, letters, misdirected>>

\* Game::internalRemoveItem: decay, a script, a field that burns what lies there.
RemoveItem(x) ==
  /\ ~IsGone(Desk, x)
  /\ DeskBecomes(PostRemove(TakeFrom(Desk, place[x], x), place[x], x))
  /\ UNCHANGED <<doubled, writing, letters, misdirected>>

\* Game::transformItem within a type: the same object with another id.
Transform(w, x, to) == PostAdd(UpdateIn(PostRemove(w, w.place[x], x), w.place[x], x, to), w.place[x], x)

TransformPaper(x) ==
  /\ ~IsGone(Desk, x) /\ look[x] = 1
  /\ DeskBecomes(Transform(Desk, x, 2))
  /\ UNCHANGED <<doubled, writing, letters, misdirected>>

\* Game::transformItem to another type: a new object; what was in the old one
\* goes with it.
ReplaceBag(x, y) ==
  LET c == place[x]
      w == PostAdd(ReplaceIn(Desk, c, x, y), c, y)
  IN /\ ~IsGone(Desk, x) /\ y \in Papers /\ place[y] = Nowhere
     /\ DeskBecomes(PostRemove(w, c, x))
     /\ UNCHANGED <<doubled, writing, letters, misdirected>>

\* A person walks, is pushed or teleported: Player::postAddNotification of
\* oneself, one container after the other.
Walk(p, to) ==
  LET w == [Desk EXCEPT !.stands[p] = to]
      far == SelectSeq(windows[p], LAMBDA e : ~Beside(to, Position(w, e.box)))
  IN /\ to # stands[p]
     /\ DeskBecomes(FoldLeft(LAMBDA v, e : AutoCloseContainers(v, p, e.box), w, far))
     /\ UNCHANGED <<doubled, writing, letters, misdirected>>

-----------------------------------------------------------------------------
(* Requests.                                                               *)

\* Actions::internalUseItem of a container without a script: the first window
\* of the container is closed - of the client's every one -, or it is opened.
OpenOrClose(w, p, cid, c) ==
  LET open == SelectSeq(w.windows[p], LAMBDA e : e.box = c)
  IN IF open # <<>>
     THEN [Tell(w, p, CidsOf(w, p, c), NoWindow) EXCEPT
             !.windows[p] = SelectSeq(@, LAMBDA e : e.cid # Head(open).cid)]
     ELSE OnSendContainer(AddContainer(w, p, cid, c), p, c)

UseContainer(p, cid, c) ==
  /\ p \in Lookers /\ c \in Bags /\ AtHand(p, c)
  /\ DeskBecomes(OpenOrClose(Desk, p, cid, c))
  /\ UNCHANGED <<doubled, writing, letters, misdirected>>

\* ... of a locker: the player's depot is put where the locker is.
UseLocker(p, cid, c, at) ==
  /\ c \in Depots /\ DepotOwner[c] = p /\ at \in Lockers /\ Beside(stands[p], at)
  /\ DeskBecomes(OpenOrClose([Desk EXCEPT !.depotAt[c] = at], p, cid, c))
  /\ UNCHANGED <<doubled, writing, letters, misdirected>>

\* Game::playerCloseContainer
PlayerCloseContainer(p, cid) ==
  /\ DeskBecomes(Close(Desk, p, {cid}))
  /\ UNCHANGED <<doubled, writing, letters, misdirected>>

\* Player::getContainer
GetContainer(p, cid) ==
  LET e == SelectSeq(windows[p], LAMBDA e : e.cid = cid) IN IF e = <<>> THEN Nowhere ELSE Head(e).box

\* Game::playerMoveUpContainer: the outer one may be open already.
PlayerMoveUpContainer(p, cid) ==
  LET c == GetContainer(p, cid)
      up == ParentOf(Desk, c)
      w == AddContainer(Desk, p, cid, up)
  IN /\ c # Nowhere /\ up \in Boxes
     /\ DeskBecomes(Tell(w, p, {cid}, View(w, up)))
     /\ doubled' = [doubled EXCEPT ![p] = @ \/ CidsOf(Desk, p, up) # {}]
     /\ UNCHANGED <<writing, letters, misdirected>>

\* Game::playerUpdateContainer
PlayerUpdateContainer(p, cid) ==
  LET c == GetContainer(p, cid)
  IN /\ c # Nowhere
     /\ DeskBecomes(Tell(Desk, p, {cid}, View(Desk, c)))
     /\ UNCHANGED <<doubled, writing, letters, misdirected>>

-----------------------------------------------------------------------------
(* Windows to write in.  Texts and lists of a house count one number.      *)

\* What a window is for; one that only shows a text is not answered.
TextWindow(x, canWrite) == IF canWrite THEN x ELSE Nowhere
HouseWindow(list)       == list

\* Player::setWriteItem and setEditHouse, with what the client is sent.
Ask(p, now, what) ==
  /\ Len(letters[p]) < MaxLetters
  /\ writing' = [writing EXCEPT ![p] = now]
  /\ letters' = [letters EXCEPT ![p] = Append(@, what)]

UsePaper(p, x, canWrite) ==
  /\ x \in Papers /\ AtHand(p, x)
  /\ Ask(p, [writing[p] EXCEPT !.item = IF canWrite THEN x ELSE Nowhere], TextWindow(x, canWrite))
  /\ UNCHANGED <<place, inside, depotAt, stands, look, windows, shown, doubled, misdirected>>

EditHouse(p, list) ==
  /\ Ask(p, [writing[p] EXCEPT !.list = list], HouseWindow(list))
  /\ UNCHANGED <<place, inside, depotAt, stands, look, windows, shown, doubled, misdirected>>

\* Game::playerWriteItem: the client answers a window it was sent.  A paper to
\* be written once becomes another.
PlayerWriteItem(p, id) ==
  LET x == writing[p].item
      w == Transform(Desk, x, 2)
  IN /\ id \in DOMAIN letters[p] /\ letters[p][id] \in Papers
     /\ id = Len(letters[p])
     /\ x # Nowhere /\ InReach(Desk, p, x)
     /\ Ground(Desk, x) \in Persons => Ground(Desk, x) = p
     /\ DeskBecomes(IF look[x] = 2 THEN Desk ELSE w)
     /\ misdirected' = (misdirected \/ letters[p][id] # x)
     /\ Ask(p, [writing[p] EXCEPT !.item = Nowhere], Nowhere)
     /\ UNCHANGED doubled

\* Game::playerUpdateHouseWindow
PlayerUpdateHouseWindow(p, id) ==
  LET list == writing[p].list
  IN /\ id \in DOMAIN letters[p] /\ letters[p][id] \in Lists
     /\ id = Len(letters[p]) /\ list # Nowhere
     /\ misdirected' = (misdirected \/ letters[p][id] # list)
     /\ Ask(p, [writing[p] EXCEPT !.list = Nowhere], Nowhere)
     /\ UNCHANGED <<place, inside, depotAt, stands, look, windows, shown, doubled>>

-----------------------------------------------------------------------------
WindowsInit ==
  /\ place \in [Pieces -> {CHOOSE s \in Squares : TRUE, Nowhere}]
  /\ \A x \in Bags : place[x] # Nowhere
  /\ inside = [c \in Boxes |-> <<>>]
  /\ depotAt = [d \in Depots |-> Nowhere]
  /\ stands = [p \in Persons |-> CHOOSE s \in Squares : TRUE]
  /\ look = [x \in Papers |-> 1]
  /\ windows = [p \in Persons |-> <<>>]
  /\ shown = [p \in Persons |-> [box |-> [d \in Cids |-> NoWindow], worn |-> <<>>]]
  /\ doubled = [p \in Persons |-> FALSE]
  /\ writing = [p \in Persons |-> [item |-> Nowhere, list |-> Nowhere]]
  /\ letters = [p \in Persons |-> <<>>]
  /\ misdirected = FALSE

WindowsNext ==
  \/ \E p \in Persons, x \in Pieces, to \in Squares \cup Persons \cup Boxes : MoveThing(p, x, to)
  \/ \E x \in Pieces : RemoveItem(x)
  \/ \E x \in Papers : TransformPaper(x)
  \/ \E x \in Bags, y \in Papers : ReplaceBag(x, y)
  \/ \E p \in Persons, to \in Squares : Walk(p, to)
  \/ \E p \in Persons, cid \in Cids, c \in Bags : UseContainer(p, cid, c)
  \/ \E p \in Persons, cid \in Cids, c \in Depots, at \in Lockers : UseLocker(p, cid, c, at)
  \/ \E p \in Persons, cid \in Cids : PlayerCloseContainer(p, cid)
  \/ \E p \in Persons, cid \in Cids : PlayerMoveUpContainer(p, cid)
  \/ \E p \in Persons, cid \in Cids : PlayerUpdateContainer(p, cid)
  \/ \E p \in Persons, x \in Papers, canWrite \in BOOLEAN : UsePaper(p, x, canWrite)
  \/ \E p \in Persons, list \in Lists : EditHouse(p, list)
  \/ \E p \in Persons : \E id \in DOMAIN letters[p] : PlayerWriteItem(p, id)
  \/ \E p \in Persons : \E id \in DOMAIN letters[p] : PlayerUpdateHouseWindow(p, id)

-----------------------------------------------------------------------------
WindowsTypeOK ==
  /\ \A x \in Pieces : place[x] \in Squares \cup Persons \cup Boxes \cup {Nowhere}
  /\ \A c \in Boxes : \A k \in DOMAIN inside[c] : place[inside[c][k]] = c
  /\ \A p \in Persons : \A e \in ToSet(windows[p]) : e.cid \in Cids /\ e.box \in Boxes

\* A player looks only into containers that exist, in reach, and in nobody
\* else's hands or depot; the server's pointers are live.
WindowsInReach ==
  \A p \in Persons : \A e \in ToSet(windows[p]) : MayLook(Desk, p, e.box)

\* What a client shows in a window is what the server's container of that
\* window holds, slot by slot, and whether there is a way up.
ShownIsTrue ==
  \A p \in Persons, d \in Cids :
    shown[p].box[d] # NoWindow =>
      \E e \in ToSet(windows[p]) : e.cid = d /\ shown[p].box[d] = View(Desk, e.box)

\* And it shows all that the server has open for it - unless a container was
\* open twice: using it then closes both at the client and one at the server.
AllIsShown ==
  \A p \in Persons : ~doubled[p] =>
    \A e \in ToSet(windows[p]) : shown[p].box[e.cid] # NoWindow

WornIsTrue ==
  \A p \in Persons :
    LET worn == {x \in Pieces : place[x] = p}
    IN IF worn = {} THEN shown[p].worn = <<>> ELSE \A x \in worn : shown[p].worn = Drawn(Desk, x)

\* A text goes to the paper, or the list, that its window was opened for.
WindowsConsistent ==
  WindowsTypeOK /\ WindowsInReach /\ ShownIsTrue /\ AllIsShown /\ WornIsTrue /\ ~misdirected
=============================================================================
