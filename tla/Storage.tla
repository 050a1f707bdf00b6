------------------------------- MODULE Storage ---------------------------------
(***************************************************************************)
(* What outlives the server: players with their inventories, depots and    *)
(* money (Source/ioplayer.cpp), what lies in houses and who may enter them *)
(* (iomapserialize.cpp), written row by row inside transactions            *)
(* (database.h, databasemysql.cpp), when players leave, get mail, are paid *)
(* or lose their house, and when the server saves, stops or crashes.       *)
(*                                                                         *)
(* A thing is a bag or a simple item; the items' attributes are in         *)
(* Attributes.  Each player has the slot of a bag and one depot; one house *)
(* has a floor and, on it, a chest that cannot be moved.  The connection   *)
(* may break in any statement, and is not made again (m_connected).        *)
(***************************************************************************)
EXTENDS Integers, Sequences, FiniteSets, SequencesExt, FiniteSetsExt

CONSTANTS
  Owners,      (* players; one of them, HouseOwner, has the house          *)
  HouseOwner,
  Bags, Coins, (* things that hold things, and things that do not          *)
  Slot, Locker,(* each player's place for a bag, and its depot             *)
  Floor, Chest,(* of the house                                             *)
  MaxFaults    (* bound: how often unsaved things are lost, the last time  *)
               (* at the end of the behaviour                              *)

Things  == Bags \cup Coins
Slots   == {Slot[p] : p \in Owners}
Lockers == {Locker[p] : p \in Owners}
Places  == Slots \cup Lockers \cup Bags \cup {Floor, Chest}

ASSUME StorageAssumption ==
  /\ HouseOwner \in Owners /\ IsFiniteSet(Owners) /\ IsFiniteSet(Things) /\ MaxFaults \in Nat \ {0}
  /\ Bags \cap Coins = {} /\ Things \cap (Slots \cup Lockers \cup {Floor, Chest}) = {}

VARIABLES
  content,     (* what is where in memory, first things first              *)
  money,       (* Player::balance of those online                          *)
  guests,      (* the house's guest list is not empty                      *)
  online, up,
  connected,   (* DatabaseMySQL::m_connected                               *)
  mapStorage,  (* MAP_STORAGE_TYPE                                         *)
  db,          (* the tables                                               *)
  faults       (* how often the server ended with something unsaved        *)

storageVars == <<content, money, guests, online, up, connected, mapStorage, db, faults>>

\* Container::__internalAddThing, Tile::__internalAddThing: in front.
Put(c, h, t) == [c EXCEPT ![h] = <<t>> \o @]

\* The places of a player or of the house, with the bags there.
PlacesIn(c, hs) == hs \cup (UNION {ToSet(c[h]) : h \in hs} \cap Bags)

Only(c, hs)    == [h \in Places |-> IF h \in PlacesIn(c, hs) THEN c[h] ELSE <<>>]
Without(c, hs) == [h \in Places |-> IF h \in PlacesIn(c, hs) THEN <<>> ELSE c[h]]

\* What is in c with what is in d, when they are in different places.
Joined(c, d) == [h \in Places |-> c[h] \o d[h]]

NoThings    == [h \in Places |-> <<>>]
OfPlayer(p) == {Slot[p], Locker[p]}
OfHouse     == {Floor, Chest}

-----------------------------------------------------------------------------
(* Things as rows: each has a number, and the number of what it is in.      *)

IsContainer(t) == t \in Bags \cup Lockers \cup {Chest}

AddRow(s, pid, t) ==
  LET sid == s.last + 1
  IN [last |-> sid, rows |-> Append(s.rows, [pid |-> pid, sid |-> sid, thing |-> t]),
      queue |-> IF IsContainer(t) THEN Append(s.queue, [thing |-> t, sid |-> sid]) ELSE s.queue]

\* Breadth first: the next container's things.
Expand(c, s) ==
  IF s.queue = <<>> THEN s
  ELSE LET next == Head(s.queue)
       IN FoldLeft(LAMBDA q, t : AddRow(q, next.sid, t), [s EXCEPT !.queue = Tail(@)], c[next.thing])

RowsFrom(c, pid, first, roots) ==
  LET start == [rows |-> <<>>, queue |-> <<>>, last |-> first - 1]
      s[n \in 0..Cardinality(Things) + 1] ==
        IF n = 0 THEN FoldLeft(LAMBDA q, t : AddRow(q, pid, t), start, roots) ELSE Expand(c, s[n - 1])
  IN s[Cardinality(Things) + 1].rows

\* Seeded fault: what is in a bag in a bag hangs on the outer one.
FlatRows(c, roots) ==
  [n \in DOMAIN RowsFrom(c, 1, 101, roots) |->
     IF RowsFrom(c, 1, 101, roots)[n].pid > 101
     THEN [RowsFrom(c, 1, 101, roots)[n] EXCEPT !.pid = 101] ELSE RowsFrom(c, 1, 101, roots)[n]]

\* IOPlayer::saveItems: a slot or a depot has a number below 100.
PlayerRows(c, roots) == RowsFrom(c, 1, 101, roots)

\* IOMapSerialize::saveItems: an empty chest is left out.
TileRows(c) == RowsFrom(c, 0, 1, c[Floor] \o IF c[Chest] = <<>> THEN <<>> ELSE <<Chest>>)

\* A row of a thing that is there already, a depot or a chest, adds none.
PutRow(c, rows, r, root) ==
  IF r.thing \in Lockers \cup {Chest} THEN c
  ELSE Put(c, IF r.pid < rows[1].sid THEN root
              ELSE (CHOOSE q \in ToSet(rows) : q.sid = r.pid).thing, r.thing)

\* IOPlayer::loadPlayer's itemMap, and IOMapSerialize::loadItems: from the
\* highest number down, each in front of those after it.
LoadRows(c, rows, root) == FoldRight(LAMBDA r, d : PutRow(d, rows, r, root), rows, c)

-----------------------------------------------------------------------------
(* Things as a stream: IOMapSerialize::saveItem and loadItem.               *)

End == [thing |-> "end"]

\* saveItem: a container's things from the last to the first, so that the
\* first comes in front again.
Streamed(c, roots) ==
  LET s[t \in Things \cup {Chest}] ==
        <<[thing |-> t]>>
        \o (IF IsContainer(t) THEN FlattenSeq([n \in 1..Len(c[t]) |-> s[c[t][Len(c[t]) + 1 - n]]]) ELSE <<>>)
        \o <<End>>
  IN FlattenSeq([n \in 1..Len(roots) |-> s[roots[Len(roots) + 1 - n]]])

\* saveTile
TileStream(c) == Streamed(c, c[Floor] \o IF c[Chest] = <<>> THEN <<>> ELSE <<Chest>>)

\* loadItem and loadContainer: a thing is put where it belongs when it is whole.
ReadToken(s, token) ==
  IF token # End THEN [s EXCEPT !.open = Append(@, token.thing)]
  ELSE LET t     == Last(s.open)
           rest  == Front(s.open)
           where == IF rest = <<>> THEN Floor ELSE Last(rest)
       IN [open |-> rest, content |-> IF t = Chest THEN s.content ELSE Put(s.content, where, t)]

LoadStream(c, stream) == FoldLeft(ReadToken, [open |-> <<>>, content |-> c], stream).content
-----------------------------------------------------------------------------
(* Transactions.                                                            *)

Execute(d, st) ==
  IF st.table \in {"bag", "depot", "money"} THEN [d EXCEPT ![st.table][st.of] = st.value]
  ELSE [d EXCEPT ![st.table] = st.value]

\* One statement after the other.
Executed(d, sts) ==
  LET done[n \in 0..Len(sts)] == IF n = 0 THEN d ELSE Execute(done[n - 1], sts[n])
  IN done[Len(sts)]

\* Seeded fault: no transaction is begun.
AutoCommit(d, sts, n) == Executed(d, SubSeq(sts, 1, n))

\* DBTransaction: of the first n statements nothing stays unless they are all.
Transaction(d, sts, n) == IF n = Len(sts) THEN Executed(d, sts) ELSE d

Statement(table, p, value) == [table |-> table, of |-> p, value |-> value]

\* IOPlayer::savePlayer
PlayerStatements(c, m, p) ==
  <<Statement("money", p, m), Statement("bag", p, <<>>), Statement("depot", p, <<>>),
    Statement("bag", p, PlayerRows(c, c[Slot[p]])),
    Statement("depot", p, PlayerRows(c, <<Locker[p]>>))>>

SavePlayer(d, c, m, p, n) == Transaction(d, PlayerStatements(c, m, p), n)

PlayerSteps == 5

\* IOMapSerialize::saveMap
MapStatements ==
  IF mapStorage = "relational"
  THEN <<Statement("tiles", HouseOwner, <<>>), Statement("tiles", HouseOwner, TileRows(content))>>
  ELSE <<Statement("store", HouseOwner, <<>>), Statement("store", HouseOwner, TileStream(content))>>

\* IOMapSerialize::saveHouseInfo: deleting the houses deletes their lists, and
\* only lists with something in them are written.
InfoStatements ==
  <<Statement("guests", HouseOwner, FALSE)>>
  \o (IF guests THEN <<Statement("guests", HouseOwner, TRUE)>> ELSE <<>>)

\* IOPlayer::loadPlayer
LoadPlayer(d, p) ==
  LoadRows(LoadRows(NoThings, d.bag[p], Slot[p]), d.depot[p], Locker[p])

\* IOMapSerialize::loadHouseInfo
LoadInfo(d) == d.guests

\* IOMapSerialize::loadMapRelational, loadMapBinary
LoadHouse(d) ==
  IF mapStorage = "relational" THEN LoadRows(NoThings, d.tiles, Floor) ELSE LoadStream(NoThings, d.store)

\* What is in memory and not in the tables.
UnsavedPlayer(d, p) == Only(content, OfPlayer(p)) # LoadPlayer(d, p) \/ money[p] # d.money[p]
UnsavedHouse(d)     == Only(content, OfHouse) # LoadHouse(d) \/ guests # d.guests

Copies(t) ==
  Cardinality({h \in Places : t \in ToSet(content[h])})
  + Cardinality({p \in Owners \ online : \E h \in Places : t \in ToSet(LoadPlayer(db, p)[h])})

\* Bound: with a broken connection players only leave; what happens after MaxFaults is not followed any further than to the
\* next start, nor with what a loss has doubled.
Runs == up /\ faults < MaxFaults /\ \A t \in Things : Copies(t) <= 1

-----------------------------------------------------------------------------

StorageInit ==
  /\ mapStorage \in {"relational", "binary"}
  /\ content = NoThings /\ money = [p \in Owners |-> 0] /\ guests = FALSE
  /\ online = {} /\ up = FALSE /\ connected = FALSE /\ faults = 0
  /\ LET first == CHOOSE p \in Owners : p # HouseOwner
         all   == [NoThings EXCEPT ![Locker[first]] = SetToSeq(Things)]
     IN db = [bag    |-> [p \in Owners |-> <<>>],
              depot  |-> [p \in Owners |-> IF p = first THEN PlayerRows(all, <<Locker[p]>>)
                                           ELSE PlayerRows(NoThings, <<Locker[p]>>)],
              money  |-> [p \in Owners |-> IF p = first THEN 1 ELSE 0],
              tiles  |-> <<>>, store |-> <<>>, guests |-> FALSE]

\* A fault is counted when what is not saved is lost.
Lost(unsaved) == faults' = faults + (IF unsaved THEN 1 ELSE 0) /\ faults' <= MaxFaults

\* The connection holds for all len statements, or breaks in the one after n.
Reaches(n, len) == IF connected THEN connected' = (n = len) ELSE n = 0 /\ UNCHANGED connected

\* Map::loadMap
Start ==
  /\ ~up /\ up' = TRUE /\ connected' = TRUE
  /\ content' = LoadHouse(db) /\ guests' = LoadInfo(db)
  /\ UNCHANGED <<money, online, mapStorage, db, faults>>

Login(p) ==
  /\ Runs /\ connected /\ p \notin online
  /\ online' = online \cup {p} /\ content' = Joined(content, LoadPlayer(db, p))
  /\ money' = [money EXCEPT ![p] = db.money[p]]
  /\ UNCHANGED <<guests, up, connected, mapStorage, db, faults>>

\* Player::onCreatureDisappear tries three times; without a connection in vain.
Logout(p, n) ==
  /\ Runs /\ p \in online /\ Reaches(n, PlayerSteps)
  /\ db' = SavePlayer(db, content, money[p], p, n)
  /\ online' = online \ {p} /\ content' = Without(content, OfPlayer(p))
  /\ money' = [money EXCEPT ![p] = 0]
  /\ Lost(n < PlayerSteps /\ UnsavedPlayer(db, p))
  /\ UNCHANGED <<guests, up, mapStorage>>

Taken(c, t) == [h \in Places |-> SelectSeq(c[h], LAMBDA u : u # t)]

InMemory(t) == \E h \in Places : t \in ToSet(content[h])

Reachable == OfHouse \cup UNION {OfPlayer(p) : p \in online}

\* Game::internalMoveItem, as far as the tables can tell.
Move(t, h) ==
  /\ Runs /\ connected /\ InMemory(t) /\ h \in PlacesIn(content, Reachable)
  /\ h # t /\ (t \in Bags => h \notin Bags)
  /\ h \in Slots => t \in Bags /\ content[h] = <<>>
  /\ content' = Put(Taken(content, t), h, t)
  /\ UNCHANGED <<money, guests, online, up, connected, mapStorage, db, faults>>

\* Mailbox::sendItem; of a player who is not online an object is made, saved,
\* and deleted whether it was saved or not.
Mail(t, p, n) ==
  /\ Runs /\ connected /\ InMemory(t)
  /\ IF p \in online
     THEN n = 0 /\ content' = Put(Taken(content, t), Locker[p], t) /\ UNCHANGED <<db, connected, faults>>
     ELSE /\ Reaches(n, PlayerSteps)
          /\ content' = Without(Taken(content, t), {t} \cap Bags)
          /\ LET there == Joined(LoadPlayer(db, p), Only(content, {t} \cap Bags))
             IN db' = SavePlayer(db, Put(there, Locker[p], t), db.money[p], p, n)
          /\ Lost(n < PlayerSteps)
  /\ UNCHANGED <<money, guests, online, up, mapStorage>>

\* Player::transferMoneyTo
Pay(p, q, n) ==
  /\ Runs /\ connected /\ p \in online /\ p # q /\ money[p] > 0
  /\ IF q \in online
     THEN /\ n = 0 /\ money' = [money EXCEPT ![p] = @ - 1, ![q] = @ + 1]
          /\ UNCHANGED <<db, connected, faults>>
     ELSE /\ Reaches(n, PlayerSteps)
          /\ money' = [money EXCEPT ![p] = @ - 1]
          /\ db' = SavePlayer(db, LoadPlayer(db, q), db.money[q] + 1, q, n)
          /\ Lost(n < PlayerSteps)
  /\ UNCHANGED <<content, guests, online, up, mapStorage>>

\* House::transferToDepot and setHouseOwner: what lies on the floor and in the
\* chest goes to the owner's depot, one thing after the other.
LoseHouse(n) ==
  /\ Runs /\ connected /\ guests' = FALSE
  /\ LET things == content[Floor] \o content[Chest]
         left   == [content EXCEPT ![Floor] = <<>>, ![Chest] = <<>>]
         PutAll(c) == FoldLeft(LAMBDA d, t : Put(d, Locker[HouseOwner], t), c, things)
     IN IF HouseOwner \in online
        THEN n = 0 /\ content' = PutAll(left) /\ UNCHANGED <<db, connected, faults>>
        ELSE /\ Reaches(n, PlayerSteps)
             /\ content' = Without(content, OfHouse)
             /\ db' = SavePlayer(db, PutAll(Joined(LoadPlayer(db, HouseOwner), Only(left, ToSet(things) \cap Bags))),
                                 db.money[HouseOwner], HouseOwner, n)
             /\ Lost(n < PlayerSteps /\ things # <<>>)
  /\ UNCHANGED <<money, online, up, mapStorage>>

\* The end of the process: what is in memory is gone.
Ends(d, lost) ==
  /\ up' = FALSE /\ online' = {} /\ content' = NoThings /\ guests' = FALSE
  /\ money' = [p \in Owners |-> 0] /\ connected' = FALSE /\ db' = d
  /\ Lost(lost) /\ UNCHANGED mapStorage

Crash == Runs /\ Ends(db, UnsavedHouse(db) \/ \E p \in online : UnsavedPlayer(db, p))

\* The tables with one player saved after the other.
SavePlayers(players) ==
  LET d[i \in 0..Len(players)] ==
        IF i = 0 THEN db ELSE SavePlayer(d[i - 1], content, money[players[i]], players[i], PlayerSteps)
  IN d[Len(players)]

\* Game::saveServer: one transaction for each player, one for the houses' things
\* and one for the houses, of which the first k are made; then the connection
\* breaks, or the server crashes.
SaveServer(k, crash) ==
  LET players == SetToSeq(online)
      saved == SavePlayers(SubSeq(players, 1, Min({k, Len(players)})))
      tiled == IF k > Len(players) THEN Transaction(saved, MapStatements, Len(MapStatements)) ELSE saved
      all   == IF k > Len(players) + 1 THEN Transaction(tiled, InfoStatements, Len(InfoStatements)) ELSE tiled
  IN /\ Runs /\ k <= Len(players) + 2
     /\ IF crash
        THEN /\ connected /\ 0 < k /\ k < Len(players) + 2
             /\ Ends(all, \E p \in online : UnsavedPlayer(all, p) \/ UnsavedHouse(all))
        ELSE /\ Reaches(k, Len(players) + 2) /\ db' = all
             /\ UNCHANGED <<content, money, guests, online, up, mapStorage, faults>>

\* Game::setGameState(GAME_STATE_SHUTDOWN): the players are kicked, and saved;
\* the houses are not.
ShutdownServer ==
  /\ Runs /\ connected
  /\ Ends(SavePlayers(SetToSeq(online)), UnsavedHouse(db))

\* House::setAccessList
SetGuests(b) ==
  /\ Runs /\ connected /\ guests' = b
  /\ UNCHANGED <<content, money, online, up, connected, mapStorage, db, faults>>

\* Bound: the connection breaks after the deletions, or not (again: was broken).
Breaks == {0, 3, PlayerSteps}

\* Who comes and goes, and what is saved.
Sessions ==
  \/ Start \/ Crash \/ ShutdownServer
  \/ \E p \in Owners : Login(p)
  \/ \E p \in Owners, n \in Breaks : Logout(p, n)
  \/ \E k \in 0..Cardinality(Owners) + 2, crash \in BOOLEAN : SaveServer(k, crash)

\* What happens to things, and to the rest.
Handling ==
  \/ \E t \in Things, h \in Places : Move(t, h)
  \/ \E t \in Things, p \in Owners, n \in Breaks : Mail(t, p, n)
  \/ \E n \in Breaks : LoseHouse(n)

Dealing ==
  \/ \E p, q \in Owners, n \in Breaks : Pay(p, q, n)
  \/ \E b \in BOOLEAN : SetGuests(b)

StorageNext == Sessions \/ Handling \/ Dealing

StorageSpec == StorageInit /\ [][StorageNext]_storageVars

-----------------------------------------------------------------------------

StorageTypeOK ==
  /\ \A h \in Places : ToSet(content[h]) \subseteq Things
  /\ \A p \in Owners : money[p] \in Nat
  /\ online \subseteq Owners /\ {up, connected, guests} \subseteq BOOLEAN /\ faults \in 0..MaxFaults

\* What would be written of a player and of the house is read back as it is:
\* every thing in its place and in its order, as rows and as a stream.
ReadAsWritten ==
  up =>
    /\ \A p \in online :
         LoadPlayer(SavePlayer(db, content, money[p], p, PlayerSteps), p) = Only(content, OfPlayer(p))
    /\ LoadRows(NoThings, TileRows(content), Floor) = Only(content, OfHouse)
    /\ LoadStream(NoThings, TileStream(content)) = Only(content, OfHouse)

\* Nothing is lost and nothing doubled, between players in and out of the game
\* and the house, unless the server ended, or a save failed, with something not
\* saved.
Conserved ==
  up /\ faults = 0 =>
    /\ \A t \in Things : Copies(t) = 1
    /\ FoldSet(LAMBDA p, n : n + IF p \in online THEN money[p] ELSE db.money[p], 0, Owners) = 1

\* What is saved can be trusted.
StorageConsistent == StorageTypeOK /\ ReadAsWritten /\ Conserved

Record(d, p) == <<d.bag[p], d.depot[p], d.money[p]>>

\* A player's record is never changed by halves: it stays, or is what the player
\* has, or, of a player not online, was changed by a save that succeeded; and
\* so with the house's things.
NeverHalf ==
  [][/\ \A p \in Owners :
          \/ Record(db', p) = Record(db, p)
          \/ p \in online /\ Record(db', p) = Record(SavePlayer(db, content, money[p], p, PlayerSteps), p)
          \/ p \notin online /\ connected'
     /\ \/ <<db'.tiles, db'.store>> = <<db.tiles, db.store>>
        \/ <<db'.tiles, db'.store>> \in {<<TileRows(content), db.store>>, <<db.tiles, TileStream(content)>>}
    ]_storageVars
================================================================================
