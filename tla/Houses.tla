------------------------------- MODULE Houses ---------------------------------
(***************************************************************************)
(* A house, its access lists, its sale, its rent and its beds:             *)
(* Source/house.cpp, housetile.cpp, beds.cpp, the house spells and         *)
(* commands, Game::playerUpdateHouseWindow.  Houses touch each other only  *)
(* in getHouseByPlayerId (one house for each owner), so there is one here. *)
(*                                                                         *)
(* Lists and beds hold GUIDs, which outlive the login; the list of who is  *)
(* inside is that of the house tiles.  The trade that carries a sale is    *)
(* the subject of Trade: here it ends in a transfer or a cancellation.     *)
(***************************************************************************)
EXTENDS Naturals, FiniteSets

CONSTANTS
  Tenants,        (* the characters without PlayerFlag_CanEditHouses       *)
  NoTenant,       (* GUID 0                                                *)
  Beds,           (* the beds; a bed and its other half are one            *)
  NoBed,          (* the null BedItem*                                     *)
  MaxWarnings,    (* letters before an unpaid house is lost (7)            *)
  BedsAtTheWall   (* TRUE: a bed can be reached from outside the house     *)

ASSUME HousesAssumption ==
  /\ NoTenant \notin Tenants /\ NoBed \notin Beds
  /\ MaxWarnings \in Nat /\ BedsAtTheWall \in BOOLEAN

Lists   == {"guests", "subowners"}
NoSale  == [seller |-> NoTenant, buyer |-> NoTenant]

VARIABLES
  awake,        (* the tenants in the game                                 *)
  inside,       (* those that stand on a tile of the house                 *)
  houseOwner,   (* House::houseOwner                                       *)
  access,       (* the tenants each list names                             *)
  window,       (* Player::editHouse: the list a player is about to edit   *)
  transferItem, (* TRUE: House::transferItem is set                        *)
  sale,         (* the trade with the transfer document                    *)
  rent,         (* paid: not due; warnings; warned: lastWarning is less    *)
                (* than a day ago                                          *)
  sleeper,      (* BedItem::sleeperGUID                                    *)
  bedOf,        (* Beds::BedSleepersMap                                    *)
  kicked        (* the players whose kickPlayer task is scheduled          *)

houseVars == <<awake, inside, houseOwner, access, window, transferItem, sale, rent,
               sleeper, bedOf, kicked>>

House == [inside |-> inside, owner |-> houseOwner, access |-> access,
          rent |-> rent, sleeper |-> sleeper, bedOf |-> bedOf]

HouseBecomes(h) ==
  /\ inside' = h.inside /\ houseOwner' = h.owner /\ access' = h.access
  /\ rent' = h.rent     /\ sleeper' = h.sleeper  /\ bedOf' = h.bedOf

NewRent == [paid |-> FALSE, warnings |-> 0, warned |-> TRUE]

HouseInit ==
  /\ awake = {} /\ inside = {}
  /\ houseOwner = NoTenant
  /\ access = [l \in Lists |-> {}]
  /\ window = [t \in Tenants |-> "none"]
  /\ transferItem = FALSE /\ sale = NoSale
  /\ rent = NewRent
  /\ sleeper = [b \in Beds |-> NoTenant]
  /\ bedOf = [t \in Tenants |-> NoBed]
  /\ kicked = {}

-----------------------------------------------------------------------------
(* Who may do what.                                                        *)

\* House::getHouseAccessLevel: 3 owner, 2 sub-owner, 1 guest, 0 not invited.
AccessLevel(h, t) ==
  CASE t = h.owner -> 3
    [] t \in h.access["subowners"] -> 2
    [] t \in h.access["guests"] -> 1
    [] OTHER -> 0

\* House::isInvited
HouseInvited(h) == {t \in Tenants : AccessLevel(h, t) > 0}

\* House::canEditAccessList: subowners can edit the guest list.
CanEdit(h, t, l) ==
  AccessLevel(h, t) = 3 \/ (AccessLevel(h, t) = 2 /\ l = "guests")

\* Seeded fault: those who lose their invitation stay inside.
SetListWithoutKick(h, l, names) == [h EXCEPT !.access[l] = names]

\* House::setAccessList: the uninvited are teleported to the entry.  (The list
\* of a door makes nobody uninvited and is left out.)
SetAccessList(h, l, names) ==
  LET h1 == [h EXCEPT !.access[l] = names]
  IN [h1 EXCEPT !.inside = @ \cap HouseInvited(h1)]

\* Seeded fault: the map of sleepers keeps the bed.
WakeUpInBedOnly(h, B) == [h EXCEPT !.sleeper = [b \in Beds |-> IF b \in B THEN NoTenant ELSE @[b]]]

\* BedItem::wakeUp of the sleepers of the beds B: the map forgets each GUID.
WakeUp(h, B) ==
  [h EXCEPT !.sleeper = [b \in Beds |-> IF b \in B THEN NoTenant ELSE @[b]],
            !.bedOf = [t \in Tenants |-> IF \E b \in B : h.sleeper[b] = t THEN NoBed ELSE @[t]]]

\* House::setHouseOwner.  Of an owned house everybody is kicked out,
\* who is asleep wakes up, the lists are emptied and the rent starts
\* anew; the transfer item and the edit windows stay as they are.
SetHouseOwner(h, t) ==
  IF h.owner = t THEN h
  ELSE LET cleared == [WakeUp(h, Beds) EXCEPT
                         !.inside = {},
                         !.access = [l \in Lists |-> {}],
                         !.rent   = NewRent]
           free == IF h.owner = NoTenant THEN h ELSE cleared
       IN [free EXCEPT !.owner = t, !.rent.warned = TRUE]

-----------------------------------------------------------------------------
(* Players come, go and walk.                                              *)

\* A login at a place in the house: HouseTile::__queryDestination sends the
\* uninvited to the entry.  Player::onCreatureAppear wakes the sleeper.
TenantLogin(t) ==
  /\ t \notin awake
  /\ awake' = awake \cup {t}
  /\ \E indoors \in BOOLEAN :
       LET h == [House EXCEPT !.inside = IF indoors /\ t \in HouseInvited(House)
                                           THEN @ \cup {t} ELSE @]
           b == bedOf[t]
       IN HouseBecomes(IF b # NoBed /\ h.sleeper[b] # NoTenant THEN WakeUp(h, {b}) ELSE h)
  /\ UNCHANGED <<window, transferItem, sale, kicked>>

\* Game::internalCloseTrade and HouseTransferItem::onTradeEvent(ON_TRADE_CANCEL).
CancelSale(t) ==
  IF t \in {sale.seller, sale.buyer}
    THEN sale' = NoSale /\ transferItem' = FALSE
    ELSE UNCHANGED <<sale, transferItem>>

\* The player leaves the game: by itself, by death, or by the scheduled kick.
\* A kick finds its player by id, so it does not outlive the Player object.
TenantLeave(t) ==
  /\ t \in awake
  /\ awake' = awake \ {t}
  /\ inside' = inside \ {t}
  /\ window' = [window EXCEPT ![t] = "none"]
  /\ kicked' = kicked \ {t}
  /\ CancelSale(t)
  /\ UNCHANGED <<houseOwner, access, rent, sleeper, bedOf>>

\* Seeded fault: whoever stands at the door may enter.
EnterUnasked(t) ==
  /\ t \in awake \ inside
  /\ inside' = inside \cup {t}
  /\ UNCHANGED <<awake, houseOwner, access, window, transferItem, sale, rent, sleeper, bedOf, kicked>>

\* HouseTile::__queryAdd
Enter(t) ==
  /\ t \in awake \ inside
  /\ t \in HouseInvited(House)
  /\ inside' = inside \cup {t}
  /\ UNCHANGED <<awake, houseOwner, access, window, transferItem, sale, rent, sleeper, bedOf, kicked>>

GoOut(t) ==
  /\ t \in inside
  /\ inside' = inside \ {t}
  /\ UNCHANGED <<awake, houseOwner, access, window, transferItem, sale, rent, sleeper, bedOf, kicked>>

\* InstantSpell::HouseKick and House::kickPlayer.
HouseKick(t, v) ==
  /\ {t, v} \subseteq inside
  /\ AccessLevel(House, t) >= AccessLevel(House, v)
  /\ inside' = inside \ {v}
  /\ UNCHANGED <<awake, houseOwner, access, window, transferItem, sale, rent, sleeper, bedOf, kicked>>

-----------------------------------------------------------------------------
(* Lists and owners.                                                       *)

\* InstantSpell::HouseGuestList and HouseSubOwnerList.
OpenWindow(t, l) ==
  /\ t \in inside
  /\ CanEdit(House, t, l)
  /\ window' = [window EXCEPT ![t] = l]
  /\ UNCHANGED <<awake, inside, houseOwner, access, transferItem, sale, rent, sleeper, bedOf, kicked>>

\* Game::playerUpdateHouseWindow: wherever the player is by now, and whatever
\* has become of its rights.
UpdateHouseWindow(t, names) ==
  /\ t \in awake /\ window[t] # "none"
  /\ HouseBecomes(SetAccessList(House, window[t], names))
  /\ window' = [window EXCEPT ![t] = "none"]
  /\ UNCHANGED <<awake, transferItem, sale, kicked>>

\* Commands::setHouseOwner of a gamemaster, and setHouseOwner of a script.
GiveHouse(t) ==
  /\ HouseBecomes(SetHouseOwner(House, t))
  /\ UNCHANGED <<awake, window, transferItem, sale, kicked>>

\* Commands::buyHouse, by a player with the money in front of a door.
BuyHouse(t) ==
  /\ t \in awake \ inside
  /\ houseOwner = NoTenant
  /\ HouseBecomes(SetHouseOwner(House, t))
  /\ UNCHANGED <<awake, window, transferItem, sale, kicked>>

\* Commands::sellHouse: getTransferItem refuses a second document; the trade
\* may not start, and then the document is thrown away at once.
SellHouse(t, v) ==
  /\ {t, v} \subseteq awake /\ t # v
  /\ houseOwner = t
  /\ ~transferItem
  /\ transferItem' = TRUE
  /\ sale' = [seller |-> t, buyer |-> v]
  /\ UNCHANGED <<awake, inside, houseOwner, access, window, rent, sleeper, bedOf, kicked>>

\* Seeded fault: the document is not given back.
SaleFailsLeaving ==
  /\ sale # NoSale
  /\ sale' = NoSale
  /\ UNCHANGED <<awake, inside, houseOwner, access, window, transferItem, rent, sleeper, bedOf, kicked>>

\* The trade is closed, or accepted by both and impossible.
SaleFails ==
  /\ sale # NoSale
  /\ CancelSale(sale.seller)
  /\ UNCHANGED <<awake, inside, houseOwner, access, window, rent, sleeper, bedOf, kicked>>

\* ON_TRADE_TRANSFER: House::executeTransfer makes the buyer the owner,
\* whoever the owner is at this time.
SaleDone ==
  /\ sale # NoSale
  /\ HouseBecomes(SetHouseOwner(House, sale.buyer))
  /\ sale' = NoSale /\ transferItem' = FALSE
  /\ UNCHANGED <<awake, window, kicked>>

-----------------------------------------------------------------------------
(* Rent.                                                                   *)

\* paidUntil is in the past, and: a day has gone by since lastWarning.
RentFallsDue ==
  /\ rent.paid
  /\ rent' = [rent EXCEPT !.paid = FALSE]
  /\ UNCHANGED <<awake, inside, houseOwner, access, window, transferItem, sale, sleeper, bedOf, kicked>>

DayGoesBy ==
  /\ rent.warned
  /\ rent' = [rent EXCEPT !.warned = FALSE]
  /\ UNCHANGED <<awake, inside, houseOwner, access, window, transferItem, sale, sleeper, bedOf, kicked>>

\* Houses::payHouses of a house whose rent is due: paid from the depot or the
\* balance, or a letter, or the house is lost.
PayHouse(enough) ==
  /\ houseOwner # NoTenant /\ ~rent.paid
  /\ \/ /\ enough
        /\ HouseBecomes([House EXCEPT !.rent.paid = TRUE])
     \/ /\ ~enough /\ ~rent.warned
        /\ HouseBecomes(
             IF rent.warnings >= MaxWarnings THEN SetHouseOwner(House, NoTenant)
             ELSE [House EXCEPT !.rent.warnings = @ + 1, !.rent.warned = TRUE])
  /\ UNCHANGED <<awake, window, transferItem, sale, kicked>>

-----------------------------------------------------------------------------
(* Beds.                                                                   *)

\* BedItem::canUse: of an occupied bed the sleeper may be thrown out, if the
\* player has rights enough.
CanUseBed(h, t, b) ==
  LET s == h.sleeper[b]
  IN s = NoTenant \/ AccessLevel(h, t) = 3 \/ AccessLevel(h, s) <= AccessLevel(h, t)

\* BedItem::sleep of a free bed.
Sleep(h, t, b) == [h EXCEPT !.sleeper[b] = t, !.bedOf[t] = b, !.inside = @ \cup {t}]

\* Actions::internalUseItem of a bed.  A free bed takes the player, whom a task
\* kicks out of the game soon.
UseBed(t, b) ==
  /\ t \in awake
  /\ t \in inside \/ BedsAtTheWall
  /\ CanUseBed(House, t, b)
  /\ IF sleeper[b] # NoTenant
       THEN HouseBecomes(WakeUp(House, {b})) /\ UNCHANGED kicked
       ELSE /\ t \notin kicked  \* the time between two uses is longer than the kick's delay
            /\ HouseBecomes(Sleep(House, t, b))
            /\ kicked' = kicked \cup {t}
  /\ UNCHANGED <<awake, window, transferItem, sale>>

HouseNext ==
  \/ \E t \in Tenants :
       \/ TenantLogin(t) \/ TenantLeave(t) \/ Enter(t) \/ GoOut(t) \/ BuyHouse(t)
       \/ \E v \in Tenants : HouseKick(t, v) \/ SellHouse(t, v)
       \/ \E l \in Lists : OpenWindow(t, l)
       \/ \E names \in SUBSET Tenants : UpdateHouseWindow(t, names)
       \/ \E b \in Beds : UseBed(t, b)
  \/ \E t \in Tenants \cup {NoTenant} : GiveHouse(t)
  \/ SaleFails \/ SaleDone
  \/ RentFallsDue \/ DayGoesBy \/ \E enough \in BOOLEAN : PayHouse(enough)

-----------------------------------------------------------------------------
HouseTypeOK ==
  /\ awake \subseteq Tenants /\ inside \subseteq awake /\ kicked \subseteq awake
  /\ houseOwner \in Tenants \cup {NoTenant}
  /\ access \in [Lists -> SUBSET Tenants]
  /\ window \in [Tenants -> Lists \cup {"none"}]
  /\ transferItem \in BOOLEAN
  /\ sale \in [seller : Tenants \cup {NoTenant}, buyer : Tenants \cup {NoTenant}]
  /\ rent \in [paid : BOOLEAN, warnings : 0..MaxWarnings, warned : BOOLEAN]
  /\ sleeper \in [Beds -> Tenants \cup {NoTenant}]
  /\ bedOf \in [Tenants -> Beds \cup {NoBed}]

\* Nobody is inside who is not invited: every way to lose an invitation (a new
\* list, a new owner, rent not paid) also puts the player out.
NoIntruder == inside \subseteq HouseInvited(House)

\* The transfer document exists exactly while it is being traded: a document
\* left behind would make the house unsaleable for ever.
DocumentIsTraded == transferItem <=> sale # NoSale

\* The beds and the map of sleepers agree, so that a login frees the bed; and
\* who is in the game lies in no bed, except for the moment before the kick.
BedsAgree ==
  /\ \A b \in Beds, t \in Tenants : sleeper[b] = t <=> bedOf[t] = b
  /\ \A b \in Beds : sleeper[b] \in awake => sleeper[b] \in kicked

\* A house, its deed on sale and its beds stay in agreement with who is in it.
HouseConsistent == HouseTypeOK /\ NoIntruder /\ DocumentIsTraded /\ BedsAgree
===============================================================================
