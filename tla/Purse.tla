------------------------------- MODULE Purse -------------------------------
(***************************************************************************)
(* Money (Source/game.cpp, player.cpp): coins of three kinds, carried in   *)
(* the hand and in bags, or in a depot, and the balances some servers keep *)
(* instead.  A sum is taken by collecting the coins, giving up the least   *)
(* of them one stack after the other and getting change; what does not fit *)
(* into the inventory falls to the ground.                                 *)
(*                                                                         *)
(* The payer is a player who is online.  The payee may be online or not:   *)
(* then its balance is only in the database.                               *)
(***************************************************************************)
EXTENDS Integers, Sequences, FiniteSets, SequencesExt, FiniteSetsExt

CONSTANTS
  Hundred,     (* coins in a stack, and the worth of the next coin; 100    *)
  BagRoom,     (* items in a bag                                           *)
  Strength,    (* coins the payer can carry                                *)
  Prices,      (* sums that are asked for; below 2^31, as in the scripts   *)
  Hoards,      (* what there is at first: functions from Holders to items  *)
  MaxMoney     (* bound: money in the world                                *)

VARIABLES
  hoard,        (* the items in each holder, the newest first               *)
  balance,     (* Player::balance of the payer                             *)
  online,      (* the balance of the payee in memory, or None              *)
  saved,       (* its balance in the database                              *)
  accounts,    (* ConfigManager::USE_ACCBALANCE                            *)
  ledger,      (* ghost: what should be there in all                       *)
  verdict      (* ghost: what the last sum was, and what was answered      *)

purseVars == <<hoard, balance, online, saved, accounts, ledger, verdict>>

\* The body has a slot for a bag and a hand.  "outer" and "inner" are bags.
Holders == {"body", "outer", "inner", "depot", "tile"}
Vacant  == [id |-> "vacant", n |-> 0]
Coin(id, n) == [id |-> id, n |-> n]
Pouch(b)    == [id |-> "bag", n |-> 1, bag |-> b]
Offline == -1

\* Item::getWorth
Value(id) == CASE id = "gold" -> 1 [] id = "platinum" -> Hundred
               [] id = "crystal" -> Hundred * Hundred [] OTHER -> 0
Worth(i) == i.n * Value(i.id)

Sum(s) == FoldLeft(LAMBDA a, i : a + Worth(i), 0, s)

PurseWorld == [hoard |-> hoard, balance |-> balance, online |-> online, saved |-> saved,
               ledger |-> ledger, verdict |-> [asked |-> 0]]
Settles(w) ==
  \E v \in {w} :
    /\ hoard' = v.hoard /\ balance' = v.balance /\ online' = v.online /\ saved' = v.saved
    /\ ledger' = v.ledger /\ verdict' = v.verdict /\ UNCHANGED accounts

-----------------------------------------------------------------------------
(* Looking through a holder: first all of it, then the bags in the order   *)
(* they were come across.                                                  *)

BagsIn(w, h) == LET bags == SelectSeq(w.hoard[h], LAMBDA i : i.id = "bag")
                IN [k \in DOMAIN bags |-> bags[k].bag]

RECURSIVE Visit(_, _)
Visit(w, queue) ==
  IF queue = << >> THEN << >>
  ELSE <<Head(queue)>> \o Visit(w, Tail(queue) \o BagsIn(w, Head(queue)))

\* Every item with the holder it is in, as the loops come to it.
Inside(w, h) ==
  LET found(x) == [k \in DOMAIN w.hoard[x] |-> [at |-> x, item |-> w.hoard[x][k]]]
  IN FoldLeft(LAMBDA s, x : s \o found(x), << >>, Visit(w, <<h>>))

\* Game::getMoney
Money(w, h) == FoldLeft(LAMBDA a, e : a + Worth(e.item), 0, Inside(w, h))

\* Player::__getItemTypeCount
TypeCount(w, id) ==
  FoldLeft(LAMBDA a, e : a + IF e.item.id = id THEN e.item.n ELSE 0, 0, Inside(w, "body"))

-----------------------------------------------------------------------------
(* Game::internalRemoveItem, internalAddItem.                              *)

\* The first such item goes, or some of it.
Less(s, i, n, keep) ==
  LET k == CHOOSE k \in DOMAIN s : s[k] = i /\ \A j \in 1..(k - 1) : s[j] # i
  IN IF n < i.n THEN [s EXCEPT ![k].n = @ - n]
     ELSE IF keep THEN [s EXCEPT ![k] = Vacant]
     ELSE RemoveAt(s, k)
RemoveSome(w, h, i, n) == [w EXCEPT !.hoard[h] = Less(@, i, n, h = "body")]

\* A bag that is removed is freed with what is in it.
RemovePouch(w, h, i) ==
  LET lost   == Money(w, i.bag)
      gone   == ToSet(Visit(w, <<i.bag>>))
      v      == RemoveSome(w, h, i, 1)
  IN [v EXCEPT !.hoard = [x \in Holders |-> IF x \in gone THEN << >> ELSE v.hoard[x]],
               !.ledger = @ - lost]
RemoveAll(w, h, i) == IF i.id = "bag" THEN RemovePouch(w, h, i) ELSE RemoveSome(w, h, i, i.n)

\* Player::hasCapacity; a coin weighs one, a bag nothing.
Load(w) == FoldLeft(LAMBDA a, e : a + IF Value(e.item.id) > 0 THEN e.item.n ELSE 0, 0,
                    Inside(w, "body"))
CanCarry(w, i) == i.n < Strength - Load(w)

\* Player::__queryDestination: the hand if it is empty, then the first bag with
\* room, on the body before those in other bags; none means it is refused.
Destination(w, i) ==
  LET roomy == SelectSeq(Tail(Visit(w, <<"body">>)), LAMBDA b : Len(w.hoard[b]) < BagRoom)
  IN IF ~CanCarry(w, i) THEN {}
     ELSE IF w.hoard["body"][2] = Vacant THEN {"body"}
     ELSE IF roomy = << >> THEN {} ELSE {Head(roomy)}

\* On the tile a stack is added to the top item if that is of the same kind.
DroppedOn(s, i) ==
  IF s # << >> /\ Head(s).id = i.id
    THEN LET n == Min({Hundred - Head(s).n, i.n})
             top == <<[Head(s) EXCEPT !.n = @ + n]>>
         IN IF n = i.n THEN top \o Tail(s)
            ELSE <<Coin(i.id, i.n - n)>> \o top \o Tail(s)
    ELSE <<i>> \o s

\* To the payer, or if it is refused to its tile; to a depot without a limit.
AddItem(w, h, i) ==
  IF h = "depot" THEN [w EXCEPT !.hoard["depot"] = <<i>> \o @]
  ELSE LET to == Destination(w, i)
       IN CASE to = {}       -> [w EXCEPT !.hoard["tile"] = DroppedOn(@, i)]
            [] to = {"body"} -> [w EXCEPT !.hoard["body"][2] = i]
            [] OTHER         -> [w EXCEPT !.hoard[CHOOSE b \in to : TRUE] = <<i>> \o @]

-----------------------------------------------------------------------------
(* Game::addMoney, removeMoney, removeItemOfType.                          *)

\* The stacks a sum is paid out in: crystal, then platinum, then gold.
Change(sum) ==
  LET crys  == sum \div (Hundred * Hundred)
      plat  == (sum \div Hundred) % Hundred
      gold  == sum % Hundred
      full  == [k \in 1..(crys \div Hundred) |-> Coin("crystal", Hundred)]
      some(id, n) == IF n = 0 THEN << >> ELSE <<Coin(id, n)>>
  IN full \o some("crystal", crys % Hundred) \o some("platinum", plat) \o some("gold", gold)

AddMoney(w, h, sum) == FoldLeft(LAMBDA v, i : AddItem(v, h, i), w, Change(sum))

\* The coins from the least worth to the most, equal ones as they were found.
Ordered(w, h) ==
  LET coins == SelectSeq(Inside(w, h), LAMBDA e : Value(e.item.id) > 0)
      place(k) == Cardinality({j \in DOMAIN coins :
                     \/ Worth(coins[j].item) < Worth(coins[k].item)
                     \/ Worth(coins[j].item) = Worth(coins[k].item) /\ j <= k})
  IN [p \in DOMAIN coins |-> coins[CHOOSE k \in DOMAIN coins : place(k) = p]]

\* Seeded fault: the change is what the stack was worth.
GivenUpDear(r, h, e) ==
  IF r.left <= 0 THEN r
  ELSE LET v == RemoveSome(r.w, e.at, e.item, e.item.n)
       IN IF Worth(e.item) <= r.left THEN [w |-> v, left |-> r.left - Worth(e.item)]
          ELSE [w |-> AddMoney(v, h, Worth(e.item)), left |-> 0]

\* One round of the last loop: the stack is removed, and there is change if it
\* was worth more than what is left to pay.
GivenUp(r, h, e) ==
  IF r.left <= 0 THEN r
  ELSE LET v == RemoveSome(r.w, e.at, e.item, e.item.n)
       IN IF Worth(e.item) <= r.left THEN [w |-> v, left |-> r.left - Worth(e.item)]
          ELSE [w |-> AddMoney(v, h, Worth(e.item) - r.left), left |-> 0]

\* removeMoney: the world after it, and what it returns.
RemoveMoney(w, h, sum) ==
  IF sum <= 0 THEN [w |-> w, ok |-> TRUE]
  ELSE IF Money(w, h) < sum THEN [w |-> w, ok |-> FALSE]
  ELSE LET r == FoldLeft(LAMBDA a, e : GivenUp(a, h, e), [w |-> w, left |-> sum], Ordered(w, h))
       IN [w |-> r.w, ok |-> r.left = 0]

\* One holder of removeItemOfType: items of the kind are taken until there are
\* enough; other bags are remembered for later, those of the kind are not.
TakenFrom(r, h, id) ==
  FoldLeft(LAMBDA a, i :
      IF a.left = 0 THEN a
      ELSE IF i.id = id
        THEN IF i.n > a.left THEN [a EXCEPT !.w = RemoveSome(a.w, h, i, a.left), !.left = 0]
             ELSE [a EXCEPT !.w = RemoveAll(a.w, h, i), !.left = @ - i.n]
      ELSE IF i.id = "bag" THEN [a EXCEPT !.queue = Append(@, i.bag)] ELSE a,
    r, r.w.hoard[h])

RECURSIVE TakenAll(_, _)
TakenAll(r, id) ==
  IF r.queue = << >> \/ r.left = 0 THEN r
  ELSE LET h == Head(r.queue)
       IN TakenAll(TakenFrom([r EXCEPT !.queue = Tail(@)], h, id), id)

RemoveOfType(w, id, count) ==
  IF TypeCount(w, id) < count THEN [w |-> w, ok |-> FALSE]
  ELSE LET r == TakenAll([w |-> w, left |-> count, queue |-> <<"body">>], id)
       IN [w |-> r.w, ok |-> r.left = 0]

-----------------------------------------------------------------------------
(* Who asks.                                                               *)

Asked(h, sum, before, ok) == [asked |-> sum, from |-> h, had |-> before, ok |-> ok]

\* A sum is taken for good: the world and whether it was.
Spent(h, sum) ==
  LET r == RemoveMoney(PurseWorld, h, sum)
  IN [r EXCEPT !.w.ledger = IF r.ok THEN @ - sum ELSE @,
               !.w.verdict = Asked(h, sum, Money(PurseWorld, h), r.ok)]

\* doPlayerRemoveMoney.
ScriptTakes(sum) == Settles(Spent("body", sum).w)

\* Commands::subtractMoney and buyHouse ask first how much there is.
CommandTakes(sum) ==
  /\ sum > 0 /\ Money(PurseWorld, "body") >= sum
  /\ Settles(Spent("body", sum).w)

\* doPlayerAddMoney
ScriptPays(sum) ==
  /\ ledger + sum <= MaxMoney
  /\ Settles([AddMoney(PurseWorld, "body", sum) EXCEPT !.ledger = @ + sum])

\* doPlayerRemoveItem, for coins and for bags; counted by getPlayerItemCount.
ScriptTakesItems(id, count) ==
  LET r == RemoveOfType(PurseWorld, id, count)
  IN Settles([r.w EXCEPT !.ledger = IF r.ok THEN @ - count * Value(id) ELSE @])

\* Player::depositMoney, withdrawMoney
Deposit(sum) ==
  /\ accounts
  /\ LET r == RemoveMoney(PurseWorld, "body", sum)
     IN Settles([r.w EXCEPT !.balance = IF r.ok THEN @ + sum ELSE @,
                            !.verdict = Asked("body", sum, Money(PurseWorld, "body"), r.ok)])
Withdraw(sum) ==
  /\ accounts /\ balance >= sum
  /\ Settles([AddMoney(PurseWorld, "body", sum) EXCEPT !.balance = @ - sum])

\* Player::transferMoneyTo: a payee who is offline is loaded, and saved again.
Transfer(sum) ==
  /\ accounts /\ balance >= sum
  /\ Settles(LET w == [PurseWorld EXCEPT !.balance = @ - sum]
             IN IF online = Offline THEN [w EXCEPT !.saved = @ + sum]
                ELSE [w EXCEPT !.online = @ + sum])
TransferToSelf(sum) == accounts /\ balance >= sum /\ Settles(PurseWorld)

\* The rent in Houses::payHouses: from the balance, or from the depot.
PayRent(sum) ==
  IF accounts THEN balance >= sum /\ Settles([PurseWorld EXCEPT !.balance = @ - sum,
                                                                !.ledger = @ - sum])
  ELSE Settles(Spent("depot", sum).w)

\* The payee logs in and out; a server save in between writes its balance too.
PayeeAppears == online = Offline /\ Settles([PurseWorld EXCEPT !.online = saved])
PayeeIsSaved == online # Offline /\ online # saved /\ Settles([PurseWorld EXCEPT !.saved = online])
PayeeLeaves  == online # Offline /\ Settles([PurseWorld EXCEPT !.saved = online, !.online = Offline])

\* The payer picks up what lies on top, if it can be carried; drops its hand.
PickUp ==
  /\ hoard["tile"] # << >>
  /\ Destination(PurseWorld, Head(hoard["tile"])) # {}
  /\ Settles(AddItem([PurseWorld EXCEPT !.hoard["tile"] = Tail(@)], "body", Head(hoard["tile"])))
Drop ==
  /\ Value(hoard["body"][2].id) > 0
  /\ Settles([PurseWorld EXCEPT !.hoard["body"][2] = Vacant,
                                !.hoard["tile"] = DroppedOn(@, hoard["body"][2])])

Total(w) == Money(w, "body") + Sum(w.hoard["depot"]) + Sum(w.hoard["tile"])
              + w.balance + (IF w.online = Offline THEN w.saved ELSE w.online)

PurseInit ==
  /\ hoard \in Hoards
  /\ balance = 0 /\ online = Offline /\ saved = 0
  /\ accounts \in BOOLEAN
  /\ ledger = Total([hoard |-> hoard, balance |-> 0, online |-> Offline, saved |-> 0])
  /\ verdict = [asked |-> 0]

PurseNext ==
  \/ \E sum \in Prices :
       \/ ScriptTakes(sum) \/ CommandTakes(sum) \/ ScriptPays(sum)
       \/ Deposit(sum) \/ Withdraw(sum)
       \/ Transfer(sum) \/ TransferToSelf(sum) \/ PayRent(sum)
       \/ \E id \in {"gold", "platinum", "bag"} : ScriptTakesItems(id, sum)
  \/ PayeeAppears \/ PayeeIsSaved \/ PayeeLeaves \/ PickUp \/ Drop

PurseSpec == PurseInit /\ [][PurseNext]_purseVars

-----------------------------------------------------------------------------
(* Properties.                                                             *)

PurseTypeOK ==
  /\ DOMAIN hoard = Holders /\ Len(hoard["body"]) = 2
  /\ \A h \in Holders : \A k \in DOMAIN hoard[h] :
       hoard[h][k].id \in {"gold", "platinum", "crystal", "bag"}
         \/ (h = "body" /\ hoard[h][k] = Vacant)
  /\ balance \in Nat /\ saved \in Nat /\ online \in Nat \cup {Offline}

\* However a sum is paid, whatever change falls to the ground and whether the
\* one who gets it is there or not: no money is made and none is lost but what
\* a script takes, gives, or throws away with a bag.
MoneyConserved == Total(PurseWorld) = ledger

\* A sum is paid if and only if there is enough, and then it is all paid; a
\* payment that fails takes nothing.
PaidOrUntouched ==
  verdict.asked > 0 =>
    /\ verdict.ok <=> verdict.had >= verdict.asked
    /\ ~verdict.ok => Money(PurseWorld, verdict.from) = verdict.had

\* No stack is higher than a stack may be, no bag fuller, and nobody carries
\* more than it can.
WithinLimits ==
  /\ \A h \in Holders : \A k \in DOMAIN hoard[h] : hoard[h][k].n <= Hundred
  /\ Len(hoard["outer"]) <= BagRoom /\ Len(hoard["inner"]) <= BagRoom
  /\ Load(PurseWorld) <= Strength

PurseConsistent == PurseTypeOK /\ MoneyConserved /\ PaidOrUntouched /\ WithinLimits
=============================================================================
