------------------------------- MODULE Magic -------------------------------
(***************************************************************************)
(* Spells, runes and weapons (spells.cpp, weapons.cpp, combat.cpp): who    *)
(* may cast what, what comes of it, and what it costs in mana, exhaustion, *)
(* blanks, charges and ammunition.  A behaviour is about one entry of the  *)
(* books, used again and again by one player on one target.                *)
(*                                                                         *)
(* A script is a choice among what scripts do: it fails, it has an effect, *)
(* it kills the target, for which its caster may rise a level.  Positions  *)
(* are what the checks ask of them.                                        *)
(***************************************************************************)
EXTENDS Integers, Sequences, FiniteSets

CONSTANTS
  Books,      (* spells and weapons: a set of records                       *)
  Bearings,   (* sets of flags a player may have                           *)
  FullMana,   (* mana of a player of level 0                               *)
  MaxUses     (* bound: how often the player tries                         *)

Hands == {"none", "blank", "blanks", "product", "tool"}

(* Creatures are summoned and convinced at a price of their own, and the    *)
(* spells that do so have none (spells.xml).                                *)
ASSUME MagicAssumption ==
  /\ FullMana \in Nat \ {0} /\ MaxUses \in Nat
  /\ \A b \in Books :
       /\ b.mana \in Nat /\ b.percent \in Nat /\ b.holds \subseteq Hands
       /\ b.aggressive \in BOOLEAN /\ b.exhaustion \in BOOLEAN
       /\ b.kind = "weapon" \/ b.effect \notin {"summon", "convince"}
            \/ (b.mana = 0 /\ b.percent = 0 /\ b.prey \in Nat)

VARIABLES
  book,       (* the spell, rune or weapon in question                     *)
  gifts,      (* the player's flags                                        *)
  mage,       (* the player                                                *)
  mark,       (* the target: where it is and whether it is alive           *)
  bill        (* what was done and what was paid since the start           *)

magicVars == <<book, gifts, mage, mark, bill>>

Zones == {"open", "protection", "pvp"}
Spots == {"free", "blocked", "crowded", "protected", "upstairs"}

(* Operators take and give back [m |-> mage, t |-> mark, b |-> bill].       *)
Now == [m |-> mage, t |-> mark, b |-> bill]

Has(f) == f \in gifts

-----------------------------------------------------------------------------
(* Cost and payment.                                                       *)

\* Spell::getManaCost, Weapon::getManaCost
Cost(w) == IF book.mana # 0 THEN book.mana ELSE (w.m.most * book.percent) \div 100

\* Spell::postCastSpell(player, manaCost), with Player::addManaSpent and
\* changeMana, which stops at 0.
Charge(w, n) ==
  LET taken == IF Has("infiniteMana") THEN 0 ELSE IF n > w.m.mana THEN w.m.mana ELSE n
  IN [w EXCEPT !.m.mana = @ - taken, !.b.trained = @ + n,
               !.b.short = @ \/ (taken # n /\ ~Has("infiniteMana"))]

\* Player::addCombatExhaust, addHealExhaust and addInFightTicks
Exhaust(w) ==
  IF Has("noExhaustion") \/ ~book.exhaustion THEN w
  ELSE [w EXCEPT !.m.exhausted = @ \cup {IF book.aggressive THEN "combat" ELSE "heal"}]

Finish(w) ==
  LET x == Exhaust(w)
  IN IF book.aggressive /\ ~Has("noFight") THEN [x EXCEPT !.m.fights = TRUE] ELSE x

\* Seeded fault: whoever finishes a spell pays for it.
PostCastAlways(w, finished, pays) ==
  LET x == IF finished THEN Finish(w) ELSE w
  IN IF pays \/ finished THEN Charge(x, Cost(x)) ELSE x

\* Spell::postCastSpell(player, finishedCast, payCost)
PostCastSpell(w, finished, pays) ==
  LET x == IF finished THEN Finish(w) ELSE w
  IN IF pays THEN Charge(x, Cost(x)) ELSE x

-----------------------------------------------------------------------------
(* What a spell asks for.                                                  *)

\* Spell::playerSpellCheck
PlayerSpellCheck(w) ==
  /\ ~Has("noSpells")
  /\ \/ Has("ignoreCheck")
     \/ /\ ~(book.aggressive /\ w.m.zone = "protection")
        /\ w.m.exhausted = {}
        /\ ~Has("unfit")
        /\ w.m.mana >= Cost(w) \/ Has("infiniteMana")

\* Combat::canDoCombat(caster, tile, isAggressive) and what a spell asks of
\* the place it is cast at
CanDoCombat(spot) == spot \notin {"blocked", "upstairs"} /\ ~(spot = "protected" /\ book.aggressive)

Suits(spot) == CanDoCombat(spot) /\ ~(book.clear /\ spot = "crowded")

PlayerInstantSpellCheck(w, spot) == PlayerSpellCheck(w) /\ Suits(spot)

\* Spell::playerRuneSpellCheck: the place must also be in reach, and hold a
\* creature if the rune is for creatures.
PlayerRuneSpellCheck(w, spot, reach) ==
  PlayerSpellCheck(w) /\ reach /\ Suits(spot) /\ (book.aim = "target" => spot = "crowded")

\* InstantSpell::canThrowSpell
CanThrowSpell(w) == w.t.at = "near"

-----------------------------------------------------------------------------
(* What comes of it.                                                       *)

\* A kill gives experience: the player's level, and its most mana, may rise.
Kill(w, rises) ==
  [w EXCEPT !.t.alive = FALSE,
            !.m.most = IF rises THEN @ + FullMana ELSE @,
            !.b.rose = @ \/ rises]

Done(w, n) ==
  [w EXCEPT !.b.done = @ + n, !.b.due = @ + n * Cost(w)]

\* Combat::CombatConditionFunc, CombatDispelFunc, CombatHealthFunc and
\* CombatManaFunc on the target: a blow that is blocked brings nothing with it.
CombatConditionFunc(w) == {w, [w EXCEPT !.t.ill = TRUE]}
CombatDispelFunc(w)    == {[w EXCEPT !.t.ill = FALSE]}
CombatHealthFunc(w)    == {w} \cup CombatConditionFunc(w)
                            \cup (IF w.t.alive THEN {Kill(w, w.m.most = FullMana)} ELSE {})

\* Combat::doCombatHealth and its like on one creature, which may be out of
\* reach of an attack by now.
DoCombatTarget(w) ==
  IF book.aggressive /\ w.t.alive /\ w.t.at = "near" THEN CombatHealthFunc(Done(w, 1)) ELSE {Done(w, 1)}

\* executeCastSpell of InstantSpell, RuneSpell and CombatSpell: the result, and
\* the world
Outcomes(w) ==
  {[ok |-> FALSE, w |-> w]} \cup {[ok |-> TRUE, w |-> x] : x \in DoCombatTarget(w)}

\* Combat::CombatFunc on the creatures of a tile, from the top: all of them, or
\* only the caster, if it stands there, or the first.
Reached(crowd) ==
  {c \in IF ~book.topmost THEN {crowd[i] : i \in DOMAIN crowd}
         ELSE IF "mage" \in {crowd[i] : i \in DOMAIN crowd} THEN {"mage"} ELSE {Head(crowd)} :
     book.aggressive => c # "mage"}

Blow(w, crowd) ==
  LET hit == IF crowd = <<>> THEN {} ELSE Reached(crowd)
      x   == [w EXCEPT !.b.own = @ \/ (book.aggressive /\ "mage" \in hit),
                       !.b.wide = @ \/ (book.topmost /\ Cardinality(hit) > 1)]
  IN IF "mark" \notin hit THEN {x}
     ELSE CASE book.combat = "condition" -> CombatConditionFunc(x)
            [] book.combat = "dispel"    -> CombatDispelFunc(x)
            [] OTHER                     -> CombatHealthFunc(x)

\* Combat::combatTileEffects: a field that may harm brings its caster into a
\* fight.
CombatTileEffects(w) ==
  IF book.aggressive /\ ~Has("noFight") THEN [w EXCEPT !.m.fights = TRUE] ELSE w

\* Combat::doCombat at a position
AreaCombat(w) ==
  LET crowds == IF w.t.alive /\ w.t.at = "near"
                THEN {<<"mark">>, <<"mage", "mark">>, <<"mark", "mage">>} ELSE {<<>>, <<"mage">>}
  IN {[ok |-> TRUE, w |-> CombatTileEffects(x)] : x \in UNION {Blow(Done(w, 1), c) : c \in crowds}}

\* InstantSpell::SummonMonster: the creature has a price of its own.
SummonMonster(w) ==
  LET able == Has("summonAll") \/ (w.m.mana >= book.prey /\ w.m.summons < 2)
      came == [w EXCEPT !.m.summons = @ + 1, !.b.due = @ + book.prey]
  IN {[ok |-> FALSE, w |-> w]}
       \cup IF able THEN {[ok |-> TRUE, w |-> Done(Charge(came, book.prey), 1)]} ELSE {}

\* RuneSpell::Convince
Convince(w) ==
  LET able == /\ Has("convinceAll") \/ w.m.summons < 2
              /\ w.t.alive /\ w.t.at = "near"
              /\ Has("infiniteMana") \/ w.m.mana >= book.prey
      came == [w EXCEPT !.m.summons = @ + 1, !.t.at = "gone", !.b.due = @ + book.prey]
  IN {[ok |-> FALSE, w |-> w]}
       \cup IF able THEN {[ok |-> TRUE, w |-> Done(Charge(came, book.prey), 1)]} ELSE {}

\* A spell that needs something of the world: it is there, or not.
If(able, w) == [ok |-> able, w |-> IF able THEN Done(w, 1) ELSE w]

\* Spell::CreateIllusion of a creature or an item, InstantSpell::Illusion and
\* RuneSpell::Illusion
CreateIllusion(w, known, fit) == If(known /\ (fit \/ Has("illusionAll")), w)
Illusion(w)     == {CreateIllusion(w, known, fit) : known, fit \in BOOLEAN}
RuneIllusion(w) == {CreateIllusion(w, moveable, TRUE) : moveable \in BOOLEAN}

\* InstantSpell::Levitate: the tiles above or below must let it through.
Levitate(w) == {If(free, w) : free \in BOOLEAN}

\* InstantSpell::HouseGuestList and its like: in a house they are cast, for
\* nothing if the caster may not edit the list.
HouseList(w) == {If(inside, w) : inside \in BOOLEAN}

\* InstantSpell::SearchPlayer: who is not online is not found.
SearchPlayer(w) == {If(online, w) : online \in BOOLEAN}

Results(w) ==
  CASE book.effect = "summon"   -> SummonMonster(w)
    [] book.effect = "convince" -> Convince(w)
    [] book.effect = "illusion" -> IF book.kind = "rune" THEN RuneIllusion(w) ELSE Illusion(w)
    [] book.effect = "levitate" -> Levitate(w)
    [] book.effect = "house"    -> HouseList(w)
    [] book.effect = "search"   -> SearchPlayer(w)
    [] book.effect = "area"     -> AreaCombat(w)
    [] OTHER                    -> Outcomes(w)

\* InstantSpell::playerCastInstant and RuneSpell::executeUse after the checks
Casts(w) == {IF r.ok THEN PostCastSpell(r.w, TRUE, TRUE) ELSE r.w : r \in Results(w)}

-----------------------------------------------------------------------------
(* Instant spells.                                                         *)

\* InstantSpell::playerCastInstant: the target named or attacked, or the place
\* in front of the caster if there is none and the spell allows it.
PlayerCastInstant(w, spot) ==
  LET target == w.t.at # "gone" /\ w.t.alive
  IN IF ~PlayerSpellCheck(w) THEN {w}
     ELSE CASE book.aim \in {"self", "param"} -> Casts(w)
            [] book.aim \in {"target", "either"} /\ target -> IF CanThrowSpell(w) THEN Casts(w) ELSE {w}
            [] book.aim = "target" /\ ~target -> {w}
            [] OTHER -> IF PlayerInstantSpellCheck(w, spot) THEN Casts(w) ELSE {w}

\* RuneSpell::canExecuteAction and executeUse.  A charge is taken by
\* transformItem, which leaves an item whose count it finds unchanged: so it
\* does with a rune that lost its charges (setIntAttr), and reads none.
TakeCharge(w) ==
  LET n == IF w.m.kept THEN w.m.charges ELSE 0
  IN IF n = 0 THEN w ELSE [w EXCEPT !.m.charges = n - 1, !.b.used = @ + 1]

ExecuteUse(w, spot, reach) ==
  IF Has("noSpells") \/ w.m.charges = 0 \/ ~PlayerRuneSpellCheck(w, spot, reach) THEN {w}
  ELSE {IF r.ok THEN TakeCharge(PostCastSpell(r.w, TRUE, TRUE)) ELSE r.w : r \in Results(w)}

-----------------------------------------------------------------------------
(* Conjuring.                                                              *)

\* ConjureSpell::internalConjureItem with a reagent
CanConjure(w, hand) == w.m.hands[hand] = "blank"

ConjureHand(w, hand) ==
  Done([w EXCEPT !.m.hands[hand] = "product", !.b.used = @ + 1], 1)

\* ConjureSpell::ConjureItem, one hand after the other
ConjureItem(w) ==
  LET Try(x, hand) == IF CanConjure(x, hand) /\ PlayerSpellCheck(x)
                      THEN PostCastSpell(ConjureHand(x, hand), FALSE, TRUE) ELSE x
      first  == Try(w, "left")
      second == Try(first, "right")
  IN IF ~Has("ignoreCheck") /\ w.m.zone = "pvp" THEN w
     ELSE IF CanConjure(w, "left") /\ first = w THEN w
     ELSE IF second # w \/ (CanConjure(w, "right") /\ second = first)
     THEN PostCastSpell(second, TRUE, FALSE) ELSE w

\* ConjureFood, and ConjureItem without a reagent: a new item for a hand or a
\* bag, if there is room.
ConjureFood(w) == {w, PostCastSpell(Done(w, 1), TRUE, TRUE)}

ConjureCast(w) ==
  IF ~PlayerSpellCheck(w) THEN {w}
  ELSE IF book.effect = "reagent" THEN {ConjureItem(w)} ELSE ConjureFood(w)

-----------------------------------------------------------------------------
(* Weapons.                                                                *)

\* Player::getWeapon: the right hand first; a bow gives the ammunition that
\* fits it, and is passed over without any.
GetWeapon(w) ==
  IF "tool" \notin {w.m.hands["left"], w.m.hands["right"]} THEN "fist"
  ELSE IF book.ammo = "none" \/ w.m.ammo > 0 THEN "weapon" ELSE "fist"

\* Weapon::playerWeaponCheck: 0, or the share of the damage that is dealt
PlayerWeaponCheck(w) ==
  /\ w.t.at \in book.reach
  /\ Has("ignoreWeapon") \/ (~Has("unfit") /\ w.m.mana >= Cost(w))

\* Weapon::onUsedWeapon
OnUsedWeapon(w) ==
  LET x == Exhaust(w) IN Charge(x, Cost(x))

\* Weapon::onUsedAmmo and WeaponDistance::onUsedAmmo, with REMOVE_AMMUNITION:
\* ammunition is used up, breaks, or lands where it was thrown.
OnUsedAmmo(w) ==
  LET spent == [w EXCEPT !.m.ammo = @ - 1, !.b.used = @ + 1]
  IN CASE book.ammo = "remove"   -> {spent}
       [] book.ammo = "move"     -> {[w EXCEPT !.m.ammo = @ - 1, !.m.ground = @ + 1], spent}
       [] book.ammo = "moveBack" -> {w, spent}
       [] book.ammo = "charges"  -> {TakeCharge(w)}
       [] OTHER -> {w}

\* Weapon::internalUseWeapon, on a creature or, for a shot that misses, a tile;
\* and the second, elemental hit of WeaponMelee::useWeapon
InternalUseWeapon(w) ==
  UNION {{OnUsedWeapon(x) : x \in OnUsedAmmo(h)} :
         h \in {Done(w, 1), Kill(Done(w, 1), w.m.most = FullMana)}}

\* Weapon::useWeapon of each kind, Weapon::useFist
UseWeapon(w) == IF PlayerWeaponCheck(w) THEN InternalUseWeapon(w) ELSE {w}
UseFist(w)   == IF w.t.at = "near" THEN {w, Kill(w, w.m.most = FullMana)} ELSE {w}

\* Player::doAttacking: a swing that would interrupt waits for the next action
\* and is not made by a weapon that exhausts.
DoAttacking(w) ==
  IF ~w.m.rested THEN {w}
  ELSE LET swings == IF GetWeapon(w) = "fist" THEN UseFist(w)
                     ELSE IF ~book.interrupts THEN UseWeapon(w)
                     ELSE IF book.exhaustion THEN {w} ELSE UseWeapon(w)
       IN {IF x = w THEN w ELSE [x EXCEPT !.m.rested = FALSE] : x \in swings}

-----------------------------------------------------------------------------
MagicBecomes(w) ==
  /\ mage' = w.m /\ mark' = w.t /\ bill' = [w.b EXCEPT !.uses = @ + 1]
  /\ UNCHANGED <<book, gifts>>

Tries == bill.uses < MaxUses

\* Spells::playerSaySpell
PlayerSaySpell ==
  /\ Tries
  /\ \/ /\ book.kind = "instant"
        /\ \E spot \in Spots : \E w \in PlayerCastInstant(Now, spot) : MagicBecomes(w)
     \/ /\ book.kind = "conjure"
        /\ \E w \in ConjureCast(Now) : MagicBecomes(w)

UseRune ==
  /\ Tries /\ book.kind = "rune"
  /\ \E spot \in Spots, reach \in BOOLEAN : \E w \in ExecuteUse(Now, spot, reach) : MagicBecomes(w)

Attack ==
  /\ Tries /\ book.kind = "weapon" /\ mark.alive
  /\ \E w \in DoAttacking(Now) : MagicBecomes(w)

\* Conditions end, mana comes back, and the next swing is due.
Rest ==
  /\ Tries
  /\ mage' = [mage EXCEPT !.exhausted = {}, !.fights = FALSE, !.rested = TRUE,
                          !.mana = IF @ < mage.most THEN @ + 1 ELSE @]
  /\ mage' # mage
  /\ UNCHANGED <<book, gifts, mark, bill>>

\* The player walks, and targets come and go, where a spell looks at it.
Move ==
  /\ Tries
  /\ \/ \E z \in Zones \ {mage.zone} : mage' = [mage EXCEPT !.zone = z] /\ UNCHANGED mark
     \/ \E a \in {"near", "far", "upstairs", "gone"} :
          /\ book.kind # "conjure"
          /\ mark' = [at |-> a, alive |-> TRUE, ill |-> FALSE] /\ mark' # mark /\ UNCHANGED mage
  /\ UNCHANGED <<book, gifts, bill>>

MagicInit ==
  /\ book \in Books /\ gifts \in Bearings
  /\ \E mana \in 0..FullMana, l, r \in book.holds,
        kept \in IF book.kind = "rune" THEN BOOLEAN ELSE {TRUE} :
       mage = [mana |-> mana, most |-> FullMana, exhausted |-> {}, fights |-> FALSE,
               zone |-> "open", rested |-> TRUE, summons |-> 0,
               hands |-> [left |-> l, right |-> r], kept |-> kept,
               charges |-> 2, ammo |-> 2, ground |-> 0]
  /\ mark = [at |-> "near", alive |-> TRUE, ill |-> FALSE]
  /\ bill = [uses |-> 0, done |-> 0, due |-> 0, trained |-> 0, used |-> 0,
             short |-> FALSE, rose |-> FALSE, own |-> FALSE, wide |-> FALSE]

MagicNext == PlayerSaySpell \/ UseRune \/ Attack \/ Rest \/ Move

-----------------------------------------------------------------------------
MagicTypeOK ==
  /\ mage.mana \in 0..mage.most /\ mage.exhausted \subseteq {"combat", "heal"}
  /\ mage.zone \in Zones /\ \A h \in {"left", "right"} : mage.hands[h] \in Hands
  /\ mage.charges \in 0..2 /\ mage.ammo \in 0..2 /\ mage.summons \in Nat

\* Every effect is paid for once, and nothing else is: what was spent is what
\* the effects cost when they were made, unless the caster rose a level in one.
PaidOnce == bill.rose \/ bill.trained = bill.due

\* Nobody casts on credit: mana that could not be taken was asked of a player
\* who is exempt from the checks or rose a level in the effect.
NoCredit == bill.short => bill.rose \/ gifts \cap {"ignoreCheck", "ignoreWeapon", "summonAll"} # {}

\* Blanks become products one for one, and ammunition is in the slot, on the
\* ground or used up.
NothingFromNothing ==
  /\ book.kind = "conjure" /\ book.effect = "reagent" => bill.used = bill.done
  /\ book.kind = "weapon" /\ book.ammo \in {"remove", "move", "moveBack"} =>
       mage.ammo + mage.ground + bill.used = 2
  /\ book.kind = "rune" => bill.used + mage.charges = 2 /\ (mage.kept => bill.used <= bill.done)

\* An attack spares its caster, and a spell for one creature reaches one.
FairAim == ~bill.own /\ ~bill.wide

\* What is done is paid for, once and in time, nothing is made of nothing, and
\* blows reach who they should, over any sequence of casts, walks and rests.
MagicConsistent == MagicTypeOK /\ PaidOnce /\ NoCredit /\ NothingFromNothing /\ FairAim
=============================================================================
