------------------------------ MODULE Conditions -------------------------------
(***************************************************************************)
(* The conditions of a player (Source/condition.cpp, the condition list of *)
(* creature.cpp, and what player.cpp and movement.cpp add to it): haste    *)
(* and paralysis, burning, invisibility, light, disguise, strength and the *)
(* equipment that gives some of them.  A unit of time is half the interval *)
(* between two calls of Creature::executeConditions, which may come late;  *)
(* endTime is kept as the time left until it, negative when it is over.    *)
(***************************************************************************)
EXTENDS Integers, Sequences, FiniteSets, SequencesExt

CONSTANTS
  Kits,         (* sets of conditions, one of which scripts and spells cast *)
  Gear,         (* slot -> [speed, skill, invisible, suppresses]            *)
  Looks,        (* the outfits a player may choose                          *)
  Late          (* how many units executeConditions may come late           *)

Think     == 2          (* EVENT_CREATURE_THINK_INTERVAL *)
Permanent == -1         (* ticks of a condition without an end *)
Nothing   == "nothing"  (* the look of an invisible creature *)
ById      == 0          (* CONDITIONID_COMBAT; worn conditions have their slot *)

Casts == UNION Kits

Disguises == {c \in Casts : c.type = "outfit"}

\* ConditionDamage::addDamage
Span(rounds) == FoldSeq(LAMBDA r, n : r.interval + n, 0, rounds)

ASSUME ConditionsAssumption ==
  /\ Late \in Nat /\ Nothing \notin Looks /\ Looks # {} /\ ById \notin DOMAIN Gear
  /\ \A c \in Casts :
       /\ c.ticks \in Nat /\ c.id = ById
       /\ c.type = "fire" =>
            c.ticks = Span(c.rounds) /\ c.rounds # <<>>
       /\ c.type = "light" => c.level > 0
  \* Rounds of one length: a refreshed condition keeps the time of its round.
  /\ \A c, d \in Casts : c.type = "fire" /\ d.type = "fire" =>
       \A i \in DOMAIN c.rounds, j \in DOMAIN d.rounds : c.rounds[i].interval = d.rounds[j].interval
  \* setConditionSuppressions keeps one bit for all slots.
  /\ \A s, t \in DOMAIN Gear : s # t => Gear[s].suppresses \cap Gear[t].suppresses = {}

VARIABLES
  conditions,   (* Creature::conditions                                     *)
  body,         (* speed, skill, look, light and what spectators and the    *)
                (* owner's client were told                                 *)
  worn,         (* isItemAbilityEnabled                                     *)
  kit,          (* what this behaviour casts                                *)
  field,        (* a magic field lies on the player's tile                  *)
  since         (* time since executeConditions                             *)

conditionVars == <<conditions, body, worn, kit, field, since>>

Well(look) == [speed |-> 0, skill |-> 0, default |-> look, look |-> look, shown |-> look,
               light |-> 0, icons |-> {}, suppressed |-> {}]

ConditionsInit ==
  /\ conditions = <<>> /\ kit \in Kits /\ field = FALSE /\ since = 0
  /\ \E look \in Looks : body = Well(look)
  /\ worn = [s \in DOMAIN Gear |-> FALSE]

Person == [list |-> conditions, body |-> body]

PersonBecomes(w) == conditions' = w.list /\ body' = w.body

-----------------------------------------------------------------------------
(* The list.                                                               *)

Listed(w, type) == {i \in DOMAIN w.list : w.list[i].type = type}

Find(w, type, id) == {i \in Listed(w, type) : w.list[i].id = id}

\* endTime has passed, even if executeConditions has not seen it.
IsOver(c) == c.ticks # Permanent /\ c.left < 0

\* Creature::hasCondition: neither suppressed nor over.
HasCondition(w, type) ==
  /\ type \notin w.body.suppressed
  /\ \E i \in Listed(w, type) : ~IsOver(w.list[i])

IsInvisible(w) == HasCondition(w, "invisible")

\* Player::sendIcons
SendIcons(w) ==
  [w EXCEPT !.body.icons = {w.list[i].type : i \in DOMAIN w.list} \ w.body.suppressed]

\* Game::internalCreatureChangeVisible
ChangeVisible(w, visible) == [w EXCEPT !.body.shown = IF visible THEN w.body.look ELSE Nothing]

\* Game::internalCreatureChangeOutfit
ChangeOutfit(w, look) ==
  [w EXCEPT !.body.look = look, !.body.shown = IF IsInvisible(w) THEN @ ELSE look]

\* The endConditions, of a condition that has left the list.
EndSpeed(w, c) == [w EXCEPT !.body.speed = @ - c.delta]

EndAttributes(w, c) == [w EXCEPT !.body.skill = @ - c.delta]

EndInvisible(w) == IF IsInvisible(w) THEN w ELSE ChangeVisible(w, TRUE)

EndOutfit(w) == ChangeOutfit(w, w.body.default)

EndLight(w) == [w EXCEPT !.body.light = 0]

EndCondition(w, c) ==
  CASE c.type \in {"haste", "paralyze"} -> EndSpeed(w, c)
    [] c.type = "attributes"            -> EndAttributes(w, c)
    [] c.type = "invisible"             -> EndInvisible(w)
    [] c.type = "outfit"                -> EndOutfit(w)
    [] c.type = "light"                 -> EndLight(w)
    [] OTHER                            -> w

\* The erase, endCondition and onEndCondition of every removeCondition.
Drop(w, c) == SendIcons(EndCondition([w EXCEPT !.list = Remove(@, c)], c))

DropAll(w, some) == FoldLeft(Drop, w, SelectSeq(w.list, LAMBDA c : c \in some))

\* Creature::removeCondition
RemoveCondition(w, type) == DropAll(w, {c \in ToSet(w.list) : c.type = type})

RemoveConditionOf(w, type, id) ==
  DropAll(w, {c \in ToSet(w.list) : c.type = type /\ c.id = id})

\* Player::onAddCondition
OnAddCondition(w, type) ==
  SendIcons(CASE type = "paralyze" /\ HasCondition(w, "haste") -> RemoveCondition(w, "haste")
              [] type = "haste" /\ HasCondition(w, "paralyze") -> RemoveCondition(w, "paralyze")
              [] OTHER -> w)

-----------------------------------------------------------------------------
(* Adding.                                                                 *)

\* ConditionDamage::generateDamageList: counting down from start, each number as
\* often as it brings the sum closer to its part of the amount.
Distance(n, m) == IF n < m THEN m - n ELSE n - m

GenerateDamageList(amount, start) ==
  LET Times(i, sum) ==
        LET goal == ((start + 1 - i) * amount) \div start
            Stops(k) == goal = 0 \/ Distance(sum + (k + 1) * i, goal) >= Distance(sum + k * i, goal)
        IN CHOOSE k \in 1..amount + 1 : Stops(k) /\ \A j \in 1..k - 1 : ~Stops(j)
      Next(list, n) ==
        LET i == start + 1 - n
        IN list \o [k \in 1..Times(i, FoldSeq(+, 0, list)) |-> i]
  IN FoldLeft(Next, <<>>, [n \in 1..start |-> n])

Total(rounds) == FoldSeq(LAMBDA r, n : r.value + n, 0, rounds)

\* getNextDamage: the first round is dealt at once, unless the condition is delayed.
DealFirst(c) == IF c.delayed \/ c.rounds = <<>> THEN c ELSE [c EXCEPT !.rounds = Tail(@)]

\* startCondition; what is dealt at once may be blocked, which ends it all.
Starts(c, blocked) == c.type = "fire" => c.rounds # <<>> /\ (c.delayed \/ ~blocked)

StartSpeed(w, c) == [w EXCEPT !.body.speed = @ + c.delta]

\* A percentage has become a number, delta, when the condition began.
StartAttributes(w, c) == [w EXCEPT !.body.skill = @ + c.delta]

StartOutfit(w, c) == ChangeOutfit(w, c.look)

StartLight(w, c) == [w EXCEPT !.body.light = c.level]

StartCondition(w, c) ==
  CASE c.type \in {"haste", "paralyze"} -> StartSpeed(w, c)
    [] c.type = "attributes"            -> StartAttributes(w, c)
    [] c.type = "invisible"             -> ChangeVisible(w, FALSE)
    [] c.type = "outfit"                -> StartOutfit(w, c)
    [] c.type = "light"                 -> StartLight(w, c)
    [] OTHER                            -> w

Begun(c) ==
  LET b == [c EXCEPT !.left = c.ticks]
  IN CASE c.type = "fire"  -> DealFirst(b)
       [] c.type = "light" -> [b EXCEPT !.internal = 0, !.every = c.ticks \div c.level]
       [] OTHER            -> b

\* updateCondition, of the conditions in general and of burning; a change of
\* speed is always taken.
RefusesBurning(p, c) == ~c.force /\ (c.ticks <= p.ticks \/ Total(c.rounds) < Total(p.rounds))

Refuses(p, c) ==
  \/ p.ticks = Permanent /\ c.ticks > 0
  \/ CASE c.type \in {"haste", "paralyze"} -> FALSE
       [] c.type = "fire"                  -> RefusesBurning(p, c)
       [] OTHER                            -> c.ticks >= 0 /\ p.left > c.ticks

\* Seeded fault: the difference in speed is not made up for.
SpeedOnTop(w, p, c) == StartSpeed(w, c)

\* The addConditions: what they change of the creature.
ReplaceSpeed(w, p, c) == [w EXCEPT !.body.speed = @ + c.delta - p.delta]

ReplaceAttributes(w, p, c) == StartAttributes(EndAttributes(w, p), c)

ReplaceOutfit(w, c) == StartOutfit(w, c)

ReplaceLight(w, c) == StartLight(w, c)

Replace(w, p, c) ==
  CASE c.type \in {"haste", "paralyze"} -> ReplaceSpeed(w, p, c)
    [] c.type = "attributes"            -> ReplaceAttributes(w, p, c)
    [] c.type = "outfit"                -> ReplaceOutfit(w, c)
    [] c.type = "light"                 -> ReplaceLight(w, c)
    [] OTHER                            -> w

\* ... and of the condition: a burning one keeps the time of its round and
\* whether it is delayed.
Refreshed(p, c) ==
  LET b == [c EXCEPT !.left = c.ticks, !.lapsed = p.lapsed \/ IsOver(p), !.late = 0]
  IN CASE c.type = "fire" ->
            DealFirst([b EXCEPT !.delayed = p.delayed,
                         !.rounds[1].timeLeft = IF p.rounds = <<>> THEN @ ELSE p.rounds[1].timeLeft])
       [] c.type = "light" -> [Begun(b) EXCEPT !.lapsed = b.lapsed]
       [] OTHER -> b

\* Creature::addCondition
AddCondition(w, c, blocked) ==
  LET same == Find(w, c.type, c.id)
      at   == CHOOSE i \in same : TRUE
      p    == w.list[at]
  IN CASE same = {} /\ Starts(c, blocked) ->
            OnAddCondition([StartCondition(w, c) EXCEPT !.list = Append(@, Begun(c))], c.type)
       [] same # {} /\ ~Refuses(p, c) -> Replace([w EXCEPT !.list[at] = Refreshed(p, c)], p, c)
       [] OTHER -> w

-----------------------------------------------------------------------------
(* Time.                                                                   *)

\* onTickCondition: the field one stands in keeps its fire burning.
Burns(c) ==
  LET r    == c.rounds[1]
      over == r.timeLeft <= Think
  IN CASE c.rounds = <<>> -> c
       [] c.rounds # <<>> /\ ~over -> [c EXCEPT !.rounds[1].timeLeft = @ - Think]
       [] c.rounds # <<>> /\ over /\ ~field -> [c EXCEPT !.rounds = Tail(@)]
       [] OTHER -> [c EXCEPT !.rounds[1].timeLeft = r.interval]

Aged(c) == IF c.ticks = Permanent THEN c ELSE [c EXCEPT !.ticks = IF @ > Think THEN @ - Think ELSE 0]

\* executeCondition of one condition.
Executed(c) ==
  CASE c.type = "fire" /\ field /\ c.rounds # <<>> ->
         [Burns(c) EXCEPT !.left = IF c.ticks > 0 THEN @ + Think ELSE @, !.cut = TRUE]
    [] c.type = "fire" /\ ~(field /\ c.rounds # <<>>) ->
         [Aged(Burns(c)) EXCEPT !.late = IF c.cut THEN 0 ELSE @ + since - Think]
    [] c.type = "light" -> Aged([c EXCEPT !.internal = IF @ + Think >= c.every THEN 0 ELSE @ + Think])
    [] OTHER -> Aged(c)

Dims(w, c) ==
  IF c.type = "light" /\ c.internal + Think >= c.every /\ w.body.light > 0
  THEN [w EXCEPT !.body.light = @ - 1] ELSE w

ExecuteOne(w, c) ==
  LET d == Executed(c)
      v == [Dims(w, c) EXCEPT !.list = ReplaceAll(w.list, c, d)]
  IN IF IsOver(d) THEN Drop(v, d) ELSE v

Pass ==
  /\ since < Think + Late /\ since' = since + 1
  /\ conditions' = [i \in DOMAIN conditions |->
                      [conditions[i] EXCEPT !.left = IF conditions[i].ticks = Permanent THEN @ ELSE @ - 1]]
  /\ UNCHANGED <<body, worn, kit, field>>

\* Creature::executeConditions
ExecuteConditions ==
  /\ since >= Think /\ since' = 0
  /\ PersonBecomes(FoldLeft(ExecuteOne, Person, conditions))
  /\ UNCHANGED <<worn, kit, field>>

-----------------------------------------------------------------------------
(* What happens to the player.                                             *)

\* Creature::addCombatCondition, doAddCondition.
Cast(c, blocked) ==
  /\ c \in kit /\ PersonBecomes(AddCondition(Person, c, blocked))
  /\ UNCHANGED <<worn, kit, field, since>>

\* CombatDispelFunc and Player::onCombatRemoveCondition: what is worn stays, and
\* while the player is exhausted the condition is only given an end.
DispelOne(w, c, delay) ==
  CASE c.id # ById -> w
    [] c.id = ById /\ delay = 0 -> Drop(w, c)
    [] OTHER -> [w EXCEPT !.list =
                   ReplaceAll(@, c, [c EXCEPT !.ticks = delay - Think, !.left = delay - Think, !.cut = TRUE])]

Dispel(type, delay) ==
  /\ HasCondition(Person, type)
  /\ PersonBecomes(FoldLeft(LAMBDA w, c : DispelOne(w, c, delay), Person,
                            SelectSeq(conditions, LAMBDA c : c.type = type)))
  /\ UNCHANGED <<worn, kit, field, since>>

Invisibility(s) ==
  [type |-> "invisible", id |-> s, ticks |-> Permanent, left |-> 0, lapsed |-> FALSE,
   late |-> 0, cut |-> FALSE]

\* MoveEvent::EquipItem
Equipped(w, s) ==
  LET g == Gear[s]
      v == IF g.invisible THEN AddCondition(w, Invisibility(s), FALSE) ELSE w
  IN SendIcons([v EXCEPT !.body.speed = @ + g.speed, !.body.skill = @ + g.skill,
                         !.body.suppressed = @ \cup g.suppresses])

Equip(s) ==
  /\ ~worn[s] /\ worn' = [worn EXCEPT ![s] = TRUE]
  /\ PersonBecomes(Equipped(Person, s)) /\ UNCHANGED <<kit, field, since>>

\* MoveEvent::DeEquipItem, also when the item is destroyed.
DeEquip(s) ==
  LET g == Gear[s]
      v == IF g.invisible THEN RemoveConditionOf(Person, "invisible", s) ELSE Person
  IN /\ worn[s] /\ worn' = [worn EXCEPT ![s] = FALSE]
     /\ PersonBecomes(SendIcons([v EXCEPT !.body.speed = @ - g.speed, !.body.skill = @ - g.skill,
                                          !.body.suppressed = @ \ g.suppresses]))
     /\ UNCHANGED <<kit, field, since>>

\* Game::playerChangeOutfit
PlayerChangeOutfit(look) ==
  LET w == [Person EXCEPT !.body.default = look]
  IN /\ PersonBecomes(IF HasCondition(w, "outfit") THEN w ELSE ChangeOutfit(w, look))
     /\ UNCHANGED <<worn, kit, field, since>>

\* A field appears on the player's tile, or the player leaves it.
FieldChanges ==
  /\ \E c \in kit : c.type = "fire"
  /\ field' = ~field /\ UNCHANGED <<conditions, body, worn, kit, since>>

\* Condition::isPersistent, serialize and unserialize.
Stored(c) == [c EXCEPT !.left = 0, !.lapsed = FALSE, !.late = 0, !.cut = FALSE]

Persistent == SelectSeq(conditions, LAMBDA c : c.ticks # Permanent /\ c.id = ById)

\* IOPlayer::savePlayer, loadPlayer and Player::onCreatureAppear: a new object is
\* equipped and then given the conditions of the old one.  Burning is stored
\* with its rounds and has their time.
Relog ==
  LET fresh == [list |-> <<>>, body |-> Well(body.default)]
      clad  == FoldSet(LAMBDA s, w : Equipped(w, s), fresh, {s \in DOMAIN Gear : worn[s]})
      Again(w, c) ==
        AddCondition(w, IF c.type = "fire" THEN [Stored(c) EXCEPT !.ticks = Span(c.rounds)] ELSE Stored(c), FALSE)
  IN /\ PersonBecomes(FoldLeft(Again, clad, Persistent))
     /\ since' = 0 /\ UNCHANGED <<worn, kit, field>>

ConditionsNext ==
  \/ Pass \/ ExecuteConditions \/ FieldChanges \/ Relog
  \/ \E c \in kit, blocked \in BOOLEAN : (blocked => c.type = "fire") /\ Cast(c, blocked)
  \/ \E c \in kit, delay \in {0, Think, 2 * Think} : Dispel(c.type, delay)
  \/ \E s \in DOMAIN Gear : Equip(s) \/ DeEquip(s)
  \/ \E look \in Looks : PlayerChangeOutfit(look)

-----------------------------------------------------------------------------

ConditionsTypeOK ==
  /\ \A i \in DOMAIN conditions :
       /\ conditions[i].ticks \in Nat \cup {Permanent}
       /\ conditions[i].id \in DOMAIN Gear \cup {ById}
       /\ Find(Person, conditions[i].type, conditions[i].id) = {i}
  /\ body.speed \in Int /\ body.skill \in Int /\ body.light \in Nat
  /\ {body.look, body.shown, body.default} \subseteq Looks \cup {Nothing} \cup {c.look : c \in Disguises}
  /\ worn \in [DOMAIN Gear -> BOOLEAN] /\ since \in 0..Think + Late

Running(i) == ~conditions[i].lapsed /\ ~IsOver(conditions[i])

SumOf(types) ==
  FoldSeq(LAMBDA c, n : IF c.type \in types THEN n + c.delta ELSE n, 0, conditions)

WornSum(Of(_)) == FoldSet(LAMBDA s, n : IF worn[s] THEN n + Of(Gear[s]) ELSE n, 0, DOMAIN Gear)

\* Speed and skill are what the conditions listed and the things worn add up
\* to: however they were replaced, dispelled, stored, refreshed or run out, no
\* bonus stays behind and none is taken twice.
NoBonusLeft ==
  /\ body.speed = SumOf({"haste", "paralyze"}) + WornSum(LAMBDA g : g.speed)
  /\ body.skill = SumOf({"attributes"}) + WornSum(LAMBDA g : g.skill)

\* Who becomes hasted is no longer paralysed, and the other way round; except
\* for one that was refreshed after its end, before executeConditions saw it.
NotBoth ==
  \A i \in Listed(Person, "haste"), j \in Listed(Person, "paralyze") : ~(Running(i) /\ Running(j))

\* Spectators see what the player is: one who is invisible not at all, one who
\* is not as his outfit, and that is the disguise only while one runs.  Again a
\* spell refreshed after its end is the exception: nobody is told of it again.
ShownAsIs ==
  /\ (\E i \in Listed(Person, "invisible") : conditions[i].lapsed) \/ body.shown \in {body.look, Nothing}
  /\ Listed(Person, "invisible") = {} => body.shown = body.look
  /\ \A i \in Listed(Person, "invisible") : Running(i) => body.shown = Nothing
  /\ Listed(Person, "outfit") = {} => body.look = body.default
  /\ \A i \in Listed(Person, "outfit") : Running(i) => body.look = conditions[i].look
  /\ Listed(Person, "light") = {} => body.light = 0
  /\ \A i \in Listed(Person, "light") : body.light <= conditions[i].level

\* The icons of the client are those of the conditions it suffers.
IconsExact == body.icons = {conditions[i].type : i \in DOMAIN conditions} \ body.suppressed

\* Burning lasts long enough for all its rounds, unless executeConditions is
\* late: no round is lost to one that refreshed it, was dealt at once or stored.
RoundsDealt ==
  \A i \in Listed(Person, "fire") :
    LET c == conditions[i]
    IN ~c.cut => c.left + since + c.late >= FoldSeq(LAMBDA r, n : r.timeLeft + n, 0, c.rounds)

\* The rounds generated for an amount of damage add up to it, unless the start
\* is so high that counting down from it alone is more.
RoundsAddUp ==
  \A amount \in 1..30, start \in 1..8 :
    LET least == (start * (start + 1)) \div 2
    IN FoldSeq(+, 0, GenerateDamageList(amount, start)) = IF amount < least THEN least ELSE amount

\* What conditions give is taken back, once, whatever their order and delays.
ConditionsConsistent ==
  ConditionsTypeOK /\ NoBonusLeft /\ NotBoth /\ ShownAsIs /\ IconsExact /\ RoundsDealt /\ RoundsAddUp
================================================================================
