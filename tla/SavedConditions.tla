-------------------------- MODULE SavedConditions ---------------------------
(***************************************************************************)
(* How the conditions of a player are made by scripts and kept in the      *)
(* database: createCondition, setParam, serialize and unserialize of every *)
(* class of condition.cpp, over the PropWriteStream and PropStream of      *)
(* fileloader.h.  The stream has no lengths: each condition is a row of    *)
(* attributes, begun by its type, id and ticks and ended by a mark, and a  *)
(* reader that loses its place loses every condition behind it.            *)
(*                                                                         *)
(* An attribute and its value are one entry of the stream: every reader    *)
(* takes values of the width the writer gave them.                         *)
(***************************************************************************)
EXTENDS Integers, Sequences, FiniteSets, SequencesExt

CONSTANTS
  SavedTypes,    (* the types scripts make conditions of                    *)
  Skills, Stats, (* how many there are                                      *)
  Amounts,       (* what scripts give as values                             *)
  MaxParams,     (* bound: what a script sets of one condition              *)
  MaxHeld,       (* bound: conditions of the player                         *)
  Undrafted

VARIABLES
  draft,     (* the condition a script is making                            *)
  params,    (* what it has set of it                                       *)
  borne,     (* Creature::conditions                                        *)
  stream,    (* the column `conditions` of the player                       *)
  stored,    (* storedConditionList                                         *)
  phase      (* "on", "out" or, while the player comes back, "read"         *)

savedVars == <<draft, params, borne, stream, stored, phase>>

Permanently == -1
Combat == 0           (* CONDITIONID_COMBAT *)
Worn   == 1           (* CONDITIONID_... of a slot *)
Second == 1           (* healthTicks and manaTicks of a new regeneration *)

ClassOf(type) ==
  CASE type \in {"poison", "fire", "energy"} -> "damage"
    [] type \in {"haste", "paralyze"}        -> "speed"
    [] type \in {"outfit", "light", "regeneration", "attributes"} -> type
    [] OTHER                                 -> "generic"

Zeros(n) == [i \in 1..n |-> 0]

\* The constructors.
NewDamage == [delayed |-> <<0>>, periodic |-> <<0>>, owner |-> <<0>>, rounds |-> <<>>,
              force |-> <<0>>, min |-> <<0>>, max |-> <<0>>, start |-> <<0>>, every |-> <<2>>]
NewSpeed == [delta |-> <<0>>, mina |-> <<0>>, minb |-> <<0>>, maxa |-> <<0>>, maxb |-> <<0>>]
NewLight == [color |-> <<0>>, level |-> <<0>>, internal |-> <<0>>, interval |-> <<0>>]
NewRegeneration == [healthTicks |-> <<Second>>, healthGain |-> <<0>>,
                    manaTicks |-> <<Second>>, manaGain |-> <<0>>]
NewAttributes == [skills |-> Zeros(Skills), skillsPercent |-> Zeros(Skills),
                  stats |-> Zeros(Stats), statsPercent |-> Zeros(Stats)]

Initial(class) ==
  CASE class = "damage"       -> NewDamage
    [] class = "speed"        -> NewSpeed
    [] class = "light"        -> NewLight
    [] class = "regeneration" -> NewRegeneration
    [] class = "attributes"   -> NewAttributes
    [] class = "outfit"       -> [outfits |-> <<>>]
    [] OTHER                  -> [nothing |-> <<>>]

\* Condition::createCondition: damage is made without ticks.
CreateCondition(id, type, ticks) ==
  [type |-> type, class |-> ClassOf(type), id |-> id,
   ticks |-> IF ClassOf(type) = "damage" THEN 0 ELSE ticks, value |-> Initial(ClassOf(type))]

\* What serialize writes of each class, in order, and unserializeProp knows.
DamageLayout       == <<"delayed", "periodic", "owner", "rounds">>
SpeedLayout        == <<"delta", "mina", "minb", "maxa", "maxb">>
LightLayout        == <<"color", "level", "internal", "interval">>
RegenerationLayout == <<"healthTicks", "healthGain", "manaTicks", "manaGain">>
AttributesLayout   == <<"skills", "skillsPercent", "stats">>
OutfitLayout       == <<"outfits">>

Layout(class) ==
  CASE class = "damage"       -> DamageLayout
    [] class = "speed"        -> SpeedLayout
    [] class = "light"        -> LightLayout
    [] class = "regeneration" -> RegenerationLayout
    [] class = "attributes"   -> AttributesLayout
    [] class = "outfit"       -> OutfitLayout
    [] OTHER                  -> <<>>

-----------------------------------------------------------------------------
(* The scripts.                                                            *)

Magnitude(n) == IF n < 0 THEN -n ELSE n
Truth(n)     == IF n = 0 THEN 0 ELSE 1
Set(c, name, i, n) == [c EXCEPT !.value[name][i] = n]

\* The setParams.  What a class does not know it ignores.
SetDamageParam(c, p, n) ==
  CASE p = "owner"               -> Set(c, p, 1, n)
    [] p \in {"force", "delayed"} -> Set(c, p, 1, Truth(n))
    [] p = "periodic"            -> Set(c, p, 1, n)
    [] OTHER                     -> Set(c, p, 1, Magnitude(n))

SetSpeedParam(c, n) == [Set(c, "delta", 1, n) EXCEPT !.type = IF n > 0 THEN "haste" ELSE "paralyze"]

SetAttributesParam(c, p, i, n) ==
  CASE p = "melee" -> [c EXCEPT !.value.skills = [k \in 1..Skills |-> IF k = Skills THEN @[k] ELSE n]]
    [] p = "statsPercent" -> Set(c, p, i, IF n < 0 THEN 0 ELSE n)
    [] OTHER -> Set(c, p, i, n)

DamageParams       == {"owner", "force", "delayed", "periodic", "min", "max", "start", "every"} \X {1}
LightParams        == {"level", "color"} \X {1}
RegenerationParams == {"healthGain", "healthTicks", "manaGain", "manaTicks"} \X {1}
AttributesParams   == {<<"melee", 1>>} \cup ({"skills", "skillsPercent"} \X (1..Skills))
                      \cup ({"stats", "statsPercent"} \X (1..Stats))

ParamsOf(class) ==
  {<<"ticks", 1>>} \cup
  CASE class = "damage"       -> DamageParams
    [] class = "speed"        -> {<<"delta", 1>>}
    [] class = "light"        -> LightParams
    [] class = "regeneration" -> RegenerationParams
    [] class = "attributes"   -> AttributesParams
    [] OTHER                  -> {}

SetParam(c, p, i, n) ==
  CASE p = "ticks"              -> [c EXCEPT !.ticks = n]
    [] p # "ticks" /\ c.class = "damage"     -> SetDamageParam(c, p, n)
    [] p # "ticks" /\ c.class = "speed"      -> SetSpeedParam(c, n)
    [] p # "ticks" /\ c.class = "attributes" -> SetAttributesParam(c, p, i, n)
    [] OTHER                    -> Set(c, p, 1, n)

Spent == UNCHANGED <<borne, stream, stored, phase>>

\* createConditionObject
Draft(type) ==
  /\ draft = Undrafted /\ draft' = CreateCondition(Combat, type, 0)
  /\ params' = 0 /\ Spent

\* setConditionParam
SetConditionParam(p, n) ==
  /\ draft # Undrafted /\ params < MaxParams /\ p \in ParamsOf(draft.class)
  /\ draft' = SetParam(draft, p[1], p[2], n)
  /\ params' = params + 1 /\ Spent

\* ConditionDamage::addDamage; damage without an end takes the place of rounds
\* only when it heals.
AddDamage(c, rounds, time, n) ==
  IF rounds = -1
  THEN [c EXCEPT !.value.periodic[1] = n, !.value.every[1] = Magnitude(time), !.ticks = Permanently]
  ELSE IF c.value.periodic[1] > 0 THEN c
  ELSE [c EXCEPT !.value.rounds = @ \o [k \in 1..rounds |-> <<time, n, time>>],
                 !.ticks = IF @ = Permanently THEN @ ELSE @ + rounds * time]

AddDamageCondition(rounds, time, n) ==
  /\ draft # Undrafted /\ draft.class = "damage" /\ params < MaxParams
  /\ draft' = AddDamage(draft, rounds, time, n)
  /\ params' = params + 1 /\ Spent

AddOutfitCondition(n) ==
  /\ draft # Undrafted /\ draft.class = "outfit" /\ params < MaxParams
  /\ draft' = [draft EXCEPT !.value.outfits = Append(@, <<n>>)]
  /\ params' = params + 1 /\ Spent

SetConditionFormula(low, high) ==
  /\ draft # Undrafted /\ draft.class = "speed" /\ params < MaxParams
  /\ draft' = [draft EXCEPT !.value.mina[1] = low, !.value.minb[1] = low,
                            !.value.maxa[1] = high, !.value.maxb[1] = high]
  /\ params' = params + 1 /\ Spent

Discard == draft # Undrafted /\ draft' = Undrafted /\ params' = 0 /\ Spent

-----------------------------------------------------------------------------
(* The player.                                                             *)

\* ConditionAttributes::updatePercentStats: what has become of a percentage.
Percent(n) == IF n = 0 THEN 0 ELSE n - 100

Rates(c) ==
  IF c.class # "attributes" THEN c
  ELSE [c EXCEPT !.value.stats = [i \in 1..Stats |->
                    IF c.value.statsPercent[i] = 0 THEN @[i] ELSE Percent(c.value.statsPercent[i])],
                 !.value.skills = [i \in 1..Skills |->
                    IF c.value.skillsPercent[i] = 0 THEN @[i] ELSE Percent(c.value.skillsPercent[i])]]

\* ConditionLight::startCondition and ConditionDamage::startCondition: the first
\* round is dealt at once.
Started(c) ==
  CASE c.class = "light" -> [c EXCEPT !.value.internal[1] = 0, !.value.interval[1] = c.ticks \div c.value.level[1]]
    [] c.class = "damage" -> IF c.value.delayed[1] = 1 \/ c.value.rounds = <<>> \/ c.ticks = Permanently THEN c
                             ELSE [c EXCEPT !.value.rounds = Tail(@)]
    [] OTHER -> Rates(c)

\* A level of 0 divides by zero; a condition of damage without any is refused.
Startable(c) ==
  /\ c.class = "light" => c.value.level[1] > 0
  /\ c.class = "damage" => c.value.rounds # <<>> \/ c.value.periodic[1] # 0

\* A spell, a field or an item gives the player the condition; a second one of a
\* type is another matter (module Conditions).
Give(id) ==
  LET c == [draft EXCEPT !.id = id]
  IN /\ phase = "on" /\ draft # Undrafted /\ Startable(draft) /\ Len(borne) < MaxHeld
     /\ \A i \in DOMAIN borne : borne[i].type # draft.type \/ borne[i].id # id
     /\ borne' = Append(borne, Started(c))
     /\ draft' = Undrafted /\ params' = 0 /\ UNCHANGED <<stream, stored, phase>>

\* Condition::isPersistent
IsPersistent(c) == c.ticks # Permanently /\ c.id = Combat

Entry(name, n) == <<name, n>>

\* The serializes.
Serialize(c) ==
  <<Entry("TYPE", c.type), Entry("ID", c.id), Entry("TICKS", c.ticks)>> \o
  FlattenSeq([k \in 1..Len(Layout(c.class)) |->
    LET name == Layout(c.class)[k]
    IN [j \in 1..Len(c.value[name]) |-> Entry(name, c.value[name][j])]])

\* Seeded fault: the mark behind a condition is left out.
SerializedUnended(c) == Serialize(c)

\* One condition in the stream.
Serialized(c) == Append(Serialize(c), Entry("END", 0))

\* IOPlayer::savePlayer
ToSave == SelectSeq(borne, IsPersistent)

SavePlayer ==
  /\ phase = "on" /\ stream' = FlattenSeq([i \in 1..Len(ToSave) |-> Serialized(ToSave[i])])
  /\ phase' = "out" /\ UNCHANGED <<draft, params, borne, stored>>

-----------------------------------------------------------------------------
(* Reading.                                                                *)

\* unserializeProp.  skills and stats are filled in turn; the percentages of the
\* skills are written past the end of skills, which is where skillsPercent lies
\* unless the compiler takes it that this cannot happen.
Reader == [list |-> <<>>, cond |-> Undrafted, head |-> <<>>, skill |-> 1, stat |-> 1, lost |-> FALSE]

ReadSkill(r, n, spills) ==
  LET i == r.skill IN
  [r EXCEPT !.skill = @ + 1,
            !.cond.value = IF i <= Skills THEN [@ EXCEPT !.skills[i] = n]
                           ELSE IF spills /\ i <= 2 * Skills THEN [@ EXCEPT !.skillsPercent[i - Skills] = n] ELSE @]

ReadRound(r, n) ==
  [r EXCEPT !.cond.value.rounds = Append(@, n), !.cond.ticks = IF @ = Permanently THEN @ ELSE @ + n[3]]

UnserializeProp(r, e, spills) ==
  LET name == e[1]  class == r.cond.class IN
  CASE ~Contains(Layout(class), name) /\ name \in {"TYPE", "ID", "TICKS"} ->
         [r EXCEPT !.cond = CASE name = "TYPE" -> [@ EXCEPT !.type = e[2]]
                              [] name = "ID"   -> [@ EXCEPT !.id = e[2]]
                              [] OTHER         -> [@ EXCEPT !.ticks = e[2]]]
    [] ~Contains(Layout(class), name) /\ name \notin {"TYPE", "ID", "TICKS"} -> [r EXCEPT !.cond = Undrafted]
    [] name \in {"skills", "skillsPercent"} -> ReadSkill(r, e[2], spills)
    [] name = "stats"  -> [r EXCEPT !.stat = @ + 1, !.cond.value.stats[r.stat] = e[2]]
    [] name = "rounds" -> ReadRound(r, e[2])
    [] name = "outfits" -> [r EXCEPT !.cond.value.outfits = Append(@, e[2])]
    [] OTHER -> [r EXCEPT !.cond.value[name][1] = e[2]]

\* createCondition from a stream: type, id and ticks, or nothing more is read.
ReadHead(r, e) ==
  LET head == Append(r.head, e[2]) IN
  CASE e[1] # <<"TYPE", "ID", "TICKS">>[Len(head)] -> [r EXCEPT !.lost = TRUE]
    [] e[1] # "TICKS" -> [r EXCEPT !.head = head]
    [] OTHER -> [Reader EXCEPT !.list = r.list, !.cond = CreateCondition(head[2], head[1], head[3])]

Read(r, e, spills) ==
  CASE r.lost -> r
    [] ~r.lost /\ r.cond = Undrafted -> ReadHead(r, e)
    [] ~r.lost /\ r.cond # Undrafted /\ e[1] = "END" -> [Reader EXCEPT !.list = Append(r.list, r.cond)]
    [] OTHER -> UnserializeProp(r, e, spills)

\* IOPlayer::loadPlayer
LoadPlayer(spills) ==
  /\ phase = "out" /\ phase' = "read"
  /\ stored' = FoldLeft(LAMBDA r, e : Read(r, e, spills), Reader, stream).list
  /\ UNCHANGED <<draft, params, borne, stream>>

\* Player::onCreatureAppear; what is not persistent is made anew by other means.
OnCreatureAppear ==
  /\ phase = "read"
  /\ borne' = [i \in 1..Len(SelectSeq(stored, Startable)) |-> Started(SelectSeq(stored, Startable)[i])]
  /\ phase' = "on" /\ stored' = <<>> /\ UNCHANGED <<draft, params, stream>>

SavedInit ==
  draft = Undrafted /\ params = 0 /\ borne = <<>> /\ stream = <<>> /\ stored = <<>> /\ phase = "on"

SavedNext ==
  \/ \E type \in SavedTypes : Draft(type)
  \/ \E p \in UNION {ParamsOf(ClassOf(type)) : type \in SavedTypes}, n \in Amounts : SetConditionParam(p, n)
  \/ \E rounds \in {-1, 1, 2}, n \in Amounts : AddDamageCondition(rounds, 2, n)
  \/ \E n \in Amounts : AddOutfitCondition(n)
  \/ \E low, high \in Amounts : SetConditionFormula(low, high)
  \/ Discard
  \/ \E id \in {Combat, Worn} : Give(id)
  \/ SavePlayer
  \/ \E spills \in BOOLEAN : LoadPlayer(spills)
  \/ OnCreatureAppear

-----------------------------------------------------------------------------
SavedTypeOK ==
  /\ draft = Undrafted \/ draft.class = ClassOf(draft.type)
  /\ \A i \in DOMAIN borne : DOMAIN borne[i].value = DOMAIN Initial(borne[i].class)

\* What a condition is after it was saved and read: the numbers it works with.
\* The bounds it was made from, and percentages of stats, are gone; percentages
\* of skills may be; a round begun counts whole.
Ahead(c) == FoldSeq(LAMBDA r, n : r[3] + n, 0, c.value.rounds)

Survives(c, d) ==
  /\ d.type = c.type /\ d.id = c.id
  /\ d.ticks = IF c.class = "damage" THEN Ahead(c) ELSE c.ticks
  /\ \A name \in ToSet(Layout(c.class)) \ {"skillsPercent"} : d.value[name] = c.value[name]
  /\ c.class = "attributes" => d.value.skillsPercent \in {c.value.skillsPercent, Zeros(Skills)}

\* Every condition with an end that a script or a spell gave is read as it was
\* saved, in order and none is lost: rates of regeneration, rounds, speeds, light
\* and skills go on where they were.
SavedConsistent ==
  /\ SavedTypeOK
  /\ phase = "read" =>
       /\ Len(stored) = Len(ToSave)
       /\ \A i \in DOMAIN stored : Survives(ToSave[i], stored[i])
=============================================================================
