-------------------------------- MODULE Decay ----------------------------------
(***************************************************************************)
(* Items that change or go with time: Game::startDecay, checkDecay,        *)
(* internalDecayItem and cleanup over the decay buckets (Source/game.cpp), *)
(* Game::transformItem, Item::setID (item.cpp), and rings and torches,     *)
(* whose time stops while they are not worn or not lit: MoveEvent::        *)
(* EquipItem and DeEquipItem (movement.cpp) on the notifications of a      *)
(* player's slot (player.cpp).                                             *)
(*                                                                         *)
(* A unit of time is EVENT_DECAYINTERVAL.  All durations are whole units,  *)
(* as those of items.xml are, so the code's rounding is the identity.      *)
(***************************************************************************)
EXTENDS Integers, Sequences, FiniteSets, SequencesExt

CONSTANTS
  Objects,     (* item objects                                             *)
  Kinds,       (* ItemType: a function from the kinds to their records     *)
  Scripted,    (* pairs of kinds: doTransformItem then doDecayItem         *)
  Buckets      (* EVENT_DECAY_BUCKETS                                      *)

Never  == "never"     (* decayTo = -1 *)
Gone   == "gone"      (* decayTo = 0 *)
NoKind == "nokind"    (* no transformEquipTo *)
NoItem == "noitem"
NoTime == -1          (* no ATTR_ITEM_DURATION *)

ASSUME DecayAssumption ==
  /\ Buckets \in Nat \ {0, 1} /\ Scripted \subseteq (DOMAIN Kinds) \X (DOMAIN Kinds)
  /\ NoItem \notin Objects
  /\ \A k \in DOMAIN Kinds :
       /\ Kinds[k].decayTo \in DOMAIN Kinds \cup {Never, Gone}
       /\ {Kinds[k].equipTo, Kinds[k].deEquipTo} \subseteq DOMAIN Kinds \cup {NoKind}
       /\ Kinds[k].time \in Nat /\ {Kinds[k].stop, Kinds[k].worn} \subseteq BOOLEAN

VARIABLES
  item,        (* kind, place, duration, decaying state and uses of each   *)
  decayItems,  (* the buckets                                              *)
  toDecayItems,
  toReleaseThings,
  lastBucket,
  ability,     (* isItemAbilityEnabled of the one slot modelled            *)
  age, due,    (* since when an object is listed, and for how long         *)
  sticks       (* ItemAttributes::setIntAttr gives an item an attribute it *)
               (* does not have: all callers count on it.  At this commit  *)
               (* it does not, so that every duration is 0 (Attributes)    *)

decayVars == <<item, decayItems, toDecayItems, toReleaseThings, lastBucket, ability, age, due,
               sticks>>

DecayWorld == [item |-> item, buckets |-> decayItems, toDecay |-> toDecayItems,
          toRelease |-> toReleaseThings, last |-> lastBucket, ability |-> ability,
          age |-> age, due |-> due]

DecayBecomes(w) ==
  /\ item' = w.item /\ decayItems' = w.buckets /\ toDecayItems' = w.toDecay
  /\ toReleaseThings' = w.toRelease /\ lastBucket' = w.last /\ ability' = w.ability
  /\ age' = w.age /\ due' = w.due /\ UNCHANGED sticks

Unused == [kind |-> NoKind, place |-> "free", duration |-> NoTime, decaying |-> FALSE, uses |-> 0]

DecayInit ==
  /\ item = [i \in Objects |-> Unused]
  /\ decayItems = [b \in 0..Buckets - 1 |-> <<>>] /\ toDecayItems = <<>>
  /\ toReleaseThings = <<>> /\ lastBucket = 0 /\ ability = FALSE
  /\ age = [i \in Objects |-> 0] /\ due = [i \in Objects |-> 0]
  /\ sticks \in BOOLEAN

-----------------------------------------------------------------------------

IsRemoved(w, i) == w.item[i].place \in {"removed", "free"}

\* Item::canDecay, for items without unique or action id.
CanDecay(w, i) == ~IsRemoved(w, i) /\ Kinds[w.item[i].kind].decayTo # Never

\* ItemAttributes::getDuration
Duration(w, i) == IF w.item[i].duration = NoTime THEN 0 ELSE w.item[i].duration

\* Game::FreeThing
FreeThing(w, i) == [w EXCEPT !.toRelease = Append(@, i)]

\* Item::CreateItem, and the cylinder that takes the new item.
CreateItem(w, i, k, place) ==
  [w EXCEPT !.item[i] =
     [kind |-> k, place |-> place, decaying |-> FALSE, uses |-> 1,
      duration |-> IF Kinds[k].time = 0 \/ ~sticks THEN NoTime ELSE Kinds[k].time]]

\* Item::setID
SetID(x, k) ==
  LET new   == Kinds[k]
      y     == IF new.time = 0 /\ ~new.stop /\ new.decayTo = Never
               THEN [x EXCEPT !.duration = NoTime, !.decaying = FALSE] ELSE x
      fresh == new.time > 0 /\ (~Kinds[x.kind].stop \/ y.duration = NoTime)
  IN [y EXCEPT !.kind = k, !.duration = IF fresh /\ sticks THEN new.time ELSE @,
               !.decaying = IF fresh THEN FALSE ELSE @]

RECURSIVE StartDecay(_, _), InternalDecayItem(_, _), TransformItem(_, _, _),
          EquipItem(_, _), DeEquipItem(_, _, _), RemoveItem(_, _)

\* Game::startDecay
StartDecay(w, i) ==
  IF i = NoItem THEN w
  ELSE IF ~CanDecay(w, i) \/ w.item[i].decaying THEN w
  ELSE IF Duration(w, i) = 0 THEN InternalDecayItem(w, i)
  ELSE [w EXCEPT !.item[i].decaying = TRUE, !.item[i].uses = @ + 1,
                 !.toDecay = Append(@, i), !.age[i] = 0, !.due[i] = Duration(w, i)]

\* Game::internalDecayItem
InternalDecayItem(w, i) ==
  LET to == Kinds[w.item[i].kind].decayTo
      t  == TransformItem(w, i, to)
  IN IF to = Gone THEN RemoveItem(w, i) ELSE StartDecay(t.world, t.new)

\* Game::internalRemoveItem: the player is told when the item is gone.
RemoveItem(w, i) ==
  LET gone == FreeThing([w EXCEPT !.item[i].place = "removed"], i)
  IN IF w.item[i].place = "worn" THEN DeEquipItem(gone, i, TRUE) ELSE gone

\* Seeded fault: the slot is not told of the change.
TransformUntold(w, i, k) ==
  IF IsRemoved(w, i) THEN [world |-> w, new |-> NoItem]
  ELSE [world |-> [w EXCEPT !.item[i] = SetID(@, k)], new |-> i]

\* Game::transformItem between kinds of one item class, without a count.
TransformItem(w, i, k) ==
  LET off == IF w.item[i].place = "worn" THEN DeEquipItem(w, i, FALSE) ELSE w
      set == [off EXCEPT !.item[i] = SetID(@, k)]
      on  == IF w.item[i].place = "worn" THEN EquipItem(set, i) ELSE set
  IN IF w.item[i].kind = k THEN [world |-> w, new |-> i]
     ELSE IF IsRemoved(w, i) THEN [world |-> w, new |-> NoItem]
     ELSE [world |-> on, new |-> i]

\* MoveEvent::EquipItem, for a kind that has the event and whose needs are met.
EquipItem(w, i) ==
  LET k == Kinds[w.item[i].kind]
      t == TransformItem(w, i, k.equipTo)
  IN IF w.ability \/ ~(k.worn \/ k.equipTo # NoKind) THEN w
     ELSE IF k.equipTo # NoKind THEN StartDecay(t.world, t.new)
     ELSE [w EXCEPT !.ability = TRUE]

\* MoveEvent::DeEquipItem; only the worn kinds have the event.
DeEquipItem(w, i, removal) ==
  LET k   == Kinds[w.item[i].kind]
      off == [w EXCEPT !.ability = FALSE]
  IN IF ~w.ability \/ ~k.worn THEN w
     ELSE IF removal /\ k.deEquipTo # NoKind
          THEN StartDecay(TransformItem(off, i, k.deEquipTo).world, i) ELSE off

-----------------------------------------------------------------------------
(* The clock.                                                              *)

Release(w, i) ==
  IF w.item[i].uses > 1 THEN [w EXCEPT !.item[i].uses = @ - 1]
  ELSE [w EXCEPT !.item[i] = Unused, !.age[i] = 0, !.due[i] = 0]

ListItem(w, i) ==
  LET b == IF Duration(w, i) >= Buckets THEN w.last
           ELSE (w.last + 1 + Duration(w, i)) % Buckets
  IN [w EXCEPT !.buckets[b] = Append(@, i)]

\* Game::cleanup
Cleaned(w) ==
  LET freed == FoldSeq(LAMBDA i, v : Release(v, i), w, w.toRelease)
  IN [FoldLeft(ListItem, freed, w.toDecay) EXCEPT !.toRelease = <<>>, !.toDecay = <<>>]

Unbucket(w, b, i) == [w EXCEPT !.buckets[b] = Remove(@, i)]

\* An item whose rest is less than a round goes to the bucket of its end.
Relist(w, b, i) == [Unbucket(w, b, i) EXCEPT !.buckets[(b + Duration(w, i)) % Buckets] = Append(@, i)]

\* Game::checkDecay, one item of the bucket.
CheckOne(w, b, i) ==
  LET v    == [w EXCEPT !.item[i].duration = Duration(w, i) -
                 IF Duration(w, i) < Buckets THEN Duration(w, i) ELSE Buckets]
      left == Duration(v, i)
  IN IF ~CanDecay(v, i) THEN FreeThing(Unbucket([v EXCEPT !.item[i].decaying = FALSE], b, i), i)
     ELSE IF left = 0 THEN FreeThing(InternalDecayItem(Unbucket(v, b, i), i), i)
     ELSE IF left < Buckets THEN Relist(v, b, i)
     ELSE v

\* Game::checkDecay
CheckDecay ==
  LET b    == (lastBucket + 1) % Buckets
      aged == [DecayWorld EXCEPT !.age = [i \in Objects |-> IF item[i].decaying THEN age[i] + 1 ELSE 0]]
      done == FoldLeft(LAMBDA w, i : CheckOne(w, b, i), aged, decayItems[b])
  IN DecayBecomes(Cleaned([done EXCEPT !.last = b]))

\* Game::cleanup, at the end of any other task.
Cleanup ==
  /\ toReleaseThings # <<>> \/ toDecayItems # <<>>
  /\ DecayBecomes(Cleaned(DecayWorld))

-----------------------------------------------------------------------------
(* What players and scripts do with items.                                 *)

SlotTaken == \E i \in Objects : item[i].place = "worn"

Carried(i) == item[i].place = "carried"

\* An item comes into the world: a script, a spell, a dead creature.
Appear(i, k) ==
  /\ item[i].place = "free"
  /\ DecayBecomes(StartDecay(CreateItem(DecayWorld, i, k, "carried"), i))

\* Game::internalMoveItem into the slot and out of it: the item is in its new
\* place when the slot is told.
PutOn(i) ==
  /\ Carried(i) /\ ~SlotTaken
  /\ DecayBecomes(EquipItem([DecayWorld EXCEPT !.item[i].place = "worn"], i))

TakeOff(i) ==
  /\ item[i].place = "worn"
  /\ DecayBecomes(DeEquipItem([DecayWorld EXCEPT !.item[i].place = "carried"], i, TRUE))

\* doTransformItem and doDecayItem: a torch is lit and put out.
Script(i, k) ==
  /\ ~IsRemoved(DecayWorld, i) /\ <<item[i].kind, k>> \in Scripted
  /\ LET t == TransformItem(DecayWorld, i, k) IN DecayBecomes(StartDecay(t.world, t.new))

\* An item is used up, thrown away, trampled on.
Destroy(i) == ~IsRemoved(DecayWorld, i) /\ DecayBecomes(RemoveItem(DecayWorld, i))

\* The owner logs out and in: ~Player lets the object go, Item::serializeAttr
\* kept kind and duration, and Player::onCreatureAppear starts the new object
\* (DECAYING_PENDING is not DECAYING_TRUE) and puts it on.
OwnerRelogs(i, j) ==
  /\ ~IsRemoved(DecayWorld, i) /\ item[j].place = "free"
  /\ LET out   == [FreeThing([DecayWorld EXCEPT !.item[i].place = "removed"], i)
                    EXCEPT !.ability = IF item[i].place = "worn" THEN FALSE ELSE @]
         new   == CreateItem(out, j, item[i].kind, item[i].place)
         kept  == [new EXCEPT !.item[j].duration = IF Duration(DecayWorld, i) = 0 THEN @ ELSE Duration(DecayWorld, i)]
         begun == StartDecay(kept, j)
     IN DecayBecomes(IF begun.item[j].place = "worn" THEN EquipItem(begun, j) ELSE begun)

DecayNext ==
  \/ CheckDecay \/ Cleanup
  \/ \E i \in Objects : PutOn(i) \/ TakeOff(i) \/ Destroy(i)
  \/ \E i \in Objects, k \in DOMAIN Kinds : Appear(i, k) \/ Script(i, k)
  \/ \E i, j \in Objects : OwnerRelogs(i, j)

-----------------------------------------------------------------------------

Listings(i) ==
  LET Count(s) == Cardinality({n \in DOMAIN s : s[n] = i})
  IN Count(toDecayItems) + FoldSet(LAMBDA b, n : n + Count(decayItems[b]), 0, 0..Buckets - 1)

DecayTypeOK ==
  /\ \A i \in Objects :
       /\ item[i].kind \in DOMAIN Kinds \cup {NoKind}
       /\ item[i].place \in {"free", "carried", "worn", "removed"}
       /\ item[i].duration \in Int /\ item[i].decaying \in BOOLEAN /\ item[i].uses \in Nat
  /\ lastBucket \in 0..Buckets - 1 /\ {ability, sticks} \subseteq BOOLEAN

\* An object is used by its place and by each list that names it, and by nothing
\* else: whatever transforms, equips and removes it while it decays, it is
\* deleted neither too early nor never.
UsesExact ==
  \A i \in Objects :
    item[i].uses = (IF IsRemoved(DecayWorld, i) THEN 0 ELSE 1) + Listings(i)
                     + Cardinality({n \in DOMAIN toReleaseThings : toReleaseThings[n] = i})

\* What can decay is listed, exactly once: it will not last for ever, and time
\* does not run twice as fast for it.
ListedOnce ==
  \A i \in Objects :
    /\ Listings(i) <= 1
    /\ CanDecay(DecayWorld, i) => Listings(i) = 1 /\ item[i].decaying

\* The bucket an item is in is reached when its time is over: at most two
\* rounds of the clock late, counted from the task that started it.
OnTime == \A i \in Objects : item[i].decaying => age[i] <= due[i] + 2

\* The slot gives what the item in it gives: its ability is on exactly while a
\* kind with an ability is worn.
AbilityWorn == ability <=> \E i \in Objects : item[i].place = "worn" /\ Kinds[item[i].kind].worn

\* What decays is counted, listed once, and decays in time, wherever it goes.
DecayConsistent == DecayTypeOK /\ UsesExact /\ ListedOnce /\ OnTime /\ AbilityWorn
================================================================================
