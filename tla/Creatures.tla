------------------------------ MODULE Creatures ------------------------------
(***************************************************************************)
(* The lives of creatures: placing, moving, thinking, fighting, summoning, *)
(* convincing, dying and being freed (game.cpp, creature.cpp, monster.cpp).*)
(*                                                                         *)
(* Creatures are counted objects that point to each other with raw         *)
(* pointers: masters and summons, targets and friends of a monster, the    *)
(* one who is attacked, and the vectors from which the game lets everybody *)
(* think.  The map is a set of places: creatures see who is at their       *)
(* place.  What a creature follows is left out, and what it attacks stands *)
(* for it.  Everything runs in the dispatcher's thread, a task at a time;  *)
(* only the loop of checkCreatures is cut into its iterations.             *)
(***************************************************************************)
EXTENDS Naturals, Sequences, FiniteSets, FiniteSetsExt,
        SequencesExt

CONSTANTS
    Players,    \* the Player objects
    Monsters,   \* the Monster objects
    Places,     \* positions that see each other are one place
    Home,       \* the place of the spawn
    Buckets,    \* EVENT_CREATURECOUNT, the number of vectors
    Burnable,   \* the monsters that are not immune to conditions
    MaxSummons, \* how many summons a creature may have
    None        \* the null pointer

ASSUME CreatureAssumption ==
    /\ Players \cap Monsters = {}
    /\ None \notin Players \cup Monsters
    /\ Home \in Places
    /\ Buckets \in Nat \ {0}
    /\ Burnable \subseteq Monsters
    /\ MaxSummons \in Nat

Creatures == Players \cup Monsters

VARIABLES
    cr,         \* the objects: a record per creature
    vectors,    \* checkCreatureVectors
    last,       \* checkCreatureLastIndex
    cursor,     \* i + 1 of the loop in checkCreatures, 0 outside of it
    toRelease,  \* ToReleaseThings
    deathTasks, \* the creatures with a scheduled doDeathDelay
    spawnEvent, \* checkSpawnEvent: whether checkSpawn is scheduled
    broken      \* how the objects got out of order, see below

vars == <<cr, vectors, last, cursor, toRelease, deathTasks, spawnEvent,
          broken>>

\* An object before its constructor ran.  The spawn of a monster: "block", the
\* spawn holds it for its block; "loose", it holds it and the block is free;
\* "forgotten", it has let it go; "none", the monster has no spawn.
Unborn ==
    [status   |-> "unborn", place |-> Home, alive |-> TRUE, isDying |-> FALSE,
     burning  |-> FALSE,    spawn |-> "none", isActivated |-> FALSE,
     inRange  |-> FALSE,    master |-> None, summons |-> {}, friends |-> {},
     targets  |-> {},       attacked |-> None, index |-> 0, useCount |-> 0]

\* The model goes on while broken is "no".  "ghost": a monster that had left the
\* game was harmed and is checked again.  "death": a death task came when its
\* creature had been freed.  "twice": an object was released when it was freed.
World == [cr |-> cr, vectors |-> vectors, toRelease |-> toRelease,
          spawnEvent |-> spawnEvent, broken |-> broken]

Becomes(w) ==
    /\ cr' = w.cr
    /\ vectors' = w.vectors
    /\ toRelease' = w.toRelease
    /\ spawnEvent' = w.spawnEvent
    /\ broken' = w.broken

Placed(w, c) == w.cr[c].status = "placed"
At(w, place) == {c \in Creatures : Placed(w, c) /\ w.cr[c].place = place}
SamePlace(w, c, d) == w.cr[c].place = w.cr[d].place
IsSummon(w, c) == w.cr[c].master # None
OfPlayer(w, c) == w.cr[c].master \in Players

-----------------------------------------------------------------------------
\* References.

\* Seeded fault: a summon is set on somebody it does not see.
RECURSIVE SetAttackedBlind(_, _, _)
SetAttackedBlind(w, x, t) ==
    FoldSet(LAMBDA s, v : SetAttackedBlind(v, s, t),
            [w EXCEPT !.cr[x].attacked = t], w.cr[x].summons \ {x})

\* setAttackedCreature(t) of x, which its summons repeat.
RECURSIVE SetAttacked(_, _, _)
SetAttacked(w, x, t) ==
    IF t # None /\ ~SamePlace(w, x, t)
    THEN [w EXCEPT !.cr[x].attacked = None]
    ELSE FoldSet(LAMBDA s, v : SetAttacked(v, s, t),
                 [w EXCEPT !.cr[x].attacked = t],
                 w.cr[x].summons \ {x})

\* releaseThing2; the last release deletes the object, of which nothing is left,
\* and the destructor releases what the object held.
RECURSIVE Release(_, _)
Release(w, c) ==
    LET me == w.cr[c]
        deleted == [w EXCEPT !.cr[c] = [Unborn EXCEPT !.status = "deleted"]]
        lists == FoldSet(LAMBDA f, v : Release(v, f),
                         FoldSet(LAMBDA t, v : Release(v, t), deleted, me.targets),
                         me.friends)
        orphan(s, v) ==
            Release([SetAttacked(v, s, None) EXCEPT !.cr[s].master = None], s)
    IN  IF me.status = "deleted" THEN [w EXCEPT !.broken = "twice"]
        ELSE IF me.useCount > 1 THEN [w EXCEPT !.cr[c].useCount = @ - 1]
        ELSE FoldSet(orphan, lists, me.summons)

Use(w, c) == [w EXCEPT !.cr[c].useCount = @ + 1]

AddSummon(w, c, s) ==
    Use([w EXCEPT !.cr[s].master = c, !.cr[c].summons = @ \cup {s}], s)

RemoveSummon(w, c, s) ==
    IF s \in w.cr[c].summons
    THEN Release([w EXCEPT !.cr[s].master = None, !.cr[c].summons = @ \ {s}], s)
    ELSE w

ClearLists(w, x) ==
    FoldSet(LAMBDA f, v : Release(v, f),
            FoldSet(LAMBDA t, v : Release(v, t),
                    [w EXCEPT !.cr[x].targets = {}, !.cr[x].friends = {}],
                    w.cr[x].targets),
            w.cr[x].friends)

-----------------------------------------------------------------------------
\* The vectors of checkCreatures.

AddCreatureCheck(w, c) ==
    LET next == ((last + 1) % Buckets) + 1
    IN  IF w.cr[c].index # 0 THEN w
        ELSE [w EXCEPT !.vectors[next] = Append(@, c), !.cr[c].index = next]

\* The last entry takes the place of the one that goes.
RemoveCreatureCheck(w, c) ==
    LET b == w.cr[c].index
        v == w.vectors[b]
        i == CHOOSE n \in DOMAIN v : v[n] = c
    IN  IF b = 0 THEN w
        ELSE [w EXCEPT !.cr[c].index = 0,
                       !.vectors[b] = SubSeq([v EXCEPT ![i] = v[Len(v)]],
                                             1, Len(v) - 1)]

\* A monster wakes up; a burning one has to be checked in any case.
Activate(w, x, forced) ==
    LET reason == IF IsSummon(w, x) THEN w.cr[x].inRange ELSE w.cr[x].targets # {}
        a == w.cr[x].isActivated \/ reason \/ forced
        w1 == [w EXCEPT !.cr[x].isActivated = a]
    IN  IF a \/ w.cr[x].burning THEN AddCreatureCheck(w1, x) ELSE w1

\* Seeded fault: the dead are put to sleep as well.
DeactivateDead(w, x, forced) ==
    LET me == w.cr[x]
        reason == IF IsSummon(w, x)
                  THEN ~me.inRange \/ w.cr[me.master].index = 0
                  ELSE me.targets = {}
        a == me.isActivated /\ ~(reason \/ forced)
        w1 == [w EXCEPT !.cr[x].isActivated = a]
    IN  IF forced \/ (~a /\ ~me.burning) THEN RemoveCreatureCheck(w1, x) ELSE w1

Deactivate(w, x, forced) ==
    LET me == w.cr[x]
        reason == IF IsSummon(w, x)
                  THEN ~me.inRange \/ w.cr[me.master].index = 0
                  ELSE me.targets = {}
        a == me.isActivated /\ ~(reason \/ forced)
        w1 == [w EXCEPT !.cr[x].isActivated = a]
    IN  IF forced \/ (~a /\ ~me.burning /\ me.alive)
        THEN RemoveCreatureCheck(w1, x) ELSE w1

Noted(w, c) == IF Placed(w, c) THEN w ELSE [w EXCEPT !.broken = "ghost"]

\* changeHealth: damage that kills or not, or healing.
ChangeHealth(w, c, kills) ==
    LET w1 == [w EXCEPT !.cr[c].alive = @ /\ ~kills]
    IN  IF c \in Players THEN w1 ELSE Activate(Noted(w1, c), c, TRUE)

-----------------------------------------------------------------------------
\* Target and friend lists.

\* The summon of a player stands by its master and the fellow summons ...
IsFriend(w, x, c) ==
    IF OfPlayer(w, x) THEN w.cr[x].master \in {c, w.cr[c].master}
    ELSE c \in Monsters /\ ~IsSummon(w, c)

\* ... and takes everybody but its master for an opponent.
IsOpponent(w, x, c) ==
    IF OfPlayer(w, x) THEN c # w.cr[x].master
    ELSE c \in Players \/ OfPlayer(w, c)

\* Seeded fault: a new target does not wake the monster.
OnCreatureFoundAsleep(w, x, c) ==
    LET w1 == IF IsFriend(w, x, c) /\ c \notin w.cr[x].friends
              THEN [Use(w, c) EXCEPT !.cr[x].friends = @ \cup {c}] ELSE w
    IN  IF IsOpponent(w1, x, c) /\ c \notin w1.cr[x].targets
        THEN [Use(w1, c) EXCEPT !.cr[x].targets = @ \cup {c}]
        ELSE w1

OnCreatureFound(w, x, c) ==
    LET w1 == IF IsFriend(w, x, c) /\ c \notin w.cr[x].friends
              THEN [Use(w, c) EXCEPT !.cr[x].friends = @ \cup {c}] ELSE w
    IN  IF IsOpponent(w1, x, c) /\ c \notin w1.cr[x].targets
        THEN Activate([Use(w1, c) EXCEPT !.cr[x].targets = @ \cup {c}], x, FALSE)
        ELSE w1

OnCreatureEnter(w, x, c) ==
    OnCreatureFound(IF w.cr[x].master = c
                    THEN Activate([w EXCEPT !.cr[x].inRange = TRUE], x, FALSE)
                    ELSE w, x, c)

\* The master is out of sight.
LoseSight(w, x, c) ==
    IF w.cr[x].master = c
    THEN Deactivate([w EXCEPT !.cr[x].inRange = FALSE], x, FALSE) ELSE w

DropFriend(w, x, c) ==
    IF IsFriend(w, x, c) /\ c \in w.cr[x].friends
    THEN Release([w EXCEPT !.cr[x].friends = @ \ {c}], c) ELSE w

SleepAlone(w, x) == IF w.cr[x].targets = {} THEN Deactivate(w, x, FALSE) ELSE w

DropTarget(w, x, c) ==
    IF IsOpponent(w, x, c) /\ c \in w.cr[x].targets
    THEN SleepAlone(Release([w EXCEPT !.cr[x].targets = @ \ {c}], c), x) ELSE w

\* Whether c is on a list is asked of what c is now.
OnCreatureLeave(w, x, c) ==
    DropTarget(DropFriend(LoseSight(w, x, c), x, c), x, c)

\* The dead and those out of sight are dropped, then everybody is looked at.
Gone(w, x, list) == {c \in list : ~w.cr[c].alive \/ ~SamePlace(w, c, x)}

DropFriends(w, x, gone) ==
    FoldSet(LAMBDA c, v : Release(v, c),
            [w EXCEPT !.cr[x].friends = @ \ gone], gone)

DropTargets(w, x, gone) ==
    FoldSet(LAMBDA c, v : Release(v, c),
            [w EXCEPT !.cr[x].targets = @ \ gone], gone)

LookAround(w, x) ==
    FoldSet(LAMBDA c, v : OnCreatureFound(v, x, c), w,
            At(w, w.cr[x].place) \ {x})

UpdateTargetList(w, x) ==
    LET dropped == DropFriends(w, x, Gone(w, x, w.cr[x].friends))
    IN  LookAround(DropTargets(dropped, x, Gone(w, x, w.cr[x].targets)), x)

\* Seeded fault: a target that is dropped is not released.
PathOrKeep(w, x, t) ==
    {w} \cup IF IsSummon(w, x) /\ t \in w.cr[x].targets
             THEN {[w EXCEPT !.cr[x].targets = @ \ {t}]} ELSE {}

\* The worlds after selectTarget(t): x attacks and follows t.  A summon that
\* finds no path to what it follows drops it (onFollowCreatureComplete).
PathOrDrop(w, x, t) ==
    {w} \cup IF IsSummon(w, x) /\ t \in w.cr[x].targets
             THEN {Release([w EXCEPT !.cr[x].targets = @ \ {t}], t)} ELSE {}

SelectTarget(w, x, t) ==
    IF Placed(w, t) /\ SamePlace(w, x, t) /\ t \in w.cr[x].targets
    THEN PathOrDrop(SetAttacked(w, x, t), x, t)
    ELSE {w}

-----------------------------------------------------------------------------
\* Entering, leaving and moving.

\* onCreatureAppear(c) of a monster x.
OnCreatureAppear(w, x, c) ==
    IF x # c THEN OnCreatureEnter(w, x, c)
    ELSE LET near == IF IsSummon(w, x) THEN SamePlace(w, x, w.cr[x].master)
                     ELSE w.cr[x].inRange
         IN  Activate(UpdateTargetList([w EXCEPT !.cr[x].inRange = near], x),
                      x, FALSE)

PlaceCreature(w, c, place) ==
    LET w1 == Use([w EXCEPT !.cr[c].status = "placed", !.cr[c].place = place], c)
    IN  AddCreatureCheck(FoldSet(LAMBDA x, v : OnCreatureAppear(v, x, c), w1,
                                 At(w1, place) \cap Monsters), c)

\* onCreatureDisappear(c) of a spectator x, which may be c itself.
LoseAttacked(w, x, c) ==
    IF w.cr[x].attacked = c THEN SetAttacked(w, x, None) ELSE w

LeaveMaster(w, x) ==
    IF w.cr[x].master # None /\ Placed(w, w.cr[x].master)
    THEN RemoveSummon(w, w.cr[x].master, x) ELSE w

LeaveSpawn(w, x) ==
    [Deactivate(w, x, TRUE) EXCEPT !.spawnEvent = @ \/ w.cr[x].spawn # "none"]

DisappearOneself(w, x) ==
    IF x \in Players THEN LeaveMaster(w, x) ELSE LeaveSpawn(LeaveMaster(w, x), x)

OnCreatureDisappear(w, x, c) ==
    IF x = c THEN DisappearOneself(LoseAttacked(w, x, c), x)
    ELSE IF x \in Players THEN LoseAttacked(w, x, c)
    ELSE OnCreatureLeave(LoseAttacked(w, x, c), x, c)

\* removeCreature: everybody around is told, the creature leaves the vectors
\* and waits for its release, and its summons go with it.
RECURSIVE RemoveCreature(_, _)
RemoveCreature(w, c) ==
    LET told == FoldSet(LAMBDA x, v : OnCreatureDisappear(v, x, c), w,
                        At(w, w.cr[c].place))
        removed == [told EXCEPT !.cr[c].status = "removed",
                                !.toRelease = Append(@, c)]
        unchecked == RemoveCreatureCheck(removed, c)
    IN  IF ~Placed(w, c) THEN w
        ELSE FoldSet(LAMBDA s, v : RemoveCreature(v, s), unchecked,
                     unchecked.cr[c].summons)

\* onCreatureMove(c) of x: c went from one place to the other.  Those of its
\* summons that are far from where it is now (a choice) are removed ...
RemoveFar(w, x, c, far) ==
    IF x = c THEN FoldSet(LAMBDA s, v : RemoveCreature(v, s), w, far) ELSE w

LoseFarAttacked(w, x, c) ==
    LET a == w.cr[x].attacked
    IN  IF a # None /\ (x = c \/ a = c) /\ ~SamePlace(w, x, a)
        THEN SetAttacked(w, x, None) ELSE w

SeeMaster(w, x) ==
    IF IsSummon(w, x)
    THEN [w EXCEPT !.cr[x].inRange = SamePlace(w, x, w.cr[x].master)] ELSE w

\* ... and the worlds differ in whether a monster without a target takes the
\* newcomer.
TakeNewcomer(w, x, c) ==
    IF w.cr[x].attacked = None /\ ~IsSummon(w, x) /\ IsOpponent(w, x, c)
    THEN SelectTarget(w, x, c) ELSE {w}

MonsterSeesMove(w, x, c) ==
    IF x = c THEN {Activate(UpdateTargetList(SeeMaster(w, x), x), x, FALSE)}
    ELSE TakeNewcomer(IF SamePlace(w, x, c) THEN OnCreatureEnter(w, x, c)
                      ELSE OnCreatureLeave(w, x, c), x, c)

SeeMove(w, x, c) == IF x \in Players THEN {w} ELSE MonsterSeesMove(w, x, c)

OnCreatureMove(w, x, c, far) ==
    SeeMove(LoseFarAttacked(RemoveFar(w, x, c, far), x, c), x, c)

\* The spectators are told in the order of the map, so the one who moves may
\* be the first or the last.
TellMove(w, c, from, far, moverFirst) ==
    LET others == SetToSeq((At(w, from) \cup At(w, w.cr[c].place)) \ {c})
    IN  FoldLeft(LAMBDA ws, x : UNION {OnCreatureMove(v, x, c, far) : v \in ws},
                 {w},
                 IF moverFirst THEN <<c>> \o others ELSE Append(others, c))

MoveCreature(w, c, to, far, moverFirst) ==
    TellMove([w EXCEPT !.cr[c].place = to], c, w.cr[c].place, far, moverFirst)

\* cleanup: the game gives up the objects that have left it.
Cleanup(w) ==
    FoldLeft(LAMBDA v, c : Release(v, c), [w EXCEPT !.toRelease = <<>>],
             w.toRelease)

-----------------------------------------------------------------------------
\* Thinking, fighting and dying.

Unused(w) == {m \in Monsters : w.cr[m].status = "unborn"}

\* A new monster for a master: there may be no room for it.
Summon(w, c) ==
    IF Unused(w) = {} \/ Cardinality(w.cr[c].summons) >= MaxSummons THEN {}
    ELSE LET s == CHOOSE m \in Unused(w) : TRUE
             w1 == AddSummon(w, c, s)
         IN  {PlaceCreature(w1, s, w.cr[c].place), RemoveSummon(w1, c, s)}

\* The worlds after onThink of a monster that does not despawn: a summon does
\* as its master, others look for a target, cast spells and summon.
ThinkTarget(w, x) ==
    LET me == w.cr[x] IN
    IF ~IsSummon(w, x)
    THEN {w} \cup UNION {SelectTarget(w, x, t) : t \in me.targets} \cup Summon(w, x)
    ELSE IF me.attacked # None THEN PathOrDrop(w, x, me.attacked)
    ELSE IF w.cr[me.master].attacked = None THEN {w}
    ELSE SelectTarget(w, x, w.cr[me.master].attacked)

\* onThink.  A player who lost its connection or does not answer is removed, a
\* monster of a spawn that is away from it may be too far.
OnThink(w, c) ==
    LET d == Deactivate(w, c, FALSE)
        awake == IF d.cr[c].isActivated THEN ThinkTarget(d, c) ELSE {d}
    IN  IF c \in Players THEN {w, RemoveCreature(w, c)}
        ELSE IF w.cr[c].spawn = "none" \/ w.cr[c].place = Home THEN awake
        ELSE awake \cup {Deactivate(RemoveCreature(w, c), c, TRUE)}

\* What may be done to a living target: nothing, damage, death, a condition.
Harm(w, t) ==
    LET ignited == Activate([Noted(w, t) EXCEPT !.cr[t].burning = TRUE], t, FALSE)
    IN  {w} \cup (IF w.cr[t].alive
                  THEN {ChangeHealth(w, t, k) : k \in BOOLEAN} ELSE {})
            \cup (IF t \in Burnable THEN {ignited} ELSE {})

OnAttacking(w, c) ==
    LET t == w.cr[c].attacked
    IN  IF t \in {None, c} THEN {w} ELSE Harm(w, t)

\* executeConditions: the condition acts, and may end.
ExecuteConditions(w, c) ==
    LET acted == IF w.cr[c].alive
                 THEN {w} \cup {ChangeHealth(w, c, k) : k \in BOOLEAN} ELSE {w}
        ended(v) == Deactivate([v EXCEPT !.cr[c].burning = FALSE], c, FALSE)
    IN  IF w.cr[c].burning THEN acted \cup {ended(v) : v \in acted} ELSE {w}

\* A master that dies or is convinced leaves its summons dead behind.
KillSummons(w, c) ==
    FoldSet(LAMBDA s, v :
                Release([ChangeHealth(v, s, TRUE) EXCEPT !.cr[s].master = None], s),
            [w EXCEPT !.cr[c].summons = {}],
            w.cr[c].summons)

\* onDie: die, then dropCorpse, which removes the creature, then the master.
OnDie(w, c) ==
    LET quiet == KillSummons(SetAttacked(w, c, None), c)
        died == IF c \in Players THEN w
                ELSE Deactivate(ClearLists(quiet, c), c, TRUE)
        removed == RemoveCreature(died, c)
        m == removed.cr[c].master
    IN  IF m = None THEN removed ELSE RemoveSummon(removed, m, c)

-----------------------------------------------------------------------------
\* The tasks.

BetweenTasks == cursor = 0 /\ broken = "no"

\* Spawns::startup has filled the spawn, with nobody there to see it.
Init ==
    LET m == CHOOSE m \in Monsters : TRUE IN
    /\ cr = [c \in Creatures |->
                IF c = m
                THEN [Unborn EXCEPT !.status = "placed", !.spawn = "block",
                                    !.useCount = 2]
                ELSE Unborn]
    /\ vectors = [b \in 1 .. Buckets |-> <<>>]
    /\ last = 0
    /\ cursor = 0
    /\ toRelease = <<>>
    /\ deathTasks = {}
    /\ spawnEvent = FALSE
    /\ broken = "no"

\* checkCreatures: the next vector is gone through ...
CheckCreatures ==
    /\ BetweenTasks
    /\ last' = (last + 1) % Buckets
    /\ cursor' = 1
    /\ UNCHANGED <<cr, vectors, toRelease, deathTasks, spawnEvent, broken>>

Checked == vectors[last + 1]

\* ... one creature at a time: the living think, attack and suffer their
\* conditions, the dead get their death scheduled, once ...
CheckNext ==
    /\ cursor \in DOMAIN Checked
    /\ broken = "no"
    /\ cursor' = cursor + 1
    /\ UNCHANGED last
    /\ LET c == Checked[cursor] IN
       \/ /\ cr[c].alive
          /\ \E w1 \in OnThink(World, c) :
                \E w2 \in OnAttacking(w1, c) :
                    \E w3 \in ExecuteConditions(w2, c) : Becomes(w3)
          /\ UNCHANGED deathTasks
       \/ /\ ~cr[c].alive
          /\ Becomes([World EXCEPT !.cr[c].isDying = TRUE])
          /\ deathTasks' = IF cr[c].isDying THEN deathTasks ELSE deathTasks \cup {c}

\* ... and the objects that have left are given up.
CheckEnd ==
    /\ cursor > Len(Checked)
    /\ broken = "no"
    /\ cursor' = 0
    /\ Becomes(Cleanup(World))
    /\ UNCHANGED <<last, deathTasks>>

\* doDeathDelay holds the raw pointer.  If the object was freed, what it reads
\* there may look removed or anything else.
DoDeathDelay(c) ==
    /\ BetweenTasks
    /\ c \in deathTasks
    /\ deathTasks' = deathTasks \ {c}
    /\ UNCHANGED <<last, cursor>>
    /\ \/ cr[c].status = "deleted" /\ Becomes([World EXCEPT !.broken = "death"])
       \/ Becomes(IF Placed(World, c) THEN OnDie(World, c) ELSE World)

\* The creatures do something outside of the loop, and what the task does with
\* the objects is in the world it makes.
Task(w) == Becomes(w) /\ UNCHANGED <<last, cursor, deathTasks>>

\* checkCreatureAttack
CheckCreatureAttack(c) ==
    /\ BetweenTasks
    /\ Placed(World, c) /\ cr[c].alive
    /\ \E w \in OnAttacking(World, c) : Task(w)

\* checkCreatureWalk: a step, and the cleanup after it.
CheckCreatureWalk(c) ==
    /\ BetweenTasks
    /\ Placed(World, c) /\ cr[c].alive
    /\ \E to \in Places \ {cr[c].place}, moverFirst \in BOOLEAN :
          \E far \in SUBSET {s \in cr[c].summons : cr[s].place # to} :
             \E w \in MoveCreature(World, c, to, far, moverFirst) : Task(Cleanup(w))

\* checkDecay, as far as creatures are concerned.
CheckDecay ==
    /\ BetweenTasks
    /\ Task(Cleanup(World))

\* A player enters the game.
Login(p) ==
    /\ BetweenTasks
    /\ cr[p].status = "unborn"
    /\ \E place \in Places : Task(PlaceCreature(World, p, place))

\* A player leaves it.
Logout(p) ==
    /\ BetweenTasks
    /\ Placed(World, p)
    /\ Task(RemoveCreature(World, p))

\* playerSetAttackedCreature
PlayerSetAttackedCreature(p, t) ==
    /\ BetweenTasks
    /\ Placed(World, p)
    /\ IF t = None THEN cr[p].attacked # None ELSE Placed(World, t) /\ t # p
    /\ Task(SetAttacked(World, p, t))

\* SummonMonster: a spell of a player.
SummonMonster(p) ==
    /\ BetweenTasks
    /\ Placed(World, p)
    /\ \E w \in Summon(World, p) : Task(w)

\* convinceCreature: a monster changes sides, and everybody around looks at it
\* again.
ConvinceCreature(p, m) ==
    /\ BetweenTasks
    /\ Placed(World, p) /\ Placed(World, m) /\ SamePlace(World, p, m)
    /\ cr[m].alive
    /\ cr[m].master \notin Players
    /\ LET old == cr[m].master
           freed == IF old = None THEN World ELSE RemoveSummon(World, old, m)
           joined == SetAttacked(AddSummon(freed, p, m), m, None)
           alone == [KillSummons(joined, m) EXCEPT !.cr[m].inRange = TRUE]
           look(x, w) == Activate(UpdateTargetList(w, x), x, FALSE)
           notice(x, w) == IF IsFriend(w, x, m) \/ IsOpponent(w, x, m)
                           THEN look(x, w) ELSE w
           seen == look(m, alone)
           known == FoldSet(notice, seen, At(seen, cr[m].place) \cap Monsters)
           lost == [known EXCEPT !.cr[m].spawn = "none"]
       IN  Task(IF cr[m].spawn \in {"block", "loose"} THEN Release(lost, m) ELSE lost)

\* checkSpawn: the spawn gives up those that are gone, frees the block of one
\* that has wandered off, and fills a free block when no player looks on.
CheckSpawn ==
    /\ BetweenTasks
    /\ spawnEvent
    /\ LET held(w) == {m \in Monsters : w.cr[m].spawn \in {"block", "loose"}}
           gone == {m \in held(World) : ~Placed(World, m)}
           w1 == FoldSet(LAMBDA m, w :
                             Release([w EXCEPT !.cr[m].spawn = "forgotten"], m),
                         World, gone)
           away == {m \in held(w1) : w1.cr[m].place # Home}
           w2 == [w1 EXCEPT !.cr = [c \in Creatures |->
                    IF c \in away THEN [@[c] EXCEPT !.spawn = "loose"] ELSE @[c]]]
           free == \A m \in held(w2) : w2.cr[m].spawn = "loose"
           new == CHOOSE m \in Monsters : m \in Unused(w2)
           w3 == Use([PlaceCreature(w2, new, Home) EXCEPT !.cr[new].spawn = "block"],
                     new)
           next(w) == [w EXCEPT !.spawnEvent = held(w) = {}]
       IN  \/ Task(next(w2))
          \/ /\ free
             /\ Unused(w2) # {}
             /\ At(w2, Home) \cap Players = {}
             /\ Task(next(w3))

Next ==
    \/ CheckCreatures
    \/ CheckNext
    \/ CheckEnd
    \/ CheckDecay
    \/ CheckSpawn
    \/ \E c \in Creatures :
          \/ DoDeathDelay(c)
          \/ CheckCreatureAttack(c)
          \/ CheckCreatureWalk(c)
    \/ \E p \in Players :
          \/ Login(p)
          \/ Logout(p)
          \/ SummonMonster(p)
          \/ \E t \in Creatures \cup {None} : PlayerSetAttackedCreature(p, t)
          \/ \E m \in Monsters : ConvinceCreature(p, m)

\* checkCreatures schedules itself and the deaths, and the scheduler and the
\* dispatcher run what is due: every vector has its turn again and again, each
\* round comes to its end, and no death is put off for good.  The tasks are
\* enabled while they wait, so this is their weak fairness, in a form without
\* ENABLED.
Fairness ==
    /\ \A b \in 0 .. Buckets - 1 :
         []<>(broken # "no" \/ (last = b /\ cursor # 0))
    /\ []<>(broken # "no" \/ cursor = 0)
    /\ \A c \in Creatures : []<>(broken # "no" \/ c \notin deathTasks)

Spec == Init /\ [][Next]_vars /\ Fairness

-----------------------------------------------------------------------------
\* Every variable keeps to its range.
Record ==
    [status : {"unborn", "placed", "removed", "deleted"}, place : Places,
     alive : BOOLEAN, isDying : BOOLEAN, burning : BOOLEAN,
     spawn : {"none", "block", "loose", "forgotten"}, isActivated : BOOLEAN,
     inRange : BOOLEAN, master : Creatures \cup {None},
     summons : SUBSET Monsters, friends : SUBSET Creatures,
     targets : SUBSET Creatures, attacked : Creatures \cup {None},
     index : 0 .. Buckets, useCount : Nat]

TypeOK ==
    /\ \A c \in Creatures : cr[c] \in Record
    /\ vectors \in [1 .. Buckets -> Seq(Creatures)]
    /\ last \in 0 .. Buckets - 1
    /\ cursor \in Nat
    /\ toRelease \in Seq(Creatures)
    /\ deathTasks \subseteq Creatures
    /\ spawnEvent \in BOOLEAN
    /\ broken \in {"no", "ghost", "death", "twice"}

Objects == {c \in Creatures : cr[c].status \in {"placed", "removed"}}

\* How many hold a reference to c: the game while c is in it or waits for the
\* cleanup, its master, its spawn, and the lists of the monsters.
Holders(c) ==
    (IF cr[c].status = "placed" THEN 1 ELSE 0)
    + Cardinality({i \in DOMAIN toRelease : toRelease[i] = c})
    + (IF cr[c].spawn \in {"block", "loose"} THEN 1 ELSE 0)
    + Cardinality({m \in Creatures : c \in cr[m].summons})
    + Cardinality({x \in Monsters : c \in cr[x].targets})
    + Cardinality({x \in Monsters : c \in cr[x].friends})

\* The count of a creature (thing.h) is the number of those that hold it, over
\* deaths, despawns, lost masters and changes of side: none is freed too early
\* and none is kept by nobody.
RefsExact == TypeOK /\ \A c \in Creatures : cr[c].useCount = Holders(c)

\* No pointer that the game follows leads to a freed object.  A master and its
\* summons name each other, who is attacked is in the game and in sight, and
\* the vectors hold who they should, once.  Two ways out of this are in the
\* code: a monster that is harmed in the round in which it was removed, by its
\* own condition or by its master, is checked again, and a death task may come
\* when its creature has been freed.
PointersLive ==
    /\ \A c \in Objects :
         /\ cr[c].master # None => c \in cr[cr[c].master].summons
         /\ \A s \in cr[c].summons : cr[s].master = c
         /\ cr[c].summons \cup cr[c].targets \cup cr[c].friends \subseteq Objects
         /\ cr[c].status = "placed" /\ cr[c].attacked # None =>
              /\ cr[cr[c].attacked].status = "placed"
              /\ cr[cr[c].attacked].place = cr[c].place
    /\ \A b \in DOMAIN vectors :
         /\ \A i, j \in DOMAIN vectors[b] : vectors[b][i] = vectors[b][j] => i = j
         /\ \A i \in DOMAIN vectors[b] :
              \/ cr[vectors[b][i]].status = "placed" /\ cr[vectors[b][i]].index = b
              \/ broken = "ghost"
    /\ broken # "twice"

\* A monster of the wild does not oversee a player: whoever stands in its sight
\* is one of its targets, and the monster is checked.
Awake ==
    \A m \in Monsters, p \in Players :
        /\ cr[m].status = "placed" /\ cr[m].alive /\ ~IsSummon(World, m)
        /\ cr[p].status = "placed" /\ cr[p].place = cr[m].place
        => p \in cr[m].targets /\ cr[m].index # 0

\* What creatures hold of each other is counted, alive, and what they should hold.
CreaturesConsistent == RefsExact /\ PointersLive /\ Awake

\* Who has lost its health leaves the game, whatever happens to the vectors
\* while they are gone through and whoever is skipped for a round.
DeadLeave ==
    \A c \in Creatures :
        (cr[c].status = "placed" /\ ~cr[c].alive)
            ~> (cr[c].status # "placed" \/ broken # "no")

=============================================================================
