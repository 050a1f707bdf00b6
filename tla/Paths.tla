------------------------------- MODULE Paths -------------------------------
(***************************************************************************)
(* The geometry of the map (Source/map.cpp): what may be seen and thrown   *)
(* over, and the two path searches.  They are algorithms without a state   *)
(* of their own; Hunt asks them, and compares their answers with what they *)
(* should be.                                                              *)
(*                                                                         *)
(* A cell is <<x, y, floor>>; a step is <<dx, dy>>.  A search is a question *)
(* about two cells, which says which cells the creature may walk on        *)
(* (walk, canWalkTo) and the extra cost of each (toll, getTileWalkCost).   *)
(***************************************************************************)
EXTENDS Integers, Sequences, SequencesExt, FiniteSetsExt

CONSTANTS
  MaxNodes,    (* MAX_NODES; 512 in the code                               *)
  MaxClosed    (* nodes closed by an unlimited search; 100 in the code     *)

Distant(m, n) == IF m < n THEN n - m ELSE m - n
DX(a, b) == Distant(a[1], b[1])
DY(a, b) == Distant(a[2], b[2])
DZ(a, b) == Distant(a[3], b[3])
\* The distance in steps on one floor.
Apart(a, b) == Max({DX(a, b), DY(a, b)})

-----------------------------------------------------------------------------
(* Map::checkSightLine, isSightClear, canThrowObjectTo.                    *)

\* The axis along which the line goes one cell at a time: 1, 2 or 3.
Axis(a, b) ==
  IF DZ(a, b) > Max({DX(a, b), DY(a, b)}) THEN 3
  ELSE IF DY(a, b) > DX(a, b) THEN 2 ELSE 1

\* The exchange of coordinates by which that axis becomes the first.
Swapped(axis, c) == CASE axis = 1 -> c
                      [] axis = 2 -> <<c[2], c[1], c[3]>>
                      [] axis = 3 -> <<c[3], c[2], c[1]>>

\* Where the line is after k of n steps: the nearest cell, halves away from a.
Along(a, b, k, n) ==
  IF n = 0 THEN a
  ELSE LET moved == (2 * k * Distant(a, b) + n) \div (2 * n)
       IN IF a < b THEN a + moved ELSE a - moved

Line(a, b) ==
  LET axis  == Axis(a, b)
      n     == Distant(a[axis], b[axis])
      start == Swapped(axis, a)
      end   == Swapped(axis, b)
      point(k) == <<Along(start[1], end[1], k, n), Along(start[2], end[2], k, n),
                    Along(start[3], end[3], k, n)>>
  IN [k \in 1..(n + 1) |-> Swapped(axis, point(k - 1))]

\* checkSightLine: the line is stopped by what blocks projectiles, and by the
\* tile that is the floor above or the ceiling below.  The first cell that is
\* compared with is the start with its coordinates still exchanged.
SightLine(a, b, tiles, opaque) ==
  LET between == SelectSeq(Line(a, b), LAMBDA c : c \notin {a, b})
      before(k) == IF k = 1 THEN Swapped(Axis(a, b), a) ELSE between[k - 1]
  IN \A k \in 1..Len(between) :
       LET last == before(k)
       IN /\ between[k] \notin opaque
          /\ \/ last[3] = between[k][3]
             \/ <<last[1], last[2], Min({last[3], between[k][3]})>> \notin tiles

\* Map::isSightClear, between two cells of one floor or (not floorCheck) of any.
SightClear(a, b, floorCheck, tiles, opaque) ==
  /\ floorCheck => a[3] = b[3]
  /\ \/ SightLine(a, b, tiles, opaque)
     \/ SightLine(b, a, tiles, opaque)

\* Map::canThrowObjectTo; the range is the client's view, and one more for each
\* floor between.  Nothing limits the floors, the code compares from with from.
CanThrow(a, b, rangeX, rangeY, tiles, opaque) ==
  /\ a[3] >= 8 <=> b[3] >= 8
  /\ DX(a, b) - DZ(a, b) <= rangeX
  /\ DY(a, b) - DZ(a, b) <= rangeY
  /\ SightClear(a, b, FALSE, tiles, opaque)

-----------------------------------------------------------------------------
(* AStarNodes.                                                             *)

NormalCost   == 10
DiagonalCost == 25

\* The order in which the neighbours are looked at.
Straight == << <<-1, 0>>, <<0, 1>>, <<1, 0>>, <<0, -1>> >>
Diagonal == << <<-1, -1>>, <<1, -1>>, <<1, 1>>, <<-1, 1>> >>

Moved(c, s) == <<c[1] + s[1], c[2] + s[2], c[3]>>
StepTo(a, b) == <<b[1] - a[1], b[2] - a[2]>>

\* getMapWalkCost
StepCost(s) == IF s[1] # 0 /\ s[2] # 0 THEN DiagonalCost ELSE NormalCost

\* getEstimatedDistance
Estimate(a, b) ==
  LET diagonal == Min({DX(a, b), DY(a, b)})
  IN DiagonalCost * diagonal + NormalCost * (DX(a, b) + DY(a, b) - 2 * diagonal)

\* A node: its cell, its cost so far, the guess added to it, the node it was
\* reached from and whether it is open.
Node(c, g, h, parent) == [at |-> c, g |-> g, h |-> h, parent |-> parent, open |-> TRUE]

\* getBestNode: the cheapest open node, the oldest of several; 0 if there is none.
Best(nodes) ==
  LET open == {i \in DOMAIN nodes : nodes[i].open}
      f(i) == nodes[i].g + nodes[i].h
  IN IF open = {} THEN 0
     ELSE CHOOSE i \in open :
            \A j \in open : f(i) < f(j) \/ (f(i) = f(j) /\ i <= j)

\* closeNode, countClosedNodes
Closing(nodes, i) == [nodes EXCEPT ![i].open = FALSE]
Closed(nodes)     == Cardinality({i \in DOMAIN nodes : ~nodes[i].open})

\* What looking at the neighbour one step away makes of the nodes: none if
\* there is a node for it that is as cheap, otherwise that node or a new one is
\* reached from here (getNodeInList, openNode, createOpenNode).
Looked(nodes, i, s, h, toll) ==
  LET c == Moved(nodes[i].at, s)
      g == nodes[i].g + StepCost(s) + toll[c]
      k == {j \in DOMAIN nodes : nodes[j].at = c}
  IN IF \E j \in k : nodes[j].g <= g THEN nodes
     ELSE IF k # {} THEN [nodes EXCEPT ![CHOOSE j \in k : TRUE] = Node(c, g, h, i)]
     ELSE Append(nodes, Node(c, g, h, i))

\* The cells of the nodes from node i back to the first.
RECURSIVE Trail(_, _)
Trail(nodes, i) ==
  IF i = 0 THEN << >> ELSE <<nodes[i].at>> \o Trail(nodes, nodes[i].parent)

\* The steps that lead along the cells of a trail.
Steps(trail) == [k \in 1..(Len(trail) - 1) |-> StepTo(trail[k], trail[k + 1])]

Failed == [found |-> FALSE, way |-> << >>]
Way(w) == [found |-> TRUE, way |-> w]

-----------------------------------------------------------------------------
(* Map::getPathTo: from the goal back to the creature, with an estimate.   *)
(* A question q has the fields start, target, dist, walk and toll.         *)

\* One round of the loop for node i: the neighbours in their order; the search
\* is over when there is no room for a node.
ExpandTo(nodes, i, q) ==
  LET consider(ns, s) ==
        LET c == Moved(nodes[i].at, s)
        IN IF \/ ns = << >>
              \/ q.dist # -1 /\ Apart(q.start, c) > q.dist
              \/ c \notin q.walk
             THEN ns
           ELSE LET seen == Looked(ns, i, s, Estimate(c, q.start), q.toll)
                IN IF Len(seen) > MaxNodes THEN << >> ELSE seen
  IN FoldLeft(consider, nodes, Straight \o Diagonal)

RECURSIVE SearchTo(_, _)
SearchTo(nodes, q) ==
  LET i == Best(nodes)
  IN IF (q.dist = -1 /\ Closed(nodes) >= MaxClosed) \/ i = 0 THEN Failed
     ELSE IF nodes[i].at = q.start
       THEN IF nodes[i].parent = 0 THEN Failed ELSE Way(Steps(Trail(nodes, i)))
     ELSE LET seen == ExpandTo(nodes, i, q)
          IN IF seen = << >> THEN Failed ELSE SearchTo(Closing(seen, i), q)

\* The goal is on the creature's own floor and may be walked on.
PathTo(q) ==
  IF q.target \notin q.walk \/ q.start[3] # q.target[3] THEN Failed
  ELSE SearchTo(<<Node(q.target, 0, Estimate(q.target, q.start), 0)>>, q)

-----------------------------------------------------------------------------
(* Map::getPathMatching: from the creature, the cheapest node first, until *)
(* a cell is found that is as near to the target as it should be.  The     *)
(* question also has the fields of FindPathParams - full, clear, diagonal, *)
(* keep, least and most - and sees, the cells the target is seen from.     *)

\* FrozenPathingConditionCall::isInRange: on this side of the target, unless
\* every side will do.
IsInRange(c, q) ==
  \A k \in {1, 2} :
    LET before == IF q.full \/ q.start[k] <= q.target[k] THEN q.most ELSE 0
        after  == IF q.full \/ q.start[k] >= q.target[k] THEN q.most ELSE 0
    IN c[k] \in (q.target[k] - before)..(q.target[k] + after)

\* FrozenPathingConditionCall::operator(): the best match there now is, or no
\* value if the cell is none; 0 is a match that cannot be bettered.
Matches(c, best, q) ==
  LET d == Apart(c, q.target)
  IN IF \/ ~IsInRange(c, q)
        \/ q.clear /\ ~q.sees[c]
        \/ d < q.least \/ d > q.most
       THEN {}
     ELSE IF q.most = 1 THEN {best}
     ELSE IF d = q.most THEN {0}
     ELSE IF d > best THEN {d} ELSE {}

\* One round for node i.  When there is no room for a node the other neighbours
\* are left out if something was found, and the search fails if nothing was.
ExpandMatching(nodes, i, found, q) ==
  LET consider(r, s) ==
        LET c == Moved(nodes[i].at, s)
        IN IF \/ r.full
              \/ q.dist # -1 /\ Apart(q.start, c) > q.dist
              \/ q.keep /\ ~IsInRange(c, q)
              \/ c \notin q.walk
             THEN r
           ELSE LET seen == Looked(r.nodes, i, s, 0, q.toll)
                IN IF Len(seen) > MaxNodes THEN [r EXCEPT !.full = TRUE]
                   ELSE [r EXCEPT !.nodes = seen]
      r == FoldLeft(consider, [nodes |-> nodes, full |-> FALSE],
                    IF q.diagonal THEN Straight \o Diagonal ELSE Straight)
  IN IF r.full /\ found = 0 THEN << >> ELSE r.nodes

Led(nodes, i) == IF i = 0 THEN Failed ELSE Way(Steps(Reverse(Trail(nodes, i))))

RECURSIVE SearchMatching(_, _, _, _)
SearchMatching(nodes, found, best, q) ==
  LET i == Best(nodes)
  IN IF (q.dist = -1 /\ Closed(nodes) >= MaxClosed) \/ i = 0 THEN Led(nodes, found)
     ELSE LET m     == Matches(nodes[i].at, best, q)
              here  == IF m = {} THEN found ELSE i
              now   == IF m = {} THEN best ELSE CHOOSE b \in m : TRUE
          IN IF m = {0} THEN Led(nodes, i)
             ELSE LET seen == ExpandMatching(nodes, i, here, q)
                  IN IF seen = << >> THEN Failed
                     ELSE SearchMatching(Closing(seen, i), here, now, q)

PathMatching(q) == SearchMatching(<<Node(q.start, 0, 0, 0)>>, 0, 0, q)

-----------------------------------------------------------------------------
(* What the searches should answer, said without searching.                *)

\* The cells after k steps of a way, and whether all of them may be walked on.
Ends(start, way) == FoldLeft(Moved, start, way)
Walkable(start, way, walk) ==
  \A k \in DOMAIN way : Ends(start, SubSeq(way, 1, k)) \in walk

WayCost(start, way, toll) ==
  FoldLeft(LAMBDA sum, k : sum + StepCost(way[k]) + toll[Ends(start, SubSeq(way, 1, k))],
           0, [k \in 1..Len(way) |-> k])

\* The least cost at which each cell of walk is reached, -1 if it is not: the
\* costs that no step between two cells can lower.
Cheapest(start, walk, toll, steps) ==
  LET relax(cost) ==
        [c \in walk |->
           LET via == {cost[b] + StepCost(StepTo(b, c)) + toll[c] :
                         b \in {b \in walk : /\ cost[b] # -1
                                             /\ b[3] = c[3]
                                             /\ StepTo(b, c) \in steps}}
               all == IF cost[c] = -1 THEN via ELSE via \cup {cost[c]}
           IN IF all = {} THEN -1 ELSE Min(all)] @@ << >>
      after[n \in 0..Cardinality(walk)] ==
        IF n = 0 THEN [c \in walk |-> IF c = start THEN 0 ELSE -1]
        ELSE LET cost == after[n - 1] IN relax(cost)
  IN after[Cardinality(walk)]
=============================================================================
