------------------------------ MODULE MCTrade ------------------------------
(* Two players: one has a bag in each place, the other a few coins.         *)
EXTENDS Trade

CONSTANTS p1, p2, b1, b2, c1, c2, c3, c4

MCPlayers == {p1, p2}
MCBags    == {b1, b2}
MCCoins   == {c1, c2, c3, c4}

\* p1 wears a bag with a bag in it, and p2 holds two coins; one lies there.
MCStart ==
  [parent |-> [i \in MCBags \cup MCCoins |->
                 CASE i = b1 -> p1 [] i = b2 -> b1 [] i = c1 -> p2
                   [] i = c2 -> Ground [] OTHER -> None],
   held   |-> [c \in MCPlayers \cup MCBags \cup {Ground} |->
                 CASE c = p1 -> <<b1, None>> [] c = p2 -> <<None, c1>>
                   [] c = b1 -> <<b2>> [] c = b2 -> <<>> [] c = Ground -> <<c2>>],
   amount |-> [i \in MCCoins |-> CASE i = c1 -> 2 [] i = c2 -> 1 [] OTHER -> 0],
   weight |-> [b \in MCBags |-> IF b = b1 THEN BagWeight ELSE 0]]

MCSymmetry == Permutations(MCCoins)
=============================================================================
