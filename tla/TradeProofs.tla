---------------------------- MODULE TradeProofs ----------------------------
(***************************************************************************)
(* Whatever is moved, stacked, used up, offered, accepted and cancelled:   *)
(* every item is in its place, counted by those who hold it, and trades    *)
(* are between two who both know of it, for any players and any items.     *)
(***************************************************************************)
EXTENDS Trade, FiniteSetTheorems, SequenceTheorems, TLAPS

(* A world put together from its parts.                                    *)
WorldOf(pa, he, am, we, re, tr, td, ti, cr) ==
  [parent |-> pa, held |-> he, amount |-> am, weight |-> we, refs |-> re,
   toRelease |-> tr, trade |-> td, tradeItems |-> ti, crashed |-> cr]

TradeRecord ==
  [state : {"none", "ack", "init", "accept", "transfer"}, item : Items \cup {None},
   partner : Players \cup {None}]

WorldOK(w) ==
  /\ w = WorldOf(w.parent, w.held, w.amount, w.weight, w.refs, w.toRelease, w.trade,
                 w.tradeItems, w.crashed)
  /\ w.parent \in [Items -> Cylinders \cup {None}] /\ HeldOK(w)
  /\ w.amount \in [Coins -> 0..MaxStack] /\ w.weight \in [Bags -> Int]
  /\ w.refs \in [Items -> Nat] /\ w.toRelease \in [Items -> Nat]
  /\ w.trade \in [Players -> TradeRecord]
  /\ w.tradeItems \in SUBSET Items /\ w.crashed \in BOOLEAN

\* While a handler has the items of hand out of their cylinders.
Listed(w) == \A c \in Cylinders, i \in Items : i \in In(w, c) <=> w.parent[i] = c
Singly(w) == \A c \in Bags \cup {Ground} : IsInjective(w.held[c])
Kept(w, hand) ==
  /\ \A b \in Bags : w.parent[b] # None \/ b \in hand
  /\ \A i \in Coins : w.parent[i] # None \/ i \in hand => w.amount[i] > 0
  /\ \A i \in hand : w.parent[i] = None
StoredIn(w, hand) == Listed(w) /\ Singly(w) /\ Kept(w, hand)

\* Who holds a reference to an item: a cylinder, the list of offers, a handler.
Holds(w, hand, i) ==
  (IF w.parent[i] # None THEN 1 ELSE 0) + (IF i \in w.tradeItems THEN 1 ELSE 0)
    + (IF i \in hand THEN 1 ELSE 0)
Counted(w, hand) == \A i \in Items : w.refs[i] = w.toRelease[i] + Holds(w, hand, i)

\* While the trade between the players of busy is carried out.
Side(w, busy, p) ==
  LET t == w.trade[p]
  IN /\ t.state = "transfer" <=> p \in busy
     /\ t.state = "none" <=> t.partner = None
     /\ t.state \in {"none", "ack"} => t.item = None
     /\ t.state = "init" => t.item # None
     /\ t.partner # None => /\ t.partner # p
                            /\ w.trade[t.partner].partner = p
                            /\ t.item # None \/ w.trade[t.partner].item # None
Offers(w, busy) ==
  \A i \in Items : i \in w.tradeItems <=> \E p \in Players \ busy : w.trade[p].item = i
Apart(w) ==
  \A p, q \in Players : p # q /\ w.trade[q].item # None => w.trade[p].item # w.trade[q].item
Agreed(w, busy) == (\A p \in Players : Side(w, busy, p)) /\ Offers(w, busy) /\ Apart(w)

WInv(w, hand, busy) ==
  /\ WorldOK(w) /\ StoredIn(w, hand) /\ Counted(w, hand) /\ Agreed(w, busy)
  /\ hand \in SUBSET Items /\ busy \in SUBSET Players

\* The coins of a stack that lies somewhere, and of all of them: none is lost.
Lying(w, i) == IF w.parent[i] # None THEN w.amount[i] ELSE 0
Pile(w)     == {c \in Coins \X (1..MaxStack) : c[2] <= Lying(w, c[1])}
Tally(w)    == Cardinality(Pile(w))

IInv == WInv(World, {}, {}) /\ spent \in Nat /\ Tally(World) + spent = Tally(Start)

-----------------------------------------------------------------------------
(* The parts of a world.                                                   *)

LEMMA Parts ==
  ASSUME NEW pa, NEW he, NEW am, NEW we, NEW re, NEW tr, NEW td, NEW ti, NEW cr,
         NEW w, w = WorldOf(pa, he, am, we, re, tr, td, ti, cr)
  PROVE  /\ w.parent = pa /\ w.held = he /\ w.amount = am /\ w.weight = we
         /\ w.refs = re /\ w.toRelease = tr /\ w.trade = td /\ w.tradeItems = ti
         /\ w.crashed = cr
BY DEF WorldOf

LEMMA Apartness ==
  /\ Items = Bags \cup Coins /\ Cylinders = Players \cup Bags \cup {Ground}
  /\ None \notin Items /\ None \notin Players /\ None \notin Cylinders
  /\ Ground \notin Items /\ Ground \notin Players
  /\ \A i \in Items : i \notin Players
  /\ \A i \in Coins : i \notin Bags
  /\ MaxStack \in Nat \ {0} /\ BagSlots \in Nat \ {0} /\ BagWeight \in Nat \ {0}
  /\ Slots = {1, 2}
BY ItemsAssumption DEF Items, Cylinders, Slots, Backpack, Hand

\* Closing trades is a matter of the trades, the offers and the release list.
SameStore(w, v) ==
  /\ v.parent = w.parent /\ v.held = w.held /\ v.amount = w.amount /\ v.weight = w.weight
  /\ v.refs = w.refs /\ v.crashed = w.crashed

LEMMA SameStoreKeeps ==
  ASSUME NEW w, NEW v, NEW hand, SameStore(w, v), StoredIn(w, hand), HeldOK(w)
  PROVE  StoredIn(v, hand) /\ HeldOK(v)
BY DEF SameStore, StoredIn, HeldOK, Listed, Singly, Kept, In

\* Game::internalCloseTrade, for any players: each of them and its partner, but
\* nobody whose trade is being carried out.
LEMMA CloseTradesOK ==
  ASSUME NEW w, NEW hand, NEW busy, WInv(w, hand, busy), NEW S \in SUBSET Players,
         NEW v, v = CloseTrades(w, S)
  PROVE  /\ WInv(v, hand, busy) /\ SameStore(w, v)
         /\ \A p \in busy : v.trade[p] = w.trade[p]
<1>. DEFINE moving(p) == \/ w.trade[p].state = "transfer"
                         \/ /\ w.trade[p].partner # None
                            /\ w.trade[w.trade[p].partner].state = "transfer"
            hit  == {p \in S : ~moving(p)}
            ends == (hit \cup {w.trade[p].partner : p \in hit}) \ {None}
            back == {w.trade[p].item : p \in ends} \cap w.tradeItems
            td   == [p \in Players |-> IF p \in ends THEN NoTrade ELSE w.trade[p]]
            ti   == w.tradeItems \ back
            tr   == [i \in Items |-> w.toRelease[i] + (IF i \in back THEN 1 ELSE 0)]
            w0   == WorldOf(w.parent, w.held, w.amount, w.weight, w.refs, w.toRelease,
                            w.trade, w.tradeItems, w.crashed)
<1>0. WorldOK(w) /\ StoredIn(w, hand) /\ Counted(w, hand) /\ Agreed(w, busy)
      /\ hand \in SUBSET Items /\ busy \in SUBSET Players
  BY DEF WInv
<1>1. w = w0
  BY <1>0 DEF WorldOK
<1>2. v = WorldOf(w.parent, w.held, w.amount, w.weight, w.refs, tr, td, ti, w.crashed)
  <2>1. v = [w EXCEPT !.trade = td, !.tradeItems = ti, !.toRelease = tr]
    BY DEF CloseTrades
  <2>. HIDE DEF td, ti, tr
  <2>2. v = [w0 EXCEPT !.trade = td, !.tradeItems = ti, !.toRelease = tr]
    BY <1>1, <2>1
  <2>. QED
    BY <2>2 DEF WorldOf
<1>3. /\ v.parent = w.parent /\ v.held = w.held /\ v.amount = w.amount /\ v.weight = w.weight
      /\ v.refs = w.refs /\ v.toRelease = tr /\ v.trade = td /\ v.tradeItems = ti
      /\ v.crashed = w.crashed
  <2>. HIDE DEF td, ti, tr
  <2>. QED
    BY <1>2, Parts
<1>4. SameStore(w, v)
  BY <1>3 DEF SameStore
<1>5. StoredIn(v, hand) /\ HeldOK(v)
  BY <1>0, <1>4, SameStoreKeeps DEF WorldOK
<1>6. \A p \in Players : Side(w, busy, p)
  BY <1>0 DEF Agreed
<1>7. \A p \in Players : w.trade[p] \in TradeRecord
  BY <1>0 DEF WorldOK
<1>8. \A p \in Players : w.trade[p].partner \in Players \cup {None}
  BY <1>7, Zenon DEF TradeRecord
<1>9. /\ ends \subseteq Players /\ ends \cap busy = {}
      /\ \A p \in Players : w.trade[p].partner # None => (p \in ends <=> w.trade[p].partner \in ends)
  <2>1. hit \subseteq Players /\ hit \cap busy = {}
    BY <1>6 DEF Side
  <2>2. \A p \in hit : w.trade[p].partner # None =>
          w.trade[p].partner \in Players \ busy /\ w.trade[w.trade[p].partner].partner = p
    BY <1>6, <1>8 DEF Side
  <2>3. \A p \in ends : p \in hit \/ (\E q \in hit : p = w.trade[q].partner /\ p # None)
    OBVIOUS
  <2>4. ends \subseteq Players /\ ends \cap busy = {}
    BY <2>1, <2>2, <2>3, SMTT(30)
  <2>5. ASSUME NEW p \in Players, w.trade[p].partner # None, p \in ends
        PROVE  w.trade[p].partner \in ends
    <3>1. CASE p \in hit
      BY <2>5, <3>1
    <3>2. CASE p \notin hit
      <4>1. PICK q \in hit : p = w.trade[q].partner /\ p # None
        BY <2>3, <2>5, <3>2
      <4>2. w.trade[p].partner = q
        BY <2>2, <4>1, Zenon
      <4>. QED
        BY <2>1, <4>1, <4>2, Apartness
    <3>. QED
      BY <3>1, <3>2, Zenon
  <2>6. ASSUME NEW p \in Players, w.trade[p].partner # None, w.trade[p].partner \in ends
        PROVE  p \in ends
    <3>1. w.trade[p].partner \in Players /\ w.trade[w.trade[p].partner].partner = p
      BY <1>6, <1>8, <2>6 DEF Side
    <3>. QED
      BY <2>5, <2>6, <3>1, Apartness
  <2>. QED
    BY <2>4, <2>5, <2>6, Zenon
<1>. HIDE DEF ends, hit
<1>10. /\ td \in [Players -> TradeRecord]
       /\ \A p \in Players : td[p] = IF p \in ends THEN NoTrade ELSE w.trade[p]
  BY <1>7 DEF NoTrade, TradeRecord
<1>11. NoTrade.state = "none" /\ NoTrade.item = None /\ NoTrade.partner = None
  BY DEF NoTrade
<1>12. ti \in SUBSET Items /\ tr \in [Items -> Nat]
       /\ \A i \in Items : tr[i] = w.toRelease[i] + (IF i \in back THEN 1 ELSE 0)
  BY <1>0, SMTT(30) DEF WorldOK
<1>13. WorldOK(v)
  <2>1. v = WorldOf(v.parent, v.held, v.amount, v.weight, v.refs, v.toRelease, v.trade,
                    v.tradeItems, v.crashed)
    BY <1>2, <1>3, Zenon
  <2>. QED
    BY <1>0, <1>3, <1>5, <1>10, <1>12, <2>1, Zenon DEF WorldOK
<1>14. Counted(v, hand)
  <2>. SUFFICES ASSUME NEW i \in Items
                PROVE  v.refs[i] = v.toRelease[i] + Holds(v, hand, i)
    BY DEF Counted
  <2>1. w.refs[i] = w.toRelease[i] + Holds(w, hand, i) /\ w.toRelease[i] \in Nat
    BY <1>0 DEF Counted, WorldOK
  <2>2. i \in ti <=> i \in w.tradeItems /\ i \notin back
    OBVIOUS
  <2>3. i \in back => i \in w.tradeItems
    OBVIOUS
  <2>. HIDE DEF ti, back
  <2>. QED
    BY <1>3, <1>12, <2>1, <2>2, <2>3 DEF Holds
<1>15. ASSUME NEW p \in Players
       PROVE  Side(v, busy, p)
  <2>1. Side(w, busy, p)
    BY <1>6
  <2>2. CASE p \in ends
    BY <1>3, <1>9, <1>10, <1>11, <2>2 DEF Side
  <2>3. CASE p \notin ends
    <3>1. v.trade[p] = w.trade[p]
      BY <1>3, <1>10, <2>3
    <3>2. w.trade[p].partner # None => v.trade[w.trade[p].partner] = w.trade[w.trade[p].partner]
      BY <1>3, <1>8, <1>9, <1>10, <2>3
    <3>. QED
      BY <2>1, <3>1, <3>2 DEF Side
  <2>. QED
    BY <2>2, <2>3
<1>16. Apart(w) /\ Offers(w, busy)
  BY <1>0 DEF Agreed
<1>17. Apart(v)
  BY <1>3, <1>10, <1>11, <1>16 DEF Apart
<1>18. Offers(v, busy)
  <2>. SUFFICES ASSUME NEW i \in Items
                PROVE  i \in ti <=> \E p \in Players \ busy : td[p].item = i
    BY <1>3 DEF Offers
  <2>1. i \in w.tradeItems <=> \E p \in Players \ busy : w.trade[p].item = i
    BY <1>16 DEF Offers
  <2>2. i # None
    BY Apartness
  <2>3. i \in ti <=> i \in w.tradeItems /\ ~(\E p \in ends : w.trade[p].item = i)
    OBVIOUS
  <2>4. \A p, q \in Players : w.trade[p].item = i /\ w.trade[q].item = i => p = q
    BY <1>16, <2>2 DEF Apart
  <2>. HIDE DEF ti, td
  <2>. QED
    BY <1>9, <1>10, <1>11, <2>1, <2>2, <2>3, <2>4
<1>19. \A p \in busy : v.trade[p] = w.trade[p]
  BY <1>0, <1>3, <1>9, <1>10
<1>20. WInv(v, hand, busy)
  BY <1>0, <1>5, <1>13, <1>14, <1>15, <1>17, <1>18 DEF WInv, Agreed
<1>. QED
  BY <1>4, <1>19, <1>20, Zenon

-----------------------------------------------------------------------------
(* Slots and lists with an item more or less.                              *)

InOf(f) == {f[k] : k \in DOMAIN f} \ {None}

LEMMA SlotsPut ==
  ASSUME NEW f \in [Slots -> Items \cup {None}], NEW k \in Slots, f[k] = None,
         NEW i \in Items, NEW g, g = [f EXCEPT ![k] = i]
  PROVE  g \in [Slots -> Items \cup {None}] /\ InOf(g) = InOf(f) \cup {i}
<1>1. g \in [Slots -> Items \cup {None}] /\ \A n \in Slots : g[n] = IF n = k THEN i ELSE f[n]
  OBVIOUS
<1>2. i # None
  BY Apartness
<1>. QED
  BY <1>1, <1>2 DEF InOf

LEMMA SlotsTake ==
  ASSUME NEW f \in [Slots -> Items \cup {None}], NEW i \in Items,
         NEW g, g = [k \in Slots |-> IF f[k] = i THEN None ELSE f[k]]
  PROVE  g \in [Slots -> Items \cup {None}] /\ InOf(g) = InOf(f) \ {i}
BY DEF InOf

LEMMA SeqPut ==
  ASSUME NEW s \in Seq(Items), NEW i \in Items, i \notin InOf(s), IsInjective(s),
         NEW g, g = <<i>> \o s
  PROVE  g \in Seq(Items) /\ InOf(g) = InOf(s) \cup {i} /\ IsInjective(g)
<1>1. i # None /\ Len(s) \in Nat /\ DOMAIN s = 1..Len(s) /\ \A k \in 1..Len(s) : s[k] \in Items
  BY Apartness, LenProperties, ElementOfSeq
<1>2. <<i>> \in Seq(Items) /\ Len(<<i>>) = 1 /\ <<i>>[1] = i
  OBVIOUS
<1>3. /\ g \in Seq(Items) /\ Len(g) = Len(s) + 1
      /\ \A k \in 1..(Len(s) + 1) : g[k] = IF k <= 1 THEN <<i>>[k] ELSE s[k - 1]
  BY <1>1, <1>2, ConcatProperties
<1>4. DOMAIN g = 1..(Len(s) + 1)
  BY <1>3, LenProperties
<1>5. g[1] = i /\ \A k \in 1..Len(s) : g[k + 1] = s[k]
  BY <1>1, <1>2, <1>3
<1>6. \A k \in 1..(Len(s) + 1) : k = 1 \/ (k - 1 \in 1..Len(s) /\ g[k] = s[k - 1])
  BY <1>1, <1>3
<1>7. InOf(s) = {s[k] : k \in 1..Len(s)}
  BY <1>1, Apartness DEF InOf
<1>8. InOf(g) = {g[k] : k \in 1..(Len(s) + 1)}
  <2>1. \A k \in 1..(Len(s) + 1) : g[k] # None
    BY <1>1, <1>5, <1>6, Apartness
  <2>. QED
    BY <1>4, <2>1 DEF InOf
<1>9. InOf(g) = InOf(s) \cup {i}
  <2>1. InOf(g) \subseteq InOf(s) \cup {i}
    BY <1>5, <1>6, <1>7, <1>8
  <2>2. \A k \in 1..Len(s) : k + 1 \in 1..(Len(s) + 1) /\ 1 \in 1..(Len(s) + 1)
    BY <1>1
  <2>3. 1 \in 1..(Len(s) + 1)
    BY <1>1
  <2>4. InOf(s) \subseteq InOf(g)
    BY <1>5, <1>7, <1>8, <2>2
  <2>. QED
    BY <1>5, <1>8, <2>1, <2>3, <2>4
<1>10. IsInjective(g)
  <2>. SUFFICES ASSUME NEW a \in 1..(Len(s) + 1), NEW b \in 1..(Len(s) + 1), g[a] = g[b]
                PROVE  a = b
    BY <1>4 DEF IsInjective
  <2>1. \A k \in 1..Len(s) : s[k] # i
    BY <1>7
  <2>2. CASE a = 1 \/ b = 1
    BY <1>5, <1>6, <2>1, <2>2
  <2>3. CASE a # 1 /\ b # 1
    <3>1. a - 1 \in 1..Len(s) /\ b - 1 \in 1..Len(s) /\ s[a - 1] = s[b - 1]
      BY <1>6, <2>3
    <3>2. a - 1 = b - 1
      BY <1>1, <3>1 DEF IsInjective
    <3>. QED
      BY <3>2
  <2>. QED
    BY <2>2, <2>3
<1>. QED
  BY <1>3, <1>9, <1>10

LEMMA SeqTake ==
  ASSUME NEW s \in Seq(Items), NEW k \in 1..Len(s), IsInjective(s), NEW g, g = RemoveAt(s, k)
  PROVE  g \in Seq(Items) /\ InOf(g) = InOf(s) \ {s[k]} /\ IsInjective(g)
<1>. DEFINE a == SubSeq(s, 1, k - 1)
            b == SubSeq(s, k + 1, Len(s))
            up(n) == IF n < k THEN n ELSE n + 1
<1>1. Len(s) \in Nat /\ DOMAIN s = 1..Len(s) /\ (\A n \in 1..Len(s) : s[n] \in Items) /\ None \notin Items
  BY Apartness, LenProperties, ElementOfSeq
<1>2. /\ a \in Seq(Items) /\ Len(a) = k - 1
      /\ \A n \in 1..(k - 1) : a[n] = s[n]
  <2>1. \A n \in 1..(k - 1) : s[n] \in Items
    BY <1>1
  <2>. QED
    BY <1>1, <2>1, SubSeqProperties
<1>3. /\ b \in Seq(Items) /\ Len(b) = Len(s) - k
      /\ \A n \in 1..(Len(s) - k) : b[n] = s[k + n]
  <2>1. \A n \in (k + 1)..Len(s) : s[n] \in Items
    BY <1>1
  <2>2. k + 1 \in Int /\ Len(s) \in Int /\ k <= Len(s)
    BY <1>1
  <2>3. /\ b \in Seq(Items)
        /\ Len(b) = IF k + 1 <= Len(s) THEN Len(s) - (k + 1) + 1 ELSE 0
        /\ \A n \in 1..(Len(s) - (k + 1) + 1) : b[n] = s[(k + 1) + n - 1]
    BY <2>1, <2>2, SubSeqProperties
  <2>. HIDE DEF b
  <2>4. Len(b) = Len(s) - k
    <3>1. CASE k + 1 <= Len(s)
      BY <2>2, <2>3, <3>1
    <3>2. CASE ~(k + 1 <= Len(s))
      BY <2>2, <2>3, <3>2
    <3>. QED
      BY <3>1, <3>2
  <2>5. ASSUME NEW n \in 1..(Len(s) - k)
        PROVE  b[n] = s[k + n]
    <3>1. n \in 1..(Len(s) - (k + 1) + 1) /\ (k + 1) + n - 1 = k + n
      BY <2>2
    <3>. QED
      BY <2>3, <3>1
  <2>. QED
    BY <2>3, <2>4, <2>5
<1>4. g = a \o b
  BY DEF RemoveAt
<1>. HIDE DEF a, b
<1>5. /\ g \in Seq(Items) /\ Len(g) = Len(s) - 1
      /\ \A n \in 1..(Len(s) - 1) : g[n] = IF n <= k - 1 THEN a[n] ELSE b[n - (k - 1)]
  <2>1. /\ g \in Seq(Items) /\ Len(g) = Len(a) + Len(b)
        /\ \A n \in 1..(Len(a) + Len(b)) : g[n] = IF n <= Len(a) THEN a[n] ELSE b[n - Len(a)]
    <3>1. /\ a \o b \in Seq(Items) /\ Len(a \o b) = Len(a) + Len(b)
          /\ \A n \in 1..(Len(a) + Len(b)) :
                (a \o b)[n] = IF n <= Len(a) THEN a[n] ELSE b[n - Len(a)]
      BY <1>2, <1>3, ConcatProperties
    <3>. QED
      BY <1>4, <3>1
  <2>2. Len(a) + Len(b) = Len(s) - 1
    BY <1>1, <1>2, <1>3
  <2>. QED
    BY <1>2, <2>1, <2>2
<1>6. DOMAIN g = 1..(Len(s) - 1)
  BY <1>1, <1>5, LenProperties
<1>7. ASSUME NEW n \in 1..(Len(s) - 1)
      PROVE  up(n) \in 1..Len(s) /\ up(n) # k /\ g[n] = s[up(n)]
  <2>1. CASE n < k
    BY <1>1, <1>2, <1>5, <2>1
  <2>2. CASE ~(n < k)
    <3>1. n - (k - 1) \in 1..(Len(s) - k) /\ k + (n - (k - 1)) = n + 1 /\ ~(n <= k - 1)
      BY <1>1, <2>2
    <3>2. g[n] = b[n - (k - 1)]
      BY <1>5, <3>1
    <3>. QED
      BY <1>1, <1>3, <2>2, <3>1, <3>2
  <2>. QED
    BY <2>1, <2>2
<1>8. ASSUME NEW m \in 1..Len(s), m # k
      PROVE  \E n \in 1..(Len(s) - 1) : up(n) = m
  <2>1. CASE m < k
    BY <1>1, <2>1
  <2>2. CASE ~(m < k)
    <3>1. m - 1 \in 1..(Len(s) - 1) /\ up(m - 1) = m
      BY <1>1, <1>8, <2>2
    <3>. QED
      BY <3>1
  <2>. QED
    BY <2>1, <2>2
<1>9. \A n, m \in 1..(Len(s) - 1) : up(n) = up(m) => n = m
  BY <1>1
<1>. HIDE DEF up
<1>10. IsInjective(g)
  <2>. SUFFICES ASSUME NEW n \in 1..(Len(s) - 1), NEW m \in 1..(Len(s) - 1), g[n] = g[m]
                PROVE  n = m
    BY <1>6 DEF IsInjective
  <2>1. s[up(n)] = s[up(m)] /\ up(n) \in 1..Len(s) /\ up(m) \in 1..Len(s)
    BY <1>7
  <2>2. up(n) = up(m)
    BY <1>1, <2>1 DEF IsInjective
  <2>. QED
    BY <1>9, <2>2
<1>11. InOf(s) = {s[n] : n \in 1..Len(s)}
  BY <1>1 DEF InOf
<1>12. InOf(g) = {g[n] : n \in 1..(Len(s) - 1)}
  <2>1. \A n \in 1..(Len(s) - 1) : g[n] # None
    BY <1>1, <1>7
  <2>. QED
    BY <1>6, <2>1 DEF InOf
<1>13. ASSUME NEW n \in 1..(Len(s) - 1)
       PROVE  g[n] \in InOf(s) \ {s[k]}
  <2>1. up(n) \in 1..Len(s) /\ up(n) # k /\ g[n] = s[up(n)]
    BY <1>7
  <2>2. s[up(n)] # s[k]
    BY <1>1, <2>1 DEF IsInjective
  <2>. QED
    BY <1>11, <2>1, <2>2
<1>14. ASSUME NEW x \in InOf(s) \ {s[k]}
       PROVE  x \in InOf(g)
  <2>1. PICK m \in 1..Len(s) : x = s[m]
    BY <1>11
  <2>2. PICK n \in 1..(Len(s) - 1) : up(n) = m
    BY <1>8, <2>1
  <2>. QED
    BY <1>7, <1>12, <2>1, <2>2
<1>. QED
  BY <1>5, <1>10, <1>12, <1>13, <1>14

-----------------------------------------------------------------------------
(* One change of the store at a time.                                      *)

LEMMA InIsInOf ==
  ASSUME NEW w, NEW c
  PROVE  In(w, c) = InOf(w.held[c])
BY DEF In, InOf

\* Nobody gains or loses a reference.
SameHolders(pa, h2, w, hand) ==
  \A i \in Items : pa[i] # None \/ i \in h2 <=> w.parent[i] # None \/ i \in hand

LEMMA StoreOK ==
  ASSUME NEW w, NEW hand, NEW busy, WInv(w, hand, busy),
         NEW pa \in [Items -> Cylinders \cup {None}], NEW he,
         NEW am \in [Coins -> 0..MaxStack], NEW we \in [Bags -> Int], NEW v,
         v = WorldOf(pa, he, am, we, w.refs, w.toRelease, w.trade, w.tradeItems, w.crashed),
         HeldOK(v), NEW h2 \in SUBSET Items, StoredIn(v, h2),
         SameHolders(pa, h2, w, hand)
  PROVE  WInv(v, h2, busy)
<1>0. WorldOK(w) /\ StoredIn(w, hand) /\ Counted(w, hand) /\ Agreed(w, busy)
      /\ hand \in SUBSET Items /\ busy \in SUBSET Players
  BY DEF WInv
<1>1. /\ v.parent = pa /\ v.held = he /\ v.amount = am /\ v.weight = we
      /\ v.refs = w.refs /\ v.toRelease = w.toRelease /\ v.trade = w.trade
      /\ v.tradeItems = w.tradeItems /\ v.crashed = w.crashed
  BY Parts
<1>2. WorldOK(v)
  BY <1>0, <1>1 DEF WorldOK
<1>3. Counted(v, h2)
  <2>. SUFFICES ASSUME NEW i \in Items
                PROVE  v.refs[i] = v.toRelease[i] + Holds(v, h2, i)
    BY DEF Counted
  <2>1. w.refs[i] = w.toRelease[i] + Holds(w, hand, i) /\ w.toRelease[i] \in Nat
    BY <1>0 DEF Counted, WorldOK
  <2>2. /\ i \in hand => w.parent[i] = None
        /\ i \in h2 => v.parent[i] = None
    BY <1>0 DEF StoredIn, Kept
  <2>. QED
    BY <1>1, <2>1, <2>2 DEF Holds, SameHolders
<1>4. Agreed(v, busy)
  BY <1>0, <1>1 DEF Agreed, Side, Offers, Apart
<1>. QED
  BY <1>0, <1>2, <1>3, <1>4 DEF WInv

\* Into a cylinder.
LEMMA PutOK ==
  ASSUME NEW w, NEW hand, NEW busy, WInv(w, hand, busy),
         NEW i \in hand, NEW c \in Cylinders, NEW h \in [Slots -> Items \cup {None}] \cup Seq(Items),
         c \in Players => h \in [Slots -> Items \cup {None}],
         c \notin Players => h \in Seq(Items) /\ IsInjective(h),
         InOf(h) = InOf(w.held[c]) \cup {i}, NEW v,
         v = WorldOf([w.parent EXCEPT ![i] = c], [w.held EXCEPT ![c] = h], w.amount, w.weight,
                     w.refs, w.toRelease, w.trade, w.tradeItems, w.crashed)
  PROVE  WInv(v, hand \ {i}, busy)
<1>. DEFINE pa == [w.parent EXCEPT ![i] = c]
            he == [w.held EXCEPT ![c] = h]
<1>0. WorldOK(w) /\ StoredIn(w, hand) /\ hand \in SUBSET Items /\ i \in Items
  BY DEF WInv
<1>1. /\ pa \in [Items -> Cylinders \cup {None}]
      /\ \A j \in Items : pa[j] = IF j = i THEN c ELSE w.parent[j]
  BY <1>0 DEF WorldOK
<1>2. /\ he \in [Cylinders -> [Slots -> Items \cup {None}] \cup Seq(Items)]
      /\ \A b \in Cylinders : he[b] = IF b = c THEN h ELSE w.held[b]
  BY <1>0 DEF WorldOK, HeldOK
<1>. HIDE DEF pa, he
<1>3. v.parent = pa /\ v.held = he /\ v.amount = w.amount /\ v.weight = w.weight
  BY Parts DEF pa, he
<1>4. HeldOK(v)
  <2>1. \A b \in Players : b \in Cylinders /\ w.held[b] \in [Slots -> Items \cup {None}]
    BY <1>0, Apartness DEF WorldOK, HeldOK
  <2>2. \A b \in Bags \cup {Ground} : b \in Cylinders /\ b \notin Players /\ w.held[b] \in Seq(Items)
    BY <1>0, Apartness DEF WorldOK, HeldOK
  <2>. QED
    BY <1>2, <1>3, <2>1, <2>2 DEF HeldOK
<1>5. Listed(v)
  <2>. SUFFICES ASSUME NEW b \in Cylinders, NEW j \in Items
                PROVE  j \in In(v, b) <=> v.parent[j] = b
    BY DEF Listed
  <2>1. j \in In(w, b) <=> w.parent[j] = b
    BY <1>0 DEF StoredIn, Listed
  <2>2. w.parent[i] = None /\ b # None
    BY <1>0, Apartness DEF StoredIn, Kept
  <2>3. In(v, b) = IF b = c THEN In(w, b) \cup {i} ELSE In(w, b)
    BY <1>2, <1>3, InIsInOf
  <2>. QED
    BY <1>1, <1>3, <2>1, <2>2, <2>3
<1>6. Singly(v)
  <2>1. \A b \in Bags \cup {Ground} : b \in Cylinders /\ b \notin Players /\ IsInjective(w.held[b])
    BY <1>0, Apartness DEF StoredIn, Singly
  <2>. QED
    BY <1>2, <1>3, <2>1 DEF Singly
<1>7. Kept(v, hand \ {i})
  BY <1>0, <1>1, <1>3, Apartness DEF StoredIn, Kept
<1>8. SameHolders(pa, hand \ {i}, w, hand)
  BY <1>1, Apartness DEF SameHolders
<1>9. /\ w.amount \in [Coins -> 0..MaxStack] /\ w.weight \in [Bags -> Int]
      /\ v = WorldOf(pa, he, w.amount, w.weight, w.refs, w.toRelease, w.trade, w.tradeItems, w.crashed)
      /\ hand \ {i} \in SUBSET Items
  BY <1>0 DEF WorldOK, pa, he
<1>10. StoredIn(v, hand \ {i})
  BY <1>5, <1>6, <1>7 DEF StoredIn
<1>. QED
  BY <1>1, <1>4, <1>8, <1>9, <1>10, StoreOK

\* Out of its cylinder.
LEMMA TakeOK ==
  ASSUME NEW w, NEW hand, NEW busy, WInv(w, hand, busy),
         NEW i \in Items, NEW c \in Cylinders, w.parent[i] = c,
         NEW h \in [Slots -> Items \cup {None}] \cup Seq(Items),
         c \in Players => h \in [Slots -> Items \cup {None}],
         c \notin Players => h \in Seq(Items) /\ IsInjective(h),
         InOf(h) = InOf(w.held[c]) \ {i}, NEW v,
         v = WorldOf([w.parent EXCEPT ![i] = None], [w.held EXCEPT ![c] = h], w.amount, w.weight,
                     w.refs, w.toRelease, w.trade, w.tradeItems, w.crashed)
  PROVE  WInv(v, hand \cup {i}, busy)
<1>. DEFINE pa == [w.parent EXCEPT ![i] = None]
            he == [w.held EXCEPT ![c] = h]
<1>0. WorldOK(w) /\ StoredIn(w, hand) /\ hand \in SUBSET Items
  BY DEF WInv
<1>1. /\ pa \in [Items -> Cylinders \cup {None}]
      /\ \A j \in Items : pa[j] = IF j = i THEN None ELSE w.parent[j]
  BY <1>0 DEF WorldOK
<1>2. /\ he \in [Cylinders -> [Slots -> Items \cup {None}] \cup Seq(Items)]
      /\ \A b \in Cylinders : he[b] = IF b = c THEN h ELSE w.held[b]
  BY <1>0 DEF WorldOK, HeldOK
<1>. HIDE DEF pa, he
<1>3. v.parent = pa /\ v.held = he /\ v.amount = w.amount /\ v.weight = w.weight
  BY Parts DEF pa, he
<1>4. HeldOK(v)
  <2>1. \A b \in Players : b \in Cylinders /\ w.held[b] \in [Slots -> Items \cup {None}]
    BY <1>0, Apartness DEF WorldOK, HeldOK
  <2>2. \A b \in Bags \cup {Ground} : b \in Cylinders /\ b \notin Players /\ w.held[b] \in Seq(Items)
    BY <1>0, Apartness DEF WorldOK, HeldOK
  <2>. QED
    BY <1>2, <1>3, <2>1, <2>2, ZenonT(60) DEF HeldOK
<1>5. Listed(v)
  <2>. SUFFICES ASSUME NEW b \in Cylinders, NEW j \in Items
                PROVE  j \in In(v, b) <=> v.parent[j] = b
    BY DEF Listed
  <2>1. j \in In(w, b) <=> w.parent[j] = b
    BY <1>0 DEF StoredIn, Listed
  <2>2. b # None
    BY Apartness
  <2>3. In(v, b) = IF b = c THEN In(w, b) \ {i} ELSE In(w, b)
    BY <1>2, <1>3, InIsInOf
  <2>. QED
    BY <1>1, <1>3, <2>1, <2>2, <2>3
<1>6. Singly(v)
  <2>1. \A b \in Bags \cup {Ground} : b \in Cylinders /\ b \notin Players /\ IsInjective(w.held[b])
    BY <1>0, Apartness DEF StoredIn, Singly
  <2>. QED
    BY <1>2, <1>3, <2>1 DEF Singly
<1>7. Kept(v, hand \cup {i})
  <2>1. i \in Coins => w.amount[i] > 0
    BY <1>0, Apartness DEF StoredIn, Kept
  <2>. QED
    BY <1>0, <1>1, <1>3, <2>1, Apartness DEF StoredIn, Kept
<1>8. SameHolders(pa, hand \cup {i}, w, hand)
  BY <1>1, Apartness DEF SameHolders
<1>9. /\ w.amount \in [Coins -> 0..MaxStack] /\ w.weight \in [Bags -> Int]
      /\ v = WorldOf(pa, he, w.amount, w.weight, w.refs, w.toRelease, w.trade, w.tradeItems, w.crashed)
      /\ hand \cup {i} \in SUBSET Items
  BY <1>0 DEF WorldOK, pa, he
<1>10. StoredIn(v, hand \cup {i})
  BY <1>5, <1>6, <1>7 DEF StoredIn
<1>. QED
  BY <1>1, <1>4, <1>8, <1>9, <1>10, StoreOK

-----------------------------------------------------------------------------
(* The steps of the handlers.                                              *)

SameTrades(w, v, busy) == \A p \in busy : v.trade[p] = w.trade[p]
ParentSet(w, v, i, c)  == v.parent = [w.parent EXCEPT ![i] = c]
AmountSet(w, v, i, n)  == v.amount = [w.amount EXCEPT ![i] = n]
RefsSet(w, v, i, n)    == v.refs = [w.refs EXCEPT ![i] = n]

LEMMA ChangedOK ==
  ASSUME NEW w, NEW hand, NEW busy, WInv(w, hand, busy), NEW c, NEW i, NEW v,
         v = Changed(w, c, i) \/ v = Removed(w, c, i)
  PROVE  WInv(v, hand, busy) /\ SameStore(w, v) /\ SameTrades(w, v, busy)
<1>1. Watching(c) \subseteq Players
  BY DEF Watching
<1>2. PICK S \in SUBSET Players : v = CloseTrades(w, S)
  BY <1>1 DEF Changed, Removed
<1>. QED
  BY <1>2, CloseTradesOK DEF SameTrades

\* Container::updateItemWeight
LEMMA ReweighOK ==
  ASSUME NEW w, NEW hand, NEW busy, WInv(w, hand, busy), NEW c, NEW d \in Int, NEW v,
         v = Reweigh(w, c, d)
  PROVE  /\ WInv(v, hand, busy)
         /\ v.parent = w.parent /\ v.held = w.held /\ v.amount = w.amount
         /\ v.refs = w.refs /\ v.trade = w.trade
<1>. DEFINE we == [b \in Bags |-> IF b = c \/ (c \in Bags /\ IsHolding(w, b, c))
                                  THEN w.weight[b] + d ELSE w.weight[b]]
            w0 == WorldOf(w.parent, w.held, w.amount, w.weight, w.refs, w.toRelease,
                          w.trade, w.tradeItems, w.crashed)
<1>0. WorldOK(w) /\ StoredIn(w, hand) /\ hand \in SUBSET Items
  BY DEF WInv
<1>1. w = w0
  BY <1>0 DEF WorldOK
<1>2. we \in [Bags -> Int]
  BY <1>0 DEF WorldOK
<1>3. v = [w EXCEPT !.weight = we]
  BY DEF Reweigh
<1>. HIDE DEF we
<1>4. v = [w0 EXCEPT !.weight = we]
  BY <1>1, <1>3
<1>5. v = WorldOf(w.parent, w.held, w.amount, we, w.refs, w.toRelease, w.trade,
                  w.tradeItems, w.crashed)
  BY <1>4 DEF WorldOf
<1>6. /\ v.parent = w.parent /\ v.held = w.held /\ v.amount = w.amount
      /\ v.refs = w.refs /\ v.trade = w.trade
  BY <1>5, Parts
<1>7. HeldOK(v) /\ StoredIn(v, hand)
  BY <1>0, <1>6 DEF WorldOK, HeldOK, StoredIn, Listed, Singly, Kept, In
<1>8. SameHolders(w.parent, hand, w, hand)
  BY DEF SameHolders
<1>9. w.parent \in [Items -> Cylinders \cup {None}] /\ w.amount \in [Coins -> 0..MaxStack]
  BY <1>0 DEF WorldOK
<1>10. WInv(v, hand, busy)
  BY <1>0, <1>2, <1>5, <1>7, <1>8, <1>9, StoreOK
<1>. QED
  BY <1>6, <1>10

LEMMA WeightIsInt ==
  ASSUME NEW w, WorldOK(w), NEW i \in Items
  PROVE  WeightOf(w, i) \in Int
BY Apartness DEF WorldOK, WeightOf

\* __updateThing: a stack has other coins, but never none.
LEMMA UpdateOK ==
  ASSUME NEW w, NEW hand, NEW busy, WInv(w, hand, busy), NEW c, NEW i \in Coins,
         NEW n \in 1..MaxStack, NEW v, v = UpdateThing(w, c, i, n)
  PROVE  /\ WInv(v, hand, busy)
         /\ v.parent = w.parent /\ v.held = w.held /\ v.refs = w.refs
         /\ AmountSet(w, v, i, n)
         /\ SameTrades(w, v, busy)
<1>. DEFINE am == [w.amount EXCEPT ![i] = n]
            w0 == WorldOf(w.parent, w.held, w.amount, w.weight, w.refs, w.toRelease,
                          w.trade, w.tradeItems, w.crashed)
            u  == WorldOf(w.parent, w.held, am, w.weight, w.refs, w.toRelease,
                          w.trade, w.tradeItems, w.crashed)
            d  == n - w.amount[i]
            x  == Reweigh(u, c, d)
<1>0. WorldOK(w) /\ StoredIn(w, hand) /\ hand \in SUBSET Items
  BY DEF WInv
<1>1. w = w0
  BY <1>0 DEF WorldOK
<1>2. am \in [Coins -> 0..MaxStack] /\ \A j \in Coins : am[j] = IF j = i THEN n ELSE w.amount[j]
  BY <1>0, Apartness DEF WorldOK
<1>3. d \in Int
  BY <1>0, Apartness DEF WorldOK
<1>4. [w EXCEPT !.amount[i] = n] = u
  <2>1. [w0 EXCEPT !.amount[i] = n] = u
    BY DEF WorldOf
  <2>. QED
    BY <1>1, <2>1
<1>5. v = Changed(x, c, i)
  BY <1>4 DEF UpdateThing
<1>. HIDE DEF am, u, d, x
<1>6. /\ u.parent = w.parent /\ u.held = w.held /\ u.amount = am
      /\ u.refs = w.refs /\ u.trade = w.trade
  BY Parts DEF u
<1>7. HeldOK(u) /\ StoredIn(u, hand)
  <2>1. HeldOK(u) /\ Listed(u) /\ Singly(u)
    BY <1>0, <1>6 DEF WorldOK, HeldOK, StoredIn, Listed, Singly, In
  <2>2. Kept(u, hand)
    BY <1>0, <1>2, <1>6 DEF StoredIn, Kept
  <2>. QED
    BY <2>1, <2>2 DEF StoredIn
<1>8. SameHolders(w.parent, hand, w, hand)
  BY DEF SameHolders
<1>9. w.parent \in [Items -> Cylinders \cup {None}] /\ w.weight \in [Bags -> Int]
  BY <1>0 DEF WorldOK
<1>10. WInv(u, hand, busy)
  BY <1>0, <1>2, <1>7, <1>8, <1>9, StoreOK DEF u
<1>11. /\ WInv(x, hand, busy)
       /\ x.parent = u.parent /\ x.held = u.held /\ x.amount = u.amount
       /\ x.refs = u.refs /\ x.trade = u.trade
  BY <1>3, <1>10, ReweighOK DEF x
<1>12. WInv(v, hand, busy) /\ SameStore(x, v) /\ SameTrades(x, v, busy)
  BY <1>5, <1>11, ChangedOK
<1>. QED
  BY <1>6, <1>11, <1>12 DEF am, SameStore, SameTrades, AmountSet

\* Where __addThing takes an item: an empty slot, or a list.
Takes(w, c, k) ==
  /\ c \in Players => k \in Slots /\ w.held[c][k] = None
  /\ c \in Bags => k < BagSlots

\* Only what c holds has changed, and of it only i.
OnlyIn(w, v, c) == \A b \in Cylinders : b # c => v.held[b] = w.held[b]

\* The ways to write i into a cylinder.
InSlot(w, c, k, i) == [w EXCEPT !.held[c][k] = i]
InFront(w, c, i)   == [w EXCEPT !.held[c] = <<i>> \o @]
Into(w, c, i)      == [w EXCEPT !.parent[i] = c]

LEMMA IntoSo ==
  ASSUME NEW pa, NEW he, NEW am, NEW we, NEW re, NEW tr, NEW td, NEW ti, NEW cr,
         NEW w, w = WorldOf(pa, he, am, we, re, tr, td, ti, cr), NEW c, NEW i,
         NEW v, v = Into(w, c, i)
  PROVE  v = WorldOf([pa EXCEPT ![i] = c], he, am, we, re, tr, td, ti, cr)
<1>. DEFINE x == [pa EXCEPT ![i] = c]
<1>1. v = [w EXCEPT !.parent = x]
  BY Parts DEF Into
<1>. HIDE DEF x
<1>2. v = WorldOf(x, he, am, we, re, tr, td, ti, cr)
  BY <1>1 DEF WorldOf
<1>. QED
  BY <1>2 DEF x

LEMMA InSlotSo ==
  ASSUME NEW pa, NEW he, NEW am, NEW we, NEW re, NEW tr, NEW td, NEW ti, NEW cr,
         NEW w, w = WorldOf(pa, he, am, we, re, tr, td, ti, cr), NEW c, NEW k, NEW i,
         NEW v, v = InSlot(w, c, k, i)
  PROVE  v = WorldOf(pa, [he EXCEPT ![c] = [he[c] EXCEPT ![k] = i]], am, we, re, tr, td, ti, cr)
<1>. DEFINE x == [he EXCEPT ![c] = [he[c] EXCEPT ![k] = i]]
<1>1. v = [w EXCEPT !.held = x]
  BY Parts DEF InSlot
<1>. HIDE DEF x
<1>2. v = WorldOf(pa, x, am, we, re, tr, td, ti, cr)
  BY <1>1 DEF WorldOf
<1>. QED
  BY <1>2 DEF x

LEMMA InFrontSo ==
  ASSUME NEW pa, NEW he, NEW am, NEW we, NEW re, NEW tr, NEW td, NEW ti, NEW cr,
         NEW w, w = WorldOf(pa, he, am, we, re, tr, td, ti, cr), NEW c, NEW i,
         NEW v, v = InFront(w, c, i)
  PROVE  v = WorldOf(pa, [he EXCEPT ![c] = <<i>> \o he[c]], am, we, re, tr, td, ti, cr)
<1>. DEFINE x == [he EXCEPT ![c] = <<i>> \o he[c]]
<1>1. v = [w EXCEPT !.held = x]
  <2>1. w.held = he
    BY Parts
  <2>. QED
    BY <2>1 DEF InFront
<1>. HIDE DEF x
<1>2. v = WorldOf(pa, x, am, we, re, tr, td, ti, cr)
  BY <1>1 DEF WorldOf
<1>. QED
  BY <1>2 DEF x

LEMMA AddCases ==
  ASSUME NEW w, NEW c, NEW k, NEW i
  PROVE  AddThing(w, c, k, i) =
           CASE c \in Players -> IF k \in Slots THEN InSlot(Into(w, c, i), c, k, i) ELSE w
             [] c \in Bags ->
                  IF k >= BagSlots THEN w
                  ELSE Changed(Reweigh(InFront(Into(w, c, i), c, i), c, WeightOf(w, i)), c, i)
             [] c = Ground -> InFront(Into(w, c, i), c, i)
BY DEF AddThing, InSlot, InFront, Into

\* __addThing
LEMMA AddOK ==
  ASSUME NEW w, NEW hand, NEW busy, WInv(w, hand, busy), NEW c \in Cylinders, NEW k \in Int,
         NEW i \in hand, Takes(w, c, k), NEW v, v = AddThing(w, c, k, i)
  PROVE  /\ WInv(v, hand \ {i}, busy)
         /\ ParentSet(w, v, i, c) /\ OnlyIn(w, v, c)
         /\ v.amount = w.amount /\ v.refs = w.refs
         /\ SameTrades(w, v, busy)
<1>. DEFINE w0 == WorldOf(w.parent, w.held, w.amount, w.weight, w.refs, w.toRelease,
                          w.trade, w.tradeItems, w.crashed)
            h  == IF c \in Players THEN [w.held[c] EXCEPT ![k] = i] ELSE <<i>> \o w.held[c]
            pa == [w.parent EXCEPT ![i] = c]
            he == [w.held EXCEPT ![c] = h]
            u  == WorldOf(pa, he, w.amount, w.weight, w.refs, w.toRelease,
                          w.trade, w.tradeItems, w.crashed)
            d  == WeightOf(w, i)
            x  == Reweigh(u, c, d)
<1>0. WorldOK(w) /\ StoredIn(w, hand) /\ hand \in SUBSET Items /\ i \in Items
  BY DEF WInv
<1>1. w = w0
  BY <1>0 DEF WorldOK
<1>2. /\ h \in [Slots -> Items \cup {None}] \cup Seq(Items)
      /\ c \in Players => h \in [Slots -> Items \cup {None}]
      /\ c \notin Players => h \in Seq(Items) /\ IsInjective(h)
      /\ InOf(h) = InOf(w.held[c]) \cup {i}
  <2>1. CASE c \in Players
    <3>1. w.held[c] \in [Slots -> Items \cup {None}]
      BY <1>0, <2>1 DEF WorldOK, HeldOK
    <3>2. k \in Slots /\ w.held[c][k] = None /\ h = [w.held[c] EXCEPT ![k] = i]
      BY <2>1 DEF Takes
    <3>. HIDE DEF h
    <3>3. h \in [Slots -> Items \cup {None}] /\ InOf(h) = InOf(w.held[c]) \cup {i}
      BY <1>0, <3>1, <3>2, SlotsPut
    <3>. QED
      BY <2>1, <3>3
  <2>2. CASE c \notin Players
    <3>1. w.held[c] \in Seq(Items) /\ IsInjective(w.held[c])
      BY <1>0, <2>2, Apartness DEF WorldOK, HeldOK, StoredIn, Singly
    <3>2. i \notin InOf(w.held[c])
      BY <1>0, InIsInOf, Apartness DEF StoredIn, Listed, Kept
    <3>3. h = <<i>> \o w.held[c]
      BY <2>2
    <3>4. h \in Seq(Items) /\ InOf(h) = InOf(w.held[c]) \cup {i} /\ IsInjective(h)
      BY <1>0, <3>1, <3>2, <3>3, SeqPut
    <3>. QED
      BY <2>2, <3>4
  <2>. QED
    BY <2>1, <2>2
<1>3. CASE c \in Players
  <2>1. v = InSlot(Into(w, c, i), c, k, i)
    <3>1. k \in Slots
      BY <1>3 DEF Takes
    <3>. QED
      BY <1>3, <3>1, AddCases, ItemsAssumption
  <2>2. v = WorldOf(pa, [w.held EXCEPT ![c] = [w.held[c] EXCEPT ![k] = i]], w.amount, w.weight,
                    w.refs, w.toRelease, w.trade, w.tradeItems, w.crashed)
    <3>1. Into(w, c, i) = WorldOf(pa, w.held, w.amount, w.weight, w.refs, w.toRelease,
                                  w.trade, w.tradeItems, w.crashed)
      BY <1>1, IntoSo
    <3>. HIDE DEF pa
    <3>. QED
      BY <2>1, <3>1, InSlotSo
  <2>3. h = [w.held[c] EXCEPT ![k] = i]
    BY <1>3
  <2>. HIDE DEF h
  <2>4. v = u
    BY <2>2, <2>3
  <2>. HIDE DEF u, pa, he
  <2>. QED
    <3>1. u.parent = pa /\ u.held = he /\ u.amount = w.amount /\ u.refs = w.refs /\ u.trade = w.trade
      BY Parts DEF u
    <3>2. WInv(u, hand \ {i}, busy)
      BY <1>0, <1>2, PutOK DEF u, pa, he
    <3>3. \A b \in Cylinders : b # c => he[b] = w.held[b]
      BY <1>0 DEF he, WorldOK, HeldOK
    <3>. QED
      BY <2>4, <3>1, <3>2, <3>3 DEF pa, SameTrades, OnlyIn, ParentSet
<1>4. CASE c \notin Players
  <2>1. InFront(Into(w, c, i), c, i) = u
    <3>1. InFront(Into(w, c, i), c, i)
            = WorldOf(pa, [w.held EXCEPT ![c] = <<i>> \o w.held[c]], w.amount, w.weight,
                      w.refs, w.toRelease, w.trade, w.tradeItems, w.crashed)
      <4>1. Into(w, c, i) = WorldOf(pa, w.held, w.amount, w.weight, w.refs, w.toRelease,
                                    w.trade, w.tradeItems, w.crashed)
        BY <1>1, IntoSo
      <4>. HIDE DEF pa
      <4>. QED
        BY <4>1, InFrontSo
    <3>2. h = <<i>> \o w.held[c]
      BY <1>4
    <3>. HIDE DEF h
    <3>. QED
      BY <3>1, <3>2
  <2>2. CASE c = Ground
    <3>1. v = u
      <4>1. c \notin Bags
        BY <2>2, ItemsAssumption
      <4>2. v = InFront(Into(w, c, i), c, i)
        BY <1>4, <2>2, <4>1, AddCases
      <4>. QED
        BY <2>1, <4>2
    <3>. HIDE DEF u, pa, he, h
    <3>2. u.parent = pa /\ u.held = he /\ u.amount = w.amount /\ u.refs = w.refs /\ u.trade = w.trade
      BY Parts DEF u
    <3>3. WInv(u, hand \ {i}, busy)
      BY <1>0, <1>2, PutOK DEF u, pa, he
    <3>4. \A b \in Cylinders : b # c => he[b] = w.held[b]
      BY <1>0 DEF he, WorldOK, HeldOK
    <3>. QED
      BY <3>1, <3>2, <3>3, <3>4 DEF pa, SameTrades, OnlyIn, ParentSet
  <2>3. CASE c \in Bags
    <3>1. v = Changed(x, c, i)
      <4>1. ~(k >= BagSlots)
        BY <2>3, Apartness DEF Takes
      <4>2. v = Changed(Reweigh(InFront(Into(w, c, i), c, i), c, WeightOf(w, i)), c, i)
        BY <1>4, <2>3, <4>1, AddCases, ItemsAssumption
      <4>. HIDE DEF u
      <4>. QED
        BY <2>1, <4>2
    <3>2. d \in Int
      BY <1>0, WeightIsInt
    <3>. HIDE DEF u, pa, he, h, d, x
    <3>3. u.parent = pa /\ u.held = he /\ u.amount = w.amount /\ u.refs = w.refs /\ u.trade = w.trade
      BY Parts DEF u
    <3>4. WInv(u, hand \ {i}, busy)
      BY <1>0, <1>2, PutOK DEF u, pa, he
    <3>5. /\ WInv(x, hand \ {i}, busy)
          /\ x.parent = u.parent /\ x.held = u.held /\ x.amount = u.amount
          /\ x.refs = u.refs /\ x.trade = u.trade
      BY <3>2, <3>4, ReweighOK DEF x
    <3>6. WInv(v, hand \ {i}, busy) /\ SameStore(x, v) /\ SameTrades(x, v, busy)
      BY <3>1, <3>5, ChangedOK
    <3>7. \A b \in Cylinders : b # c => he[b] = w.held[b]
      BY <1>0 DEF he, WorldOK, HeldOK
    <3>. QED
      BY <3>3, <3>5, <3>6, <3>7 DEF pa, SameStore, SameTrades, OnlyIn, ParentSet
  <2>. QED
    BY <1>4, <2>2, <2>3, Apartness
<1>. QED
  BY <1>3, <1>4

\* __getIndexOfThing finds what is there.
LEMMA Found ==
  ASSUME NEW w, WorldOK(w), Listed(w), NEW i \in Items, NEW c \in Cylinders, w.parent[i] = c,
         c \notin Players
  PROVE  IndexOf(w, c, i) + 1 \in 1..Len(w.held[c]) /\ w.held[c][IndexOf(w, c, i) + 1] = i
<1>1. i \in In(w, c)
  BY DEF Listed
<1>2. w.held[c] \in Seq(Items)
  BY Apartness DEF WorldOK, HeldOK
<1>3. DOMAIN w.held[c] = 1..Len(w.held[c]) /\ Len(w.held[c]) \in Nat
  BY <1>2, LenProperties
<1>4. \E n \in DOMAIN w.held[c] : w.held[c][n] = i
  BY <1>1 DEF In
<1>5. PICK n \in DOMAIN w.held[c] : w.held[c][n] = i /\ IndexOf(w, c, i) = n - 1
  BY <1>4 DEF IndexOf
<1>6. n \in 1..Len(w.held[c]) /\ n \in Int
  BY <1>3, <1>5
<1>7. n - 1 + 1 = n
  BY <1>6
<1>. QED
  BY <1>5, <1>6, <1>7

\* What a cylinder is left with.
OutOf(w, c, i, h) == [w EXCEPT !.held[c] = h, !.parent[i] = None]

LEMMA OutOfSo ==
  ASSUME NEW w, WorldOK(w), NEW c, NEW i, NEW h, NEW v, v = OutOf(w, c, i, h)
  PROVE  v = WorldOf([w.parent EXCEPT ![i] = None], [w.held EXCEPT ![c] = h], w.amount, w.weight,
                     w.refs, w.toRelease, w.trade, w.tradeItems, w.crashed)
<1>. DEFINE x  == [w.parent EXCEPT ![i] = None]
            y  == [w.held EXCEPT ![c] = h]
            w0 == WorldOf(w.parent, w.held, w.amount, w.weight, w.refs, w.toRelease,
                          w.trade, w.tradeItems, w.crashed)
<1>1. w = w0
  BY DEF WorldOK
<1>2. v = [w EXCEPT !.held = y, !.parent = x]
  BY DEF OutOf
<1>. HIDE DEF x, y
<1>3. v = [w0 EXCEPT !.held = y, !.parent = x]
  BY <1>1, <1>2
<1>4. v = WorldOf(x, y, w.amount, w.weight, w.refs, w.toRelease, w.trade, w.tradeItems, w.crashed)
  BY <1>3 DEF WorldOf
<1>. QED
  BY <1>4 DEF x, y

Left(w, c, i) ==
  IF c \in Players THEN [k \in Slots |-> IF w.held[c][k] = i THEN None ELSE w.held[c][k]]
  ELSE RemoveAt(w.held[c], IndexOf(w, c, i) + 1)

LEMMA RemoveCases ==
  ASSUME NEW w, NEW c, NEW i, NEW n
  PROVE  RemoveThing(w, c, i, n) =
           IF i \in Coins /\ n # w.amount[i]
             THEN UpdateThing(w, c, i, IF n < w.amount[i] THEN w.amount[i] - n ELSE 0)
             ELSE OutOf(Reweigh(Removed(w, c, i), c, -WeightOf(w, i)), c, i, Left(w, c, i))
BY DEF RemoveThing, OutOf, Left

\* __removeThing of all of an item, which ends in the handler's hands.
Whole(w, i, n) == i \in Coins => n = w.amount[i]

Emptied(w, v, c, i) ==
  c \in Players => \A k \in Slots : v.held[c][k] = IF w.held[c][k] = i THEN None ELSE w.held[c][k]

LEMMA RemoveAllOK ==
  ASSUME NEW w, NEW hand, NEW busy, WInv(w, hand, busy), NEW c \in Cylinders,
         NEW i \in Items, w.parent[i] = c, NEW n, Whole(w, i, n), NEW v, v = RemoveThing(w, c, i, n)
  PROVE  /\ WInv(v, hand \cup {i}, busy)
         /\ ParentSet(w, v, i, None)
         /\ OnlyIn(w, v, c) /\ Emptied(w, v, c, i)
         /\ v.amount = w.amount /\ v.refs = w.refs
         /\ SameTrades(w, v, busy)
<1>. DEFINE r == Removed(w, c, i)
            d == -WeightOf(w, i)
            x == Reweigh(r, c, d)
            h == Left(w, c, i)
<1>0. WorldOK(w) /\ StoredIn(w, hand) /\ hand \in SUBSET Items
  BY DEF WInv
<1>1. v = OutOf(x, c, i, h)
  BY RemoveCases DEF Whole
<1>2. d \in Int
  BY <1>0, WeightIsInt
<1>. HIDE DEF r, d, x, h
<1>3. WInv(r, hand, busy) /\ SameStore(w, r) /\ SameTrades(w, r, busy)
  BY ChangedOK DEF r
<1>4. /\ WInv(x, hand, busy)
      /\ x.parent = r.parent /\ x.held = r.held /\ x.amount = r.amount
      /\ x.refs = r.refs /\ x.trade = r.trade
  BY <1>2, <1>3, ReweighOK DEF x
<1>5. x.parent = w.parent /\ x.held = w.held /\ x.amount = w.amount /\ x.refs = w.refs
  BY <1>3, <1>4 DEF SameStore
<1>6. WorldOK(x)
  BY <1>4 DEF WInv
<1>7. v = WorldOf([x.parent EXCEPT ![i] = None], [x.held EXCEPT ![c] = h], x.amount, x.weight,
                  x.refs, x.toRelease, x.trade, x.tradeItems, x.crashed)
  BY <1>1, <1>6, OutOfSo
<1>8. /\ h \in [Slots -> Items \cup {None}] \cup Seq(Items)
      /\ c \in Players => h \in [Slots -> Items \cup {None}]
      /\ c \notin Players => h \in Seq(Items) /\ IsInjective(h)
      /\ InOf(h) = InOf(w.held[c]) \ {i}
  <2>1. CASE c \in Players
    <3>1. w.held[c] \in [Slots -> Items \cup {None}]
      BY <1>0, <2>1 DEF WorldOK, HeldOK
    <3>2. h = [k \in Slots |-> IF w.held[c][k] = i THEN None ELSE w.held[c][k]]
      BY <2>1 DEF h, Left
    <3>3. h \in [Slots -> Items \cup {None}] /\ InOf(h) = InOf(w.held[c]) \ {i}
      BY <3>1, <3>2, SlotsTake
    <3>. QED
      BY <2>1, <3>3
  <2>2. CASE c \notin Players
    <3>1. w.held[c] \in Seq(Items) /\ IsInjective(w.held[c])
      BY <1>0, <2>2, Apartness DEF WorldOK, HeldOK, StoredIn, Singly
    <3>2. IndexOf(w, c, i) + 1 \in 1..Len(w.held[c]) /\ w.held[c][IndexOf(w, c, i) + 1] = i
      BY <1>0, <2>2, Found DEF StoredIn
    <3>3. h = RemoveAt(w.held[c], IndexOf(w, c, i) + 1)
      BY <2>2 DEF h, Left
    <3>4. h \in Seq(Items) /\ InOf(h) = InOf(w.held[c]) \ {i} /\ IsInjective(h)
      BY <3>1, <3>2, <3>3, SeqTake
    <3>. QED
      BY <2>2, <3>4
  <2>. QED
    BY <2>1, <2>2
<1>9. WInv(v, hand \cup {i}, busy)
  <2>1. x.parent[i] = c /\ InOf(h) = InOf(x.held[c]) \ {i}
    BY <1>5, <1>8
  <2>. DEFINE q == WorldOf([x.parent EXCEPT ![i] = None], [x.held EXCEPT ![c] = h], x.amount,
                          x.weight, x.refs, x.toRelease, x.trade, x.tradeItems, x.crashed)
  <2>2. WInv(q, hand \cup {i}, busy)
    BY <1>4, <1>8, <2>1, TakeOK
  <2>. HIDE DEF q
  <2>. QED
    BY <1>7, <2>2 DEF q
<1>10. /\ v.parent = [x.parent EXCEPT ![i] = None] /\ v.held = [x.held EXCEPT ![c] = h]
       /\ v.amount = x.amount /\ v.refs = x.refs /\ v.trade = x.trade
  BY <1>7, Parts
<1>11. OnlyIn(w, v, c) /\ (c \in Players => v.held[c] = h)
  BY <1>0, <1>5, <1>10 DEF OnlyIn, WorldOK, HeldOK
<1>12. Emptied(w, v, c, i)
  BY <1>11 DEF Emptied, h, Left
<1>13. SameTrades(w, v, busy)
  BY <1>3, <1>4, <1>10 DEF SameTrades
<1>. QED
  BY <1>5, <1>9, <1>10, <1>11, <1>12, <1>13 DEF ParentSet

\* __removeThing of a part of a stack, which stays where it is.
LEMMA RemovePartOK ==
  ASSUME NEW w, NEW hand, NEW busy, WInv(w, hand, busy), NEW c, NEW i \in Coins,
         NEW n \in Nat \ {0}, n < w.amount[i], NEW v, v = RemoveThing(w, c, i, n)
  PROVE  /\ WInv(v, hand, busy)
         /\ v.parent = w.parent /\ v.held = w.held /\ v.refs = w.refs
         /\ AmountSet(w, v, i, w.amount[i] - n)
         /\ SameTrades(w, v, busy)
<1>1. w.amount[i] \in 0..MaxStack
  BY DEF WInv, WorldOK
<1>2. n # w.amount[i] /\ w.amount[i] - n \in 1..MaxStack
  BY <1>1, Apartness
<1>3. v = UpdateThing(w, c, i, w.amount[i] - n)
  BY <1>2, RemoveCases
<1>. QED
  BY <1>2, <1>3, UpdateOK

-----------------------------------------------------------------------------
(* The coins, counted.                                                     *)

LEMMA LyingIsNat ==
  ASSUME NEW w, WorldOK(w), NEW i \in Coins
  PROVE  Lying(w, i) \in 0..MaxStack
BY Apartness DEF WorldOK, Lying

LEMMA TallyIsNat ==
  ASSUME NEW w
  PROVE  IsFiniteSet(Pile(w)) /\ Tally(w) \in Nat
<1>1. IsFiniteSet(1..MaxStack)
  BY Apartness, FS_Interval
<1>2. IsFiniteSet(Coins \X (1..MaxStack))
  BY <1>1, ItemsAssumption, FS_Product
<1>3. Pile(w) \in SUBSET (Coins \X (1..MaxStack))
  BY DEF Pile
<1>. QED
  BY <1>2, <1>3, FS_Subset, FS_CardinalityType DEF Tally

LEMMA TallySame ==
  ASSUME NEW w, NEW v, \A j \in Coins : Lying(v, j) = Lying(w, j)
  PROVE  Tally(v) = Tally(w)
<1>1. Pile(v) = Pile(w)
  BY DEF Pile
<1>. QED
  BY <1>1 DEF Tally

\* When one stack changes, the tally changes by as much.
LEMMA OneStack ==
  ASSUME NEW w, WorldOK(w), NEW i \in Coins
  PROVE  LET rest == {c \in (Coins \ {i}) \X (1..MaxStack) : c[2] <= Lying(w, c[1])}
         IN Cardinality(rest) \in Nat /\ Tally(w) = Cardinality(rest) + Lying(w, i)
<1>. DEFINE rest  == {c \in (Coins \ {i}) \X (1..MaxStack) : c[2] <= Lying(w, c[1])}
            n     == Lying(w, i)
            stack == {i} \X (1..n)
<1>1. n \in 0..MaxStack /\ MaxStack \in Nat
  BY LyingIsNat, Apartness
<1>2. Pile(w) = rest \cup stack
  <2>1. ASSUME NEW c \in Pile(w)
        PROVE  c \in rest \cup stack
    BY <1>1, <2>1 DEF Pile
  <2>2. ASSUME NEW c \in rest
        PROVE  c \in Pile(w)
    BY <2>2 DEF Pile
  <2>3. ASSUME NEW c \in stack
        PROVE  c \in Pile(w)
    BY <1>1, <2>3 DEF Pile
  <2>. QED
    BY <2>1, <2>2, <2>3
<1>3. rest \cap stack = {}
  OBVIOUS
<1>4. IsFiniteSet(rest) /\ IsFiniteSet(stack)
  BY <1>2, TallyIsNat, FS_Subset
<1>5. Cardinality(stack) = n
  <2>1. IsFiniteSet(1..n) /\ Cardinality(1..n) = n
    BY <1>1, FS_Interval
  <2>2. IsFiniteSet({i}) /\ Cardinality({i}) = 1
    BY FS_Singleton
  <2>3. PICK S : S = {i}
    OBVIOUS
  <2>4. PICK T : T = 1..n
    OBVIOUS
  <2>5. IsFiniteSet(S) /\ IsFiniteSet(T) /\ Cardinality(S) = 1 /\ Cardinality(T) = n
    BY <2>1, <2>2, <2>3, <2>4
  <2>6. Cardinality(S \X T) = Cardinality(S) * Cardinality(T)
    BY <2>5, FS_Product, Zenon
  <2>7. Cardinality(S \X T) = n
    BY <1>1, <2>5, <2>6
  <2>. QED
    BY <2>3, <2>4, <2>7
<1>. HIDE DEF rest, stack
<1>6. Cardinality(rest \cup stack) = Cardinality(rest) + Cardinality(stack) - Cardinality(rest \cap stack)
  BY <1>4, FS_Union
<1>7. Cardinality(rest \cap stack) = 0 /\ Cardinality(rest) \in Nat
  BY <1>3, <1>4, FS_EmptySet, FS_CardinalityType
<1>8. Tally(w) = Cardinality(rest) + n
  BY <1>1, <1>2, <1>5, <1>6, <1>7 DEF Tally
<1>. HIDE DEF n
<1>. QED
  BY <1>7, <1>8 DEF rest, n

LEMMA TallyOne ==
  ASSUME NEW w, WorldOK(w), NEW v, WorldOK(v), NEW i \in Coins,
         \A j \in Coins : j # i => Lying(v, j) = Lying(w, j)
  PROVE  Tally(v) = Tally(w) + Lying(v, i) - Lying(w, i)
<1>. DEFINE r(x) == {c \in (Coins \ {i}) \X (1..MaxStack) : c[2] <= Lying(x, c[1])}
<1>1. r(v) = r(w)
  OBVIOUS
<1>2. Lying(w, i) \in Nat /\ Lying(v, i) \in Nat
  BY LyingIsNat, Apartness
<1>3. Cardinality(r(w)) \in Nat /\ Tally(w) = Cardinality(r(w)) + Lying(w, i)
  BY OneStack
<1>4. Tally(v) = Cardinality(r(v)) + Lying(v, i)
  BY OneStack
<1>. HIDE DEF r
<1>. QED
  BY <1>1, <1>2, <1>3, <1>4

\* A stack grows or shrinks where it lies.
LEMMA TallyAmount ==
  ASSUME NEW w, WorldOK(w), NEW v, WorldOK(v), v.parent = w.parent, NEW i \in Coins,
         NEW n \in 0..MaxStack, AmountSet(w, v, i, n)
  PROVE  Tally(v) = Tally(w) + (IF w.parent[i] # None THEN n - w.amount[i] ELSE 0)
<1>1. \A j \in Coins : v.amount[j] = IF j = i THEN n ELSE w.amount[j]
  BY DEF WorldOK, AmountSet
<1>2. w.amount[i] \in Nat /\ Tally(w) \in Nat /\ n \in Nat
  BY TallyIsNat, Apartness DEF WorldOK
<1>3. Tally(v) = Tally(w) + Lying(v, i) - Lying(w, i)
  BY <1>1, TallyOne DEF Lying
<1>. QED
  BY <1>1, <1>2, <1>3 DEF Lying

\* An item comes to lie somewhere, or is taken from there.
LEMMA TallyPut ==
  ASSUME NEW w, WorldOK(w), NEW v, WorldOK(v), v.amount = w.amount, NEW i \in Items,
         NEW c, ParentSet(w, v, i, c), w.parent[i] = None, c # None
  PROVE  Tally(v) = Tally(w) + (IF i \in Coins THEN w.amount[i] ELSE 0)
<1>1. \A j \in Items : v.parent[j] = IF j = i THEN c ELSE w.parent[j]
  BY DEF WorldOK, ParentSet
<1>2. Tally(w) \in Nat /\ (i \in Coins => w.amount[i] \in Nat)
  BY TallyIsNat, Apartness DEF WorldOK
<1>3. CASE i \in Coins
  <2>1. Tally(v) = Tally(w) + Lying(v, i) - Lying(w, i)
    BY <1>1, <1>3, TallyOne, Apartness DEF Lying
  <2>. QED
    BY <1>1, <1>2, <1>3, <2>1 DEF Lying
<1>4. CASE i \notin Coins
  <2>1. Tally(v) = Tally(w)
    BY <1>1, <1>4, TallySame, Apartness DEF Lying
  <2>. QED
    BY <1>2, <1>4, <2>1
<1>. QED
  BY <1>3, <1>4

LEMMA TallyTake ==
  ASSUME NEW w, WorldOK(w), NEW v, WorldOK(v), v.amount = w.amount, NEW i \in Items,
         ParentSet(w, v, i, None), w.parent[i] # None
  PROVE  Tally(v) = Tally(w) - (IF i \in Coins THEN w.amount[i] ELSE 0)
<1>1. \A j \in Items : v.parent[j] = IF j = i THEN None ELSE w.parent[j]
  BY DEF WorldOK, ParentSet
<1>2. Tally(w) \in Nat /\ (i \in Coins => w.amount[i] \in Nat)
  BY TallyIsNat, Apartness DEF WorldOK
<1>3. CASE i \in Coins
  <2>1. Tally(v) = Tally(w) + Lying(v, i) - Lying(w, i)
    BY <1>1, <1>3, TallyOne, Apartness DEF Lying
  <2>. QED
    BY <1>1, <1>2, <1>3, <2>1 DEF Lying
<1>4. CASE i \notin Coins
  <2>1. Tally(v) = Tally(w)
    BY <1>1, <1>4, TallySame, Apartness DEF Lying
  <2>. QED
    BY <1>2, <1>4, <2>1
<1>. QED
  BY <1>3, <1>4

-----------------------------------------------------------------------------
(* Objects that are made and given up.                                     *)

\* Item::CreateItem: the new stack is in the handler's hands.
LEMMA CreateOK ==
  ASSUME NEW w, NEW hand, NEW busy, WInv(w, hand, busy), Unused(w) # {},
         NEW n \in 1..MaxStack, NEW j, j = NewStack(w), NEW v, v = CreateItem(w, n)
  PROVE  /\ WInv(v, hand \cup {j}, busy) /\ j \in Unused(w) /\ j \notin hand
         /\ v.parent = w.parent /\ v.held = w.held /\ v.trade = w.trade
         /\ AmountSet(w, v, j, n) /\ RefsSet(w, v, j, 1)
<1>. DEFINE re == [w.refs EXCEPT ![j] = 1]
            am == [w.amount EXCEPT ![j] = n]
            w0 == WorldOf(w.parent, w.held, w.amount, w.weight, w.refs, w.toRelease,
                          w.trade, w.tradeItems, w.crashed)
<1>0. WorldOK(w) /\ StoredIn(w, hand) /\ Counted(w, hand) /\ Agreed(w, busy)
      /\ hand \in SUBSET Items /\ busy \in SUBSET Players
  BY DEF WInv
<1>1. j \in Unused(w)
  BY DEF NewStack
<1>2. j \in Coins /\ j \in Items /\ w.refs[j] = 0
  BY <1>1, Apartness DEF Unused
<1>3. j \notin hand /\ w.parent[j] = None /\ j \notin w.tradeItems /\ w.toRelease[j] = 0
  <2>1. w.refs[j] = w.toRelease[j] + Holds(w, hand, j) /\ w.toRelease[j] \in Nat
    BY <1>0, <1>2 DEF Counted, WorldOK
  <2>. QED
    BY <1>2, <2>1 DEF Holds
<1>4. v = [w EXCEPT !.refs = re, !.amount = am]
  BY DEF CreateItem
<1>5. am \in [Coins -> 0..MaxStack] /\ \A i \in Coins : am[i] = IF i = j THEN n ELSE w.amount[i]
  <2>1. w.amount \in [Coins -> 0..MaxStack] /\ n \in 0..MaxStack
    BY <1>0, Apartness DEF WorldOK
  <2>. QED
    BY <1>2, <2>1
<1>6. re \in [Items -> Nat] /\ \A i \in Items : re[i] = IF i = j THEN 1 ELSE w.refs[i]
  BY <1>0 DEF WorldOK
<1>. HIDE DEF re, am
<1>7. v = WorldOf(w.parent, w.held, am, w.weight, re, w.toRelease, w.trade, w.tradeItems, w.crashed)
  <2>1. v = [w0 EXCEPT !.refs = re, !.amount = am]
    BY <1>0, <1>4 DEF WorldOK
  <2>. QED
    BY <2>1 DEF WorldOf
<1>8. /\ v.parent = w.parent /\ v.held = w.held /\ v.amount = am /\ v.weight = w.weight
      /\ v.refs = re /\ v.toRelease = w.toRelease /\ v.trade = w.trade
      /\ v.tradeItems = w.tradeItems /\ v.crashed = w.crashed
  BY <1>7, Parts
<1>9. WorldOK(v)
  <2>1. HeldOK(v)
    BY <1>0, <1>8 DEF WorldOK, HeldOK
  <2>. QED
    BY <1>0, <1>5, <1>6, <1>7, <1>8, <2>1 DEF WorldOK
<1>10. StoredIn(v, hand \cup {j})
  <2>1. Listed(v) /\ Singly(v)
    BY <1>0, <1>8 DEF StoredIn, Listed, Singly, In
  <2>2. Kept(v, hand \cup {j})
    BY <1>0, <1>3, <1>5, <1>8 DEF StoredIn, Kept
  <2>. QED
    BY <2>1, <2>2 DEF StoredIn
<1>11. Counted(v, hand \cup {j})
  <2>. SUFFICES ASSUME NEW i \in Items
                PROVE  v.refs[i] = v.toRelease[i] + Holds(v, hand \cup {j}, i)
    BY DEF Counted
  <2>1. w.refs[i] = w.toRelease[i] + Holds(w, hand, i) /\ w.toRelease[i] \in Nat
    BY <1>0 DEF Counted, WorldOK
  <2>. QED
    BY <1>3, <1>6, <1>8, <2>1 DEF Holds
<1>12. Agreed(v, busy)
  BY <1>0, <1>8 DEF Agreed, Side, Offers, Apart
<1>. QED
  BY <1>0, <1>1, <1>2, <1>3, <1>8, <1>9, <1>10, <1>11, <1>12 DEF WInv, re, am, AmountSet, RefsSet

\* Game::FreeThing of a stack that is in no cylinder any more.
LEMMA FreeOK ==
  ASSUME NEW w, NEW hand, NEW busy, WInv(w, hand, busy), NEW i \in Coins, i \in hand,
         NEW v, v = FreeThing(w, i)
  PROVE  /\ WInv(v, hand \ {i}, busy)
         /\ v.parent = w.parent /\ v.held = w.held /\ v.trade = w.trade
         /\ v.amount = w.amount /\ v.refs = w.refs
<1>. DEFINE tr == [w.toRelease EXCEPT ![i] = w.toRelease[i] + 1]
            w0 == WorldOf(w.parent, w.held, w.amount, w.weight, w.refs, w.toRelease,
                          w.trade, w.tradeItems, w.crashed)
<1>0. WorldOK(w) /\ StoredIn(w, hand) /\ Counted(w, hand) /\ Agreed(w, busy)
      /\ hand \in SUBSET Items /\ busy \in SUBSET Players
  BY DEF WInv
<1>1. v = [w EXCEPT !.toRelease = tr]
  BY DEF FreeThing
<1>2. /\ tr \in [Items -> Nat]
      /\ \A j \in Items : tr[j] = IF j = i THEN w.toRelease[i] + 1 ELSE w.toRelease[j]
  BY <1>0 DEF WorldOK
<1>. HIDE DEF tr
<1>3. v = WorldOf(w.parent, w.held, w.amount, w.weight, w.refs, tr, w.trade, w.tradeItems, w.crashed)
  <2>1. v = [w0 EXCEPT !.toRelease = tr]
    BY <1>0, <1>1 DEF WorldOK
  <2>. QED
    BY <2>1 DEF WorldOf
<1>4. /\ v.parent = w.parent /\ v.held = w.held /\ v.amount = w.amount /\ v.weight = w.weight
      /\ v.refs = w.refs /\ v.toRelease = tr /\ v.trade = w.trade
      /\ v.tradeItems = w.tradeItems /\ v.crashed = w.crashed
  BY <1>3, Parts
<1>5. WorldOK(v)
  <2>1. HeldOK(v)
    BY <1>0, <1>4 DEF WorldOK, HeldOK
  <2>. QED
    BY <1>0, <1>2, <1>3, <1>4, <2>1 DEF WorldOK
<1>6. StoredIn(v, hand \ {i})
  <2>1. Listed(v) /\ Singly(v)
    BY <1>0, <1>4 DEF StoredIn, Listed, Singly, In
  <2>2. Kept(v, hand \ {i})
    BY <1>0, <1>4, Apartness DEF StoredIn, Kept
  <2>. QED
    BY <2>1, <2>2 DEF StoredIn
<1>7. Counted(v, hand \ {i})
  <2>. SUFFICES ASSUME NEW j \in Items
                PROVE  v.refs[j] = v.toRelease[j] + Holds(v, hand \ {i}, j)
    BY DEF Counted
  <2>1. w.refs[j] = w.toRelease[j] + Holds(w, hand, j) /\ w.toRelease[j] \in Nat
    BY <1>0 DEF Counted, WorldOK
  <2>. QED
    BY <1>2, <1>4, <2>1 DEF Holds
<1>8. Agreed(v, busy)
  BY <1>0, <1>4 DEF Agreed, Side, Offers, Apart
<1>. QED
  BY <1>0, <1>4, <1>5, <1>6, <1>7, <1>8 DEF WInv

-----------------------------------------------------------------------------
(* Where things go, and how much of them.                                  *)

LEMMA MinOfTwo ==
  ASSUME NEW a \in Int, NEW b \in Int
  PROVE  Min({a, b}) = IF a <= b THEN a ELSE b
BY DEF Min

LEMMA MinSlot ==
  ASSUME NEW S \in SUBSET Slots, S # {}
  PROVE  Min(S) \in S
<1>1. \A n \in S : n = 1 \/ n = 2
  BY Apartness
<1>2. CASE 1 \in S
  <2>1. \A m \in S : 1 <= m
    BY <1>1
  <2>2. Min(S) \in S /\ \A m \in S : Min(S) <= m
    BY <1>2, <2>1 DEF Min
  <2>. QED
    BY <2>2
<1>3. CASE 1 \notin S
  <2>1. 2 \in S /\ \A m \in S : 2 <= m
    BY <1>1, <1>3
  <2>2. Min(S) \in S /\ \A m \in S : Min(S) <= m
    BY <2>1 DEF Min
  <2>. QED
    BY <2>2
<1>. QED
  BY <1>2, <1>3

LEMMA RoomIsNat ==
  ASSUME NEW w, WorldOK(w), NEW c \in Cylinders, NEW k, NEW i, NEW n \in Nat \ {0}
  PROVE  Room(w, c, k, i, n) \in Nat
<1>. DEFINE there == ThingAt(w, c, k)
            grow  == IF i \in Coins /\ there \in Coins THEN MaxStack - w.amount[there] ELSE 0
            fresh == IF i \in Coins THEN MaxStack ELSE 1
            free  == BagSlots - Len(w.held[c])
            much  == IF free > 0 THEN free * fresh ELSE 0
<1>1. grow \in Nat /\ fresh \in Nat
  BY Apartness DEF WorldOK
<1>2. ASSUME c \in Bags
      PROVE  much \in Nat
  <2>1. Len(w.held[c]) \in Nat
    BY <1>2, LenProperties DEF WorldOK, HeldOK
  <2>2. free \in Int
    BY <2>1, Apartness
  <2>. HIDE DEF fresh, free
  <2>3. free > 0 => free * fresh \in Nat
    BY <1>1, <2>2
  <2>. QED
    BY <2>3
<1>3. Room(w, c, k, i, n) = CASE c = Ground    -> IF n = 0 THEN 1 ELSE n
                              [] c \in Bags    -> much + grow
                              [] c \in Players -> IF there = None THEN fresh ELSE grow
  BY DEF Room
<1>. HIDE DEF much, grow, fresh, there
<1>. QED
  BY <1>1, <1>2, <1>3, Apartness, ItemsAssumption

\* What __queryDestination answers.
Points(w, d) ==
  /\ d = [c |-> d.c, k |-> d.k, to |-> d.to]
  /\ d.c \in Cylinders /\ d.k \in Int /\ d.to \in Items \cup {None}
  /\ d.to # None => w.parent[d.to] = d.c
  /\ d.c \in Bags => d.k < BagSlots
  /\ d.c \in Players /\ d.k \in Slots => w.held[d.c][d.k] = d.to /\ d.to \notin Bags

LEMMA ThingThere ==
  ASSUME NEW w, WorldOK(w), Listed(w), NEW c \in Cylinders, NEW k \in Int, NEW i, i = ThingAt(w, c, k)
  PROVE  /\ i \in Items \cup {None} /\ (i # None => w.parent[i] = c)
         /\ c \in Players /\ k \in Slots => w.held[c][k] = i
<1>1. PICK n : i = IF n \in DOMAIN w.held[c] THEN w.held[c][n] ELSE None
  BY DEF ThingAt
<1>2. \A m \in DOMAIN w.held[c] : w.held[c][m] \in Items \cup {None}
  <2>1. w.held[c] \in [Slots -> Items \cup {None}] \cup Seq(Items)
    BY DEF WorldOK, HeldOK
  <2>2. CASE w.held[c] \in Seq(Items)
    BY <2>2, LenProperties, ElementOfSeq
  <2>. QED
    BY <2>1, <2>2
<1>3. i # None => i \in In(w, c) /\ i \in Items
  BY <1>1, <1>2 DEF In
<1>4. i \in Items \cup {None} /\ (i # None => w.parent[i] = c)
  BY <1>3 DEF Listed
<1>5. ASSUME c \in Players, k \in Slots
      PROVE  w.held[c][k] = i
  BY <1>5 DEF ThingAt, WorldOK, HeldOK
<1>. QED
  BY <1>4, <1>5

LEMMA DestinationOK ==
  ASSUME NEW w, WorldOK(w), Listed(w), NEW c \in Cylinders, NEW k \in Int, NEW i \in Items,
         NEW d, d = QueryDestination(w, c, k, i)
  PROVE  Points(w, d)
<1>1. WhereEver \in Int /\ WhereEver < BagSlots /\ WhereEver \notin Slots
  BY Apartness DEF WhereEver
<1>2. \A b \in Bags : b \in Cylinders /\ b \notin Players
  BY Apartness
<1>3. CASE c \in Players
  <2>1. QueryDestination(w, c, k, i) =
          IF k \in {0, WhereEver} THEN PlaceFor(w, c, i) ELSE SlotDestination(w, c, k)
    BY <1>3, ItemsAssumption DEF QueryDestination
  <2>2. CASE k \notin {0, WhereEver}
    <3>1. d = SlotDestination(w, c, k)
      BY <2>1, <2>2
    <3>2. /\ ThingAt(w, c, k) \in Items \cup {None}
          /\ ThingAt(w, c, k) # None => w.parent[ThingAt(w, c, k)] = c
          /\ k \in Slots => w.held[c][k] = ThingAt(w, c, k)
      BY <1>3, ThingThere
    <3>3. CASE ThingAt(w, c, k) \in Bags
      <4>1. d = [c |-> ThingAt(w, c, k), k |-> WhereEver, to |-> None]
        BY <3>1, <3>3 DEF SlotDestination
      <4>. QED
        BY <1>1, <1>2, <3>3, <4>1 DEF Points
    <3>4. CASE ThingAt(w, c, k) \notin Bags
      <4>1. d = [c |-> c, k |-> k, to |-> ThingAt(w, c, k)]
        BY <3>1, <3>4 DEF SlotDestination
      <4>. QED
        BY <1>2, <1>3, <3>2, <3>4, <4>1 DEF Points
    <3>. QED
      BY <3>3, <3>4
  <2>3. CASE k \in {0, WhereEver}
    <3>. DEFINE offered == w.trade[c].item
                slots == {n \in Slots : ThingAt(w, c, n) = None
                                         /\ PlayerQueryAdd(w, c, n, i, CountOf(w, i)) = "ok"}
                takes(b) == BagQueryAdd(w, b, WhereEver, i, CountOf(w, i)) = "ok"
                worn  == {n \in Slots : ThingAt(w, c, n) \in Bags \ {offered}}
                first == {n \in worn : takes(ThingAt(w, c, n))}
                deep  == {b \in Bags \ {offered} :
                            takes(b) /\ \E n \in worn : IsHolding(w, ThingAt(w, c, n), b)}
    <3>1. d = CASE slots # {} -> [c |-> c, k |-> Min(slots), to |-> None]
                [] slots = {} /\ first # {} ->
                     [c |-> ThingAt(w, c, Min(first)), k |-> WhereEver, to |-> None]
                [] slots = {} /\ first = {} /\ deep # {} ->
                     [c |-> CHOOSE b \in deep : TRUE, k |-> WhereEver, to |-> None]
                [] OTHER -> [c |-> c, k |-> WhereEver, to |-> None]
      BY <2>1, <2>3 DEF PlaceFor
    <3>2. slots \in SUBSET Slots /\ \A n \in slots : n \in Int /\ w.held[c][n] = None
      <4>1. \A n \in Slots : n \in Int
        BY Apartness
      <4>2. \A n \in Slots : w.held[c][n] = ThingAt(w, c, n)
        BY <1>3, <4>1, ThingThere
      <4>. QED
        BY <4>1, <4>2
    <3>3. first \in SUBSET Slots /\ \A n \in first : ThingAt(w, c, n) \in Bags
      OBVIOUS
    <3>4. deep \subseteq Bags
      OBVIOUS
    <3>. HIDE DEF slots, first, deep
    <3>5. CASE slots # {}
      <4>1. Min(slots) \in slots
        BY <3>2, <3>5, MinSlot
      <4>2. d = [c |-> c, k |-> Min(slots), to |-> None]
        BY <3>1, <3>5
      <4>3. d.c = c /\ d.k = Min(slots) /\ d.to = None
        BY <4>2
      <4>4. d.k \in Int /\ w.held[d.c][d.k] = None /\ None \notin Bags
        BY <3>2, <4>1, <4>3, Apartness
      <4>. QED
        BY <1>2, <1>3, <4>2, <4>3, <4>4 DEF Points
    <3>6. CASE slots = {} /\ first # {}
      <4>1. Min(first) \in first
        BY <3>3, <3>6, MinSlot
      <4>2. d = [c |-> ThingAt(w, c, Min(first)), k |-> WhereEver, to |-> None]
        BY <3>1, <3>6
      <4>. QED
        BY <1>1, <1>2, <3>3, <4>1, <4>2 DEF Points
    <3>7. CASE slots = {} /\ first = {} /\ deep # {}
      <4>1. PICK b \in Bags : d = [c |-> b, k |-> WhereEver, to |-> None]
        BY <3>1, <3>4, <3>7
      <4>. QED
        BY <1>1, <1>2, <4>1 DEF Points
    <3>8. CASE slots = {} /\ first = {} /\ deep = {}
      <4>1. d = [c |-> c, k |-> WhereEver, to |-> None]
        BY <3>1, <3>8
      <4>. QED
        BY <1>1, <1>2, <1>3, <4>1 DEF Points
    <3>. QED
      BY <3>5, <3>6, <3>7, <3>8
  <2>. QED
    BY <2>2, <2>3
<1>4. CASE c \in Bags
  <2>1. d = BagDestination(w, c, k, i)
    BY <1>2, <1>4, ItemsAssumption DEF QueryDestination
  <2>. DEFINE there == IF k = WhereEver THEN None ELSE ThingAt(w, c, k)
  <2>2. there \in Items \cup {None} /\ (there # None => w.parent[there] = c)
    BY ThingThere
  <2>3. d = CASE k = Up -> [c  |-> IF w.parent[c] \in Bags THEN w.parent[c] ELSE c,
                            k  |-> WhereEver, to |-> None]
              [] k # Up /\ there \in Bags -> [c |-> there, k |-> WhereEver, to |-> None]
              [] OTHER -> [c |-> c, k |-> IF k >= BagSlots THEN WhereEver ELSE k, to |-> there]
    BY <2>1 DEF BagDestination
  <2>. HIDE DEF there
  <2>4. CASE k = Up
    <3>1. PICK b \in Bags : d = [c |-> b, k |-> WhereEver, to |-> None]
      BY <1>4, <2>3, <2>4
    <3>. QED
      BY <1>1, <1>2, <3>1 DEF Points
  <2>5. CASE k # Up /\ there \in Bags
    <3>1. d = [c |-> there, k |-> WhereEver, to |-> None]
      BY <2>3, <2>5
    <3>. QED
      BY <1>1, <1>2, <2>5, <3>1 DEF Points
  <2>6. CASE k # Up /\ there \notin Bags
    <3>1. d = [c |-> c, k |-> IF k >= BagSlots THEN WhereEver ELSE k, to |-> there]
      BY <2>3, <2>6
    <3>2. d.k \in Int /\ d.k < BagSlots
      BY <1>1, <3>1, Apartness
    <3>. QED
      BY <1>2, <1>4, <2>2, <3>1, <3>2 DEF Points
  <2>. QED
    BY <2>4, <2>5, <2>6
<1>5. CASE c = Ground
  <2>1. d = [c |-> c, k |-> k, to |-> ThingAt(w, c, 0)]
    BY <1>5, ItemsAssumption DEF QueryDestination
  <2>2. /\ ThingAt(w, c, 0) \in Items \cup {None}
        /\ ThingAt(w, c, 0) # None => w.parent[ThingAt(w, c, 0)] = c
    BY ThingThere
  <2>. QED
    BY <1>5, <2>1, <2>2, ItemsAssumption DEF Points
<1>. QED
  BY <1>3, <1>4, <1>5, Apartness

-----------------------------------------------------------------------------
(* Game::internalMoveItem.                                                 *)

\* The other items stay somewhere, and at most one object is put to use.
Stay(w, v, i) == \A t \in Items : t # i /\ w.parent[t] # None => v.parent[t] # None
OneLess(w, v) == \E x : Unused(w) \subseteq Unused(v) \cup {x}

Fitting(w, d, m) ==
  Takes(w, d.c, d.k) \/ (d.to \in Coins /\ m <= MaxStack - w.amount[d.to])

InHand(w, i) == IF w.parent[i] = None THEN {i} ELSE {}

LEMMA PutCoinsOK ==
  ASSUME NEW w, NEW busy, NEW i \in Coins, WInv(w, InHand(w, i), busy),
         NEW d, d.c \in Cylinders, d.k \in Int, d.to # i,
         d.to \in Coins => w.parent[d.to] # None,
         NEW m \in 1..MaxStack, Fitting(w, d, m), Unused(w) # {}, NEW v, v = PutCoins(w, d, i, m)
  PROVE  /\ WInv(v, {}, busy) /\ Stay(w, v, i) /\ OneLess(w, v) /\ SameTrades(w, v, busy)
         /\ Tally(v) = Tally(w) + m
<1>. DEFINE hand == InHand(w, i)
            grows == d.to \in Coins
            n  == IF grows THEN Min({MaxStack - w.amount[d.to], m}) ELSE 0
            w1 == IF grows THEN UpdateThing(w, d.c, d.to, w.amount[d.to] + n) ELSE w
            w2 == IF m > n THEN CreateItem(w1, m - n) ELSE w1
            w3 == IF w.parent[i] = None THEN FreeThing(w2, i) ELSE w2
            j  == NewStack(w1)
<1>0. WorldOK(w) /\ StoredIn(w, hand) /\ hand \in SUBSET Items
  BY DEF WInv
<1>. Tally(w) \in Nat
  BY TallyIsNat
<1>1. v = IF m > n THEN AddThing(w3, d.c, d.k, j) ELSE w3
  BY DEF PutCoins
<1>2. /\ n \in 0..m
      /\ grows => w.amount[d.to] \in 1..MaxStack /\ w.amount[d.to] + n \in 1..MaxStack
      /\ m > n => Takes(w, d.c, d.k)
  <2>1. CASE grows
    <3>1. w.amount[d.to] \in 1..MaxStack
      BY <1>0, <2>1, Apartness DEF WorldOK, StoredIn, Kept
    <3>2. MaxStack - w.amount[d.to] \in Int /\ m \in Int /\ MaxStack \in Int
      BY <3>1, Apartness
    <3>3. n = IF MaxStack - w.amount[d.to] <= m THEN MaxStack - w.amount[d.to] ELSE m
      BY <2>1, <3>2, MinOfTwo
    <3>. HIDE DEF n
    <3>4. n \in 0..m /\ w.amount[d.to] + n \in 1..MaxStack
      BY <3>1, <3>2, <3>3
    <3>5. m > n => Takes(w, d.c, d.k)
      BY <3>1, <3>2, <3>3 DEF Fitting
    <3>. QED
      BY <3>1, <3>4, <3>5
  <2>2. CASE ~grows
    BY <2>2, Apartness DEF Fitting
  <2>. QED
    BY <2>1, <2>2
<1>3. /\ WInv(w1, hand, busy)
      /\ w1.parent = w.parent /\ w1.held = w.held /\ w1.refs = w.refs
      /\ SameTrades(w, w1, busy)
      /\ Tally(w1) = Tally(w) + n
  <2>1. CASE grows
    <3>. DEFINE a == w.amount[d.to] + n
    <3>1. w1 = UpdateThing(w, d.c, d.to, a)
      BY <2>1
    <3>2. a \in 1..MaxStack /\ a - w.amount[d.to] = n /\ d.to \in Coins /\ w.parent[d.to] # None
      BY <1>2, <2>1
    <3>. HIDE DEF n, w1, a, hand
    <3>3. /\ WInv(w1, hand, busy)
          /\ w1.parent = w.parent /\ w1.held = w.held /\ w1.refs = w.refs
          /\ AmountSet(w, w1, d.to, a) /\ SameTrades(w, w1, busy)
      BY <2>1, <3>1, <3>2, UpdateOK DEF hand
    <3>4. WorldOK(w1) /\ a \in 0..MaxStack
      BY <3>2, <3>3, Apartness DEF WInv
    <3>5. Tally(w1) = Tally(w) + n
      BY <1>0, <3>2, <3>3, <3>4, TallyAmount
    <3>. QED
      BY <3>3, <3>5
  <2>2. CASE ~grows
    BY <2>2 DEF SameTrades
  <2>. QED
    BY <2>1, <2>2
<1>4. Unused(w1) # {}
  BY <1>3 DEF Unused
<1>. DEFINE some == IF m > n THEN {j} ELSE {}
<1>5. /\ WInv(w2, hand \cup some, busy)
      /\ w2.parent = w.parent /\ w2.held = w.held
      /\ \A t \in Coins : t \notin some => w2.refs[t] = w.refs[t]
      /\ SameTrades(w, w2, busy)
      /\ hand \cap some = {}
      /\ Tally(w2) = Tally(w) + n
      /\ m > n => w2.amount[j] = m - n /\ w2.parent[j] = None
  <2>1. CASE m > n
    <3>. HIDE DEF n, w1, j, hand
    <3>. DEFINE a == m - n
    <3>1. w2 = CreateItem(w1, a) /\ some = {j}
      BY <2>1
    <3>2. a \in 1..MaxStack
      BY <1>2, <2>1, Apartness
    <3>3. j = NewStack(w1)
      BY DEF j
    <3>. HIDE DEF w2, some, a
    <3>4. /\ WInv(w2, hand \cup {j}, busy) /\ j \in Unused(w1) /\ j \notin hand
          /\ w2.parent = w1.parent /\ w2.held = w1.held /\ w2.trade = w1.trade
          /\ RefsSet(w1, w2, j, 1) /\ AmountSet(w1, w2, j, a)
      BY <1>3, <1>4, <3>1, <3>2, <3>3, CreateOK
    <3>5. \A t \in Coins : t # j => w2.refs[t] = w1.refs[t]
      BY <1>0, <1>3, <3>4, Apartness DEF WorldOK, RefsSet
    <3>6. WorldOK(w1) /\ WorldOK(w2) /\ j \in Coins /\ w2.parent[j] = None /\ a \in 0..MaxStack
      BY <1>3, <3>2, <3>4, Apartness DEF WInv, Unused, StoredIn, Kept
    <3>7. Tally(w2) = Tally(w1) /\ w2.amount[j] = a
      <4>1. Tally(w1) \in Nat
        BY TallyIsNat
      <4>2. Tally(w2) = Tally(w1) + 0
        BY <3>4, <3>6, TallyAmount
      <4>3. w2.amount[j] = a
        BY <3>4, <3>6 DEF WorldOK, AmountSet
      <4>. QED
        BY <4>1, <4>2, <4>3
    <3>. QED
      BY <1>3, <3>1, <3>4, <3>5, <3>6, <3>7 DEF SameTrades, a
  <2>2. CASE ~(m > n)
    <3>1. w2 = w1 /\ some = {}
      BY <2>2
    <3>. HIDE DEF n, w1, w2, some
    <3>. QED
      BY <1>3, <2>2, <3>1 DEF SameTrades
  <2>. QED
    BY <2>1, <2>2, Zenon
<1>. HIDE DEF n, w1, w2, j, some
<1>6. /\ WInv(w3, some, busy)
      /\ w3.parent = w.parent /\ w3.held = w.held
      /\ \A t \in Coins : t \notin some => w3.refs[t] = w.refs[t]
      /\ SameTrades(w, w3, busy)
      /\ Tally(w3) = Tally(w) + n
      /\ m > n => w3.amount[j] = m - n /\ w3.parent[j] = None
  <2>1. CASE w.parent[i] = None
    <3>1. w3 = FreeThing(w2, i) /\ hand = {i}
      BY <2>1 DEF InHand
    <3>. HIDE DEF w3
    <3>2. i \in hand \cup some
      BY <3>1
    <3>. HIDE DEF hand
    <3>3. /\ WInv(w3, (hand \cup some) \ {i}, busy)
          /\ w3.parent = w2.parent /\ w3.held = w2.held /\ w3.trade = w2.trade
          /\ w3.amount = w2.amount /\ w3.refs = w2.refs
      BY <1>5, <3>1, <3>2, FreeOK
    <3>4. (hand \cup some) \ {i} = some
      BY <1>5, <3>1
    <3>5. Tally(w3) = Tally(w2)
      BY <3>3, TallySame DEF Lying
    <3>. QED
      BY <1>5, <3>3, <3>4, <3>5 DEF SameTrades
  <2>2. CASE w.parent[i] # None
    <3>1. w3 = w2 /\ hand = {}
      BY <2>2 DEF InHand
    <3>2. hand \cup some = some
      BY <3>1
    <3>. HIDE DEF w3, hand
    <3>. QED
      BY <1>5, <3>1, <3>2
  <2>. QED
    BY <2>1, <2>2
<1>. HIDE DEF w3, hand
<1>7. CASE m > n
  <2>1. v = AddThing(w3, d.c, d.k, j) /\ some = {j} /\ Takes(w3, d.c, d.k)
    BY <1>1, <1>2, <1>6, <1>7 DEF some, Takes
  <2>2. /\ WInv(v, some \ {j}, busy)
        /\ ParentSet(w3, v, j, d.c) /\ v.refs = w3.refs
        /\ SameTrades(w3, v, busy) /\ v.amount = w3.amount
    <3>1. j \in some
      BY <2>1
    <3>2. PICK c \in Cylinders, k \in Int : c = d.c /\ k = d.k
      OBVIOUS
    <3>3. Takes(w3, c, k) /\ v = AddThing(w3, c, k, j)
      BY <2>1, <3>2
    <3>4. /\ WInv(v, some \ {j}, busy)
          /\ ParentSet(w3, v, j, c) /\ v.refs = w3.refs
          /\ SameTrades(w3, v, busy) /\ v.amount = w3.amount
      BY <1>6, <3>1, <3>3, AddOK
    <3>. QED
      BY <3>2, <3>4
  <2>3. some \ {j} = {}
    BY <2>1
  <2>4. Stay(w, v, i)
    BY <1>0, <1>6, <2>2, Apartness DEF Stay, WorldOK, ParentSet
  <2>5. Unused(w) \subseteq Unused(v) \cup {j}
    BY <1>6, <2>1, <2>2 DEF Unused
  <2>6. Tally(v) = Tally(w) + m
    <3>1. WorldOK(w3) /\ WorldOK(v)
      BY <1>6, <2>2 DEF WInv
    <3>2. j \in Coins /\ j \in Items /\ d.c # None
      <4>1. j \in Unused(w1)
        BY <1>4 DEF j, NewStack
      <4>2. j \in Coins
        BY <4>1 DEF Unused
      <4>. QED
        BY <4>2, Apartness
    <3>3. Tally(v) = Tally(w3) + w3.amount[j]
      BY <1>6, <1>7, <2>2, <3>1, <3>2, TallyPut
    <3>. QED
      BY <1>2, <1>6, <1>7, <3>3
  <2>. QED
    BY <1>6, <2>2, <2>3, <2>4, <2>5, <2>6 DEF SameTrades, OneLess
<1>8. CASE ~(m > n)
  <2>1. v = w3 /\ some = {}
    BY <1>1, <1>8 DEF some
  <2>2. Unused(w) \subseteq Unused(v) \cup {None}
    BY <1>6, <2>1 DEF Unused
  <2>3. Tally(v) = Tally(w) + m
    BY <1>2, <1>6, <1>8, <2>1
  <2>. QED
    BY <1>6, <2>1, <2>2, <2>3 DEF Stay, OneLess
<1>. QED
  BY <1>7, <1>8

\* What the second query makes sure of.
Arrives(w, d, i) ==
  /\ Points(w, d) /\ d.to # i
  /\ d.c \in Players => d.k \in Slots /\ (d.to # None => i \in Coins)

MoveOK(w, v, i, busy) ==
  /\ WInv(v, {}, busy) /\ Stay(w, v, i) /\ OneLess(w, v) /\ SameTrades(w, v, busy)
  /\ Tally(v) = Tally(w)

\* Nothing happens.
LEMMA NoMove ==
  ASSUME NEW w, NEW busy, WInv(w, {}, busy), NEW i
  PROVE  MoveOK(w, w, i, busy)
<1>1. Unused(w) \subseteq Unused(w) \cup {None}
  OBVIOUS
<1>. QED
  BY <1>1 DEF MoveOK, Stay, OneLess, SameTrades

\* What is taken out leaves room where it was to go.
LEMMA StillTakes ==
  ASSUME NEW w, NEW v, NEW c, NEW i, NEW d, Points(w, d),
         d.c \in Players => d.k \in Slots /\ d.to = None,
         OnlyIn(w, v, c), Emptied(w, v, c, i)
  PROVE  Takes(v, d.c, d.k)
<1>1. CASE d.c \in Players
  <2>1. d.k \in Slots /\ w.held[d.c][d.k] = None /\ d.c \in Cylinders /\ d.c \notin Bags
    BY <1>1, Apartness, ItemsAssumption DEF Points
  <2>2. CASE d.c = c
    BY <1>1, <2>1, <2>2 DEF Emptied, Takes
  <2>3. CASE d.c # c
    BY <1>1, <2>1, <2>3 DEF OnlyIn, Takes
  <2>. QED
    BY <2>2, <2>3
<1>2. CASE d.c \notin Players
  BY <1>2 DEF Points, Takes
<1>. QED
  BY <1>1, <1>2

\* Game::internalMoveItem once the queries are content.
LEMMA TransferOK ==
  ASSUME NEW w, NEW busy, WInv(w, {}, busy), NEW i \in Items, NEW from \in Cylinders,
         w.parent[i] = from, NEW d, Arrives(w, d, i), NEW n \in Nat \ {0}, Unused(w) # {},
         NEW v, v = Transfer(w, from, d, i, n)
  PROVE  MoveOK(w, v, i, busy)
<1>. DEFINE room == Room(w, d.c, d.k, i, n)
            m    == IF i \in Coins THEN Min({n, room}) ELSE room
            out  == RemoveThing(w, from, i, m)
            no   == \/ room = 0 /\ ~RoomSuffices(w, d.c, d.k, i, n)
                    \/ ~QueryRemove(w, from, i, m)
<1>0. WorldOK(w) /\ StoredIn(w, {})
  BY DEF WInv
<1>1. v = IF no THEN w ELSE IF i \in Coins THEN PutCoins(out, d, i, m)
                            ELSE AddThing(out, d.c, d.k, i)
  BY DEF Transfer
<1>2. CASE no
  BY <1>1, <1>2, NoMove
<1>3. CASE ~no
  <2>1. d.c \in Cylinders /\ d.k \in Int /\ d.to \in Items \cup {None} /\ d.to # i
        /\ (d.to # None => w.parent[d.to] = d.c)
    BY DEF Arrives, Points
  <2>2. room \in Nat
    BY <1>0, <2>1, RoomIsNat
  <2>3. QueryRemove(w, from, i, m)
    BY <1>3
  <2>. HIDE DEF room, no
  <2>4. m \in Nat \ {0}
    <3>1. m # 0
      BY <2>3 DEF QueryRemove
    <3>2. Min({n, room}) = IF n <= room THEN n ELSE room
      BY <2>2, MinOfTwo
    <3>. QED
      BY <2>2, <3>1, <3>2
  <2>5. i \in Coins => m <= w.amount[i] /\ w.amount[i] \in 0..MaxStack /\ m <= room
    <3>1. Min({n, room}) = IF n <= room THEN n ELSE room
      BY <2>2, MinOfTwo
    <3>. QED
      BY <1>0, <2>2, <2>3, <3>1 DEF QueryRemove, WorldOK
  <2>. HIDE DEF m
  <2>6. CASE Whole(w, i, m)
    <3>. HIDE DEF out
    <3>1. /\ WInv(out, {} \cup {i}, busy)
          /\ ParentSet(w, out, i, None)
          /\ OnlyIn(w, out, from) /\ Emptied(w, out, from, i)
          /\ out.amount = w.amount /\ out.refs = w.refs
          /\ SameTrades(w, out, busy)
      BY <2>6, RemoveAllOK DEF out
    <3>2. \A t \in Items : out.parent[t] = IF t = i THEN None ELSE w.parent[t]
      BY <1>0, <3>1 DEF ParentSet, WorldOK
    <3>3. Unused(out) = Unused(w)
      BY <3>1 DEF Unused
    <3>4. {} \cup {i} = {i} /\ InHand(out, i) = {i} /\ WorldOK(out) /\ from # None
      BY <3>1, <3>2, Apartness DEF InHand, WInv
    <3>9. Tally(out) = Tally(w) - (IF i \in Coins THEN w.amount[i] ELSE 0) /\ Tally(w) \in Nat
      BY <1>0, <3>1, <3>4, TallyTake, TallyIsNat
    <3>5. CASE i \in Coins
      <4>1. Fitting(out, d, m)
        <5>1. CASE d.c \in Players /\ d.to # None
          <6>1. d.to \in Coins /\ w.held[d.c][d.k] = d.to /\ d.k \in Slots
            BY <5>1, Apartness DEF Arrives, Points
          <6>2. ThingAt(w, d.c, d.k) = d.to
            BY <1>0, <5>1, <6>1, <2>1, ThingThere DEF StoredIn
          <6>3. room = MaxStack - w.amount[d.to]
            BY <3>5, <5>1, <6>1, <6>2, Apartness, ItemsAssumption DEF room, Room
          <6>. QED
            BY <2>5, <3>1, <3>5, <6>1, <6>3 DEF Fitting
        <5>2. CASE ~(d.c \in Players /\ d.to # None)
          <6>1. Takes(out, d.c, d.k)
            BY <3>1, <5>2, StillTakes DEF Arrives
          <6>. QED
            BY <6>1 DEF Fitting
        <5>. QED
          BY <5>1, <5>2
      <4>2. m \in 1..MaxStack
        BY <2>4, <2>5, <3>5, Apartness
      <4>3. d.to \in Coins => out.parent[d.to] # None
        BY <2>1, <3>2, Apartness
      <4>4. v = PutCoins(out, d, i, m)
        BY <1>1, <1>3, <3>5 DEF out
      <4>5. /\ WInv(v, {}, busy) /\ Stay(out, v, i) /\ OneLess(out, v) /\ SameTrades(out, v, busy)
            /\ Tally(v) = Tally(out) + m
        BY <2>1, <3>1, <3>3, <3>4, <3>5, <4>1, <4>2, <4>3, <4>4, PutCoinsOK
      <4>6. Tally(v) = Tally(w)
        BY <2>4, <2>5, <2>6, <3>5, <3>9, <4>5 DEF Whole
      <4>. QED
        BY <3>1, <3>2, <3>3, <4>5, <4>6 DEF MoveOK, Stay, OneLess, SameTrades
    <3>6. CASE i \notin Coins
      <4>1. Takes(out, d.c, d.k)
        BY <3>1, <3>6, StillTakes DEF Arrives
      <4>2. PICK c \in Cylinders, k \in Int : c = d.c /\ k = d.k
        BY <2>1
      <4>3. v = AddThing(out, c, k, i) /\ Takes(out, c, k)
        BY <1>1, <1>3, <3>6, <4>1, <4>2 DEF out
      <4>4. WInv(out, {i}, busy) /\ i \in {i}
        BY <3>1, <3>4
      <4>5. /\ WInv(v, {i} \ {i}, busy) /\ ParentSet(out, v, i, c) /\ v.refs = out.refs
            /\ SameTrades(out, v, busy) /\ v.amount = out.amount
        BY <4>3, <4>4, AddOK
      <4>6. {i} \ {i} = {}
        OBVIOUS
      <4>7. out.parent \in [Items -> Cylinders \cup {None}]
        BY <3>1 DEF WInv, WorldOK
      <4>8. Stay(w, v, i)
        BY <3>2, <4>5, <4>7, Apartness DEF Stay, ParentSet
      <4>9. Unused(w) \subseteq Unused(v) \cup {None}
        BY <3>3, <4>5 DEF Unused
      <4>10. Tally(v) = Tally(w)
        <5>1. WorldOK(v) /\ out.parent[i] = None /\ c # None
          BY <3>2, <4>5, Apartness DEF WInv
        <5>2. Tally(v) = Tally(out) + (IF i \in Coins THEN out.amount[i] ELSE 0)
          BY <3>4, <4>5, <5>1, TallyPut
        <5>. QED
          BY <3>6, <3>9, <5>2
      <4>. QED
        BY <3>1, <4>5, <4>6, <4>8, <4>9, <4>10 DEF MoveOK, OneLess, SameTrades
    <3>. QED
      BY <3>5, <3>6
  <2>7. CASE ~Whole(w, i, m)
    <3>1. i \in Coins /\ m < w.amount[i]
      BY <2>4, <2>5, <2>7 DEF Whole
    <3>. HIDE DEF out
    <3>2. /\ WInv(out, {}, busy)
          /\ out.parent = w.parent /\ out.held = w.held /\ out.refs = w.refs
          /\ AmountSet(w, out, i, w.amount[i] - m)
          /\ SameTrades(w, out, busy)
      BY <2>4, <3>1, RemovePartOK DEF out
    <3>3. Unused(out) = Unused(w)
      BY <3>2 DEF Unused
    <3>4. InHand(out, i) = {}
      BY <3>2, Apartness DEF InHand
    <3>5. \A t \in Coins : t # i => out.amount[t] = w.amount[t]
      BY <1>0, <3>2 DEF AmountSet, WorldOK
    <3>6. Fitting(out, d, m)
      <4>1. CASE d.c \in Players /\ d.to # None
        <5>1. d.to \in Coins /\ w.held[d.c][d.k] = d.to /\ d.k \in Slots
          BY <4>1, Apartness DEF Arrives, Points
        <5>2. ThingAt(w, d.c, d.k) = d.to
          BY <1>0, <4>1, <5>1, <2>1, ThingThere DEF StoredIn
        <5>3. room = MaxStack - w.amount[d.to]
          BY <3>1, <4>1, <5>1, <5>2, Apartness, ItemsAssumption DEF room, Room
        <5>. QED
          BY <2>1, <2>5, <3>1, <3>5, <5>1, <5>3 DEF Fitting
      <4>2. CASE ~(d.c \in Players /\ d.to # None)
        <5>1. Takes(out, d.c, d.k)
          BY <3>2, <4>2 DEF Arrives, Points, Takes
        <5>. QED
          BY <5>1 DEF Fitting
      <4>. QED
        BY <4>1, <4>2
    <3>7. m \in 1..MaxStack
      BY <2>4, <2>5, <3>1, Apartness
    <3>8. d.to \in Coins => out.parent[d.to] # None
      BY <2>1, <3>2, Apartness
    <3>9. v = PutCoins(out, d, i, m)
      BY <1>1, <1>3, <3>1 DEF out
    <3>10. /\ WInv(v, {}, busy) /\ Stay(out, v, i) /\ OneLess(out, v) /\ SameTrades(out, v, busy)
           /\ Tally(v) = Tally(out) + m
      <4>1. WInv(out, InHand(out, i), busy) /\ Unused(out) # {}
        BY <3>2, <3>3, <3>4
      <4>. QED
        BY <2>1, <3>1, <3>6, <3>7, <3>8, <3>9, <4>1, PutCoinsOK
    <3>11. Tally(v) = Tally(w)
      <4>1. WorldOK(out) /\ w.amount[i] - m \in 0..MaxStack /\ w.parent[i] # None
        BY <2>4, <2>5, <3>1, <3>2, Apartness DEF WInv
      <4>2. Tally(out) = Tally(w) + ((w.amount[i] - m) - w.amount[i])
        BY <1>0, <3>1, <3>2, <4>1, TallyAmount
      <4>3. Tally(w) \in Nat
        BY TallyIsNat
      <4>. QED
        BY <2>4, <2>5, <3>1, <3>10, <4>2, <4>3
    <3>. QED
      BY <3>2, <3>3, <3>10, <3>11 DEF MoveOK, Stay, OneLess, SameTrades
  <2>. QED
    BY <2>6, <2>7
<1>. QED
  BY <1>2, <1>3

\* What lies in the slot goes to where the item comes from.
LEMMA ExchangeOK ==
  ASSUME NEW w, NEW busy, WInv(w, {}, busy), NEW from \in Cylinders, from \notin Players,
         NEW d, Points(w, d), d.c \in Players, d.k \in Slots, d.to # None,
         NEW v, v = Exchange(w, from, d)
  PROVE  /\ WInv(v, {}, busy) /\ v.held[d.c][d.k] = None
         /\ \A t \in Items : v.parent[t] = IF t = d.to THEN from ELSE w.parent[t]
         /\ v.amount = w.amount /\ v.refs = w.refs /\ SameTrades(w, v, busy)
         /\ Tally(v) = Tally(w)
<1>. DEFINE n   == CountOf(w, d.to)
            out == RemoveThing(w, d.c, d.to, n)
<1>0. WorldOK(w) /\ StoredIn(w, {})
  BY DEF WInv
<1>1. PICK c \in Cylinders, i \in Items, k \in Slots :
        c = d.c /\ i = d.to /\ k = d.k /\ w.parent[i] = c /\ w.held[c][k] = i
  BY DEF Points
<1>2. Whole(w, i, n)
  BY <1>1 DEF Whole, CountOf
<1>3. v = AddThing(out, from, 0, i) /\ out = RemoveThing(w, c, i, n)
  BY <1>1 DEF Exchange
<1>. HIDE DEF n, out
<1>4. /\ WInv(out, {} \cup {i}, busy)
      /\ ParentSet(w, out, i, None)
      /\ OnlyIn(w, out, c) /\ Emptied(w, out, c, i)
      /\ out.amount = w.amount /\ out.refs = w.refs
      /\ SameTrades(w, out, busy)
  BY <1>1, <1>2, <1>3, RemoveAllOK
<1>5. WInv(out, {i}, busy) /\ i \in {i} /\ 0 \in Int /\ Takes(out, from, 0)
  <2>1. {} \cup {i} = {i}
    OBVIOUS
  <2>. QED
    BY <1>4, <2>1, Apartness DEF Takes
<1>6. /\ WInv(v, {i} \ {i}, busy)
      /\ ParentSet(out, v, i, from) /\ OnlyIn(out, v, from)
      /\ v.amount = out.amount /\ v.refs = out.refs
      /\ SameTrades(out, v, busy)
  BY <1>3, <1>5, AddOK
<1>7. {i} \ {i} = {}
  OBVIOUS
<1>8. out.parent \in [Items -> Cylinders \cup {None}]
  BY <1>4 DEF WInv, WorldOK
<1>9. \A t \in Items : v.parent[t] = IF t = i THEN from ELSE w.parent[t]
  BY <1>0, <1>4, <1>6, <1>8 DEF ParentSet, WorldOK
<1>10. v.held[c][k] = None
  <2>1. v.held[c] = out.held[c]
    BY <1>1, <1>6 DEF OnlyIn
  <2>. QED
    BY <1>1, <1>4, <2>1 DEF Emptied
<1>11. Tally(v) = Tally(w)
  <2>1. WorldOK(out) /\ WorldOK(v) /\ w.parent[i] # None /\ from # None
    BY <1>1, <1>4, <1>6, Apartness DEF WInv
  <2>2. out.parent[i] = None
    BY <1>0, <1>4 DEF ParentSet, WorldOK
  <2>3. Tally(out) = Tally(w) - (IF i \in Coins THEN w.amount[i] ELSE 0)
    BY <1>0, <1>4, <2>1, TallyTake
  <2>4. Tally(v) = Tally(out) + (IF i \in Coins THEN out.amount[i] ELSE 0)
    BY <1>6, <2>1, <2>2, TallyPut
  <2>5. Tally(w) \in Nat /\ (i \in Coins => w.amount[i] \in Nat)
    BY <1>0, TallyIsNat, Apartness DEF WorldOK
  <2>. QED
    BY <1>4, <2>3, <2>4, <2>5
<1>. QED
  BY <1>1, <1>4, <1>6, <1>7, <1>9, <1>10, <1>11 DEF SameTrades

LEMMA PlayerIndex ==
  ASSUME NEW w, WorldOK(w), Listed(w), NEW i \in Items, NEW c \in Players, w.parent[i] = c
  PROVE  IndexOf(w, c, i) \in Slots /\ ThingAt(w, c, IndexOf(w, c, i)) = i
<1>1. c \in Cylinders /\ i \in In(w, c)
  BY Apartness DEF Listed
<1>2. DOMAIN w.held[c] = Slots
  BY DEF WorldOK, HeldOK
<1>3. \E n \in Slots : w.held[c][n] = i
  BY <1>1, <1>2 DEF In
<1>4. IndexOf(w, c, i) \in Slots /\ w.held[c][IndexOf(w, c, i)] = i
  BY <1>2, <1>3 DEF IndexOf
<1>. QED
  BY <1>2, <1>4 DEF ThingAt

LEMMA MoveItemOK ==
  ASSUME NEW w, NEW busy, WInv(w, {}, busy), NEW i \in Items, NEW from \in Cylinders,
         w.parent[i] = from, NEW to \in Cylinders, NEW k \in Int, NEW n \in Nat \ {0},
         Unused(w) # {}, NEW v, v = InternalMoveItem(w, from, to, k, i, n)
  PROVE  MoveOK(w, v, i, busy)
<1>. DEFINE d     == QueryDestination(w, to, k, i)
            first == QueryAdd(w, d.c, d.k, i, n)
            swap  == Exchange(w, from, d)
            e     == [d EXCEPT !.to = None]
<1>0. WorldOK(w) /\ StoredIn(w, {})
  BY DEF WInv
<1>1. v = CASE i = d.to -> w
            [] i # d.to /\ first = "ok" -> Transfer(w, from, d, i, n)
            [] i # d.to /\ first = "exchange" /\ CanExchange(w, from, d, i) ->
                 IF QueryAdd(swap, d.c, d.k, i, n) = "ok" THEN Transfer(swap, from, e, i, n) ELSE swap
            [] OTHER -> w
  BY DEF InternalMoveItem
<1>2. Points(w, d)
  BY <1>0, DestinationOK DEF StoredIn
<1>3. d = [c |-> d.c, k |-> d.k, to |-> d.to] /\ d.c \in Cylinders /\ d.k \in Int
      /\ d.to \in Items \cup {None}
  BY <1>2 DEF Points
<1>. HIDE DEF d
<1>4. d.c \in Players =>
        first = PlayerQueryAdd(w, d.c, d.k, i, n)
  BY ItemsAssumption DEF QueryAdd
<1>5. d.c \in Players /\ d.k \in Slots => ThingAt(w, d.c, d.k) = d.to /\ d.to \notin Bags
  BY <1>0, <1>2, <1>3, ThingThere DEF Points, StoredIn
<1>6. CASE i # d.to /\ first = "ok"
  <2>1. Arrives(w, d, i)
    <3>1. ASSUME d.c \in Players
          PROVE  d.k \in Slots /\ (d.to # None => i \in Coins)
      BY <1>4, <1>5, <1>6, <3>1, Apartness DEF PlayerQueryAdd
    <3>. QED
      BY <1>2, <1>6, <3>1 DEF Arrives
  <2>2. v = Transfer(w, from, d, i, n)
    BY <1>1, <1>6
  <2>. HIDE DEF first, swap, e
  <2>. QED
    BY <2>1, <2>2, TransferOK
<1>7. CASE i # d.to /\ first = "exchange" /\ CanExchange(w, from, d, i)
  <2>1. d.c \in Players /\ d.k \in Slots /\ d.to # None /\ i \in Bags
    <3>1. d.c \in Players
      BY <1>3, <1>7, Apartness, ItemsAssumption DEF QueryAdd, BagQueryAdd
    <3>. QED
      BY <1>4, <1>5, <1>7, <3>1 DEF PlayerQueryAdd
  <2>2. from \notin Players
    <3>. SUFFICES ASSUME from \in Players
                  PROVE  FALSE
      OBVIOUS
    <3>1. IndexOf(w, from, i) \in Slots /\ ThingAt(w, from, IndexOf(w, from, i)) = i
      BY <1>0, PlayerIndex DEF StoredIn
    <3>2. PlayerQueryAdd(w, from, IndexOf(w, from, i), d.to, CountOf(w, d.to)) = "ok"
      BY <1>7, ItemsAssumption DEF CanExchange, QueryAdd
    <3>3. i # None /\ i \in {i, d.to} \cap Bags
      BY <2>1, Apartness
    <3>. QED
      BY <3>1, <3>2, <3>3 DEF PlayerQueryAdd
  <2>3. v = IF QueryAdd(swap, d.c, d.k, i, n) = "ok" THEN Transfer(swap, from, e, i, n) ELSE swap
    BY <1>1, <1>7
  <2>4. e.c = d.c /\ e.k = d.k /\ e.to = None /\ e = [c |-> e.c, k |-> e.k, to |-> e.to]
    BY <1>3
  <2>. HIDE DEF first, swap, e
  <2>5. /\ WInv(swap, {}, busy) /\ swap.held[d.c][d.k] = None
        /\ \A t \in Items : swap.parent[t] = IF t = d.to THEN from ELSE w.parent[t]
        /\ swap.amount = w.amount /\ swap.refs = w.refs /\ SameTrades(w, swap, busy)
        /\ Tally(swap) = Tally(w)
    BY <1>2, <2>1, <2>2, ExchangeOK DEF swap
  <2>6. swap.parent[i] = from /\ Unused(swap) = Unused(w)
    BY <1>7, <2>5 DEF Unused
  <2>7. Arrives(swap, e, i)
    BY <1>3, <2>1, <2>4, <2>5, Apartness, ItemsAssumption DEF Arrives, Points
  <2>8. MoveOK(swap, v, i, busy)
    <3>1. CASE v = Transfer(swap, from, e, i, n)
      BY <2>5, <2>6, <2>7, <3>1, TransferOK
    <3>2. CASE v = swap
      BY <2>5, <3>2, NoMove
    <3>. QED
      BY <2>3, <3>1, <3>2
  <2>9. Stay(w, swap, i)
    BY <2>5, Apartness DEF Stay
  <2>. QED
    BY <2>5, <2>6, <2>8, <2>9 DEF MoveOK, Stay, OneLess, SameTrades
<1>8. CASE i = d.to \/ ~(first = "ok" \/ (first = "exchange" /\ CanExchange(w, from, d, i)))
  <2>1. v = w
    BY <1>1, <1>8
  <2>. QED
    BY <2>1, NoMove
<1>. QED
  BY <1>6, <1>7, <1>8

-----------------------------------------------------------------------------
(* The tasks.                                                              *)

\* Game::internalRemoveItem of coins that lie somewhere.
LEMMA RemoveItemOK ==
  ASSUME NEW w, NEW busy, WInv(w, {}, busy), NEW i \in Coins, NEW n \in 1..w.amount[i],
         w.parent[i] # None, NEW v, v = InternalRemoveItem(w, i, n)
  PROVE  WInv(v, {}, busy) /\ Tally(v) = Tally(w) - n
<1>. DEFINE w1 == RemoveThing(w, w.parent[i], i, n)
<1>0. WorldOK(w) /\ w.parent[i] \in Cylinders /\ i \in Items
  BY Apartness DEF WInv, WorldOK
<1>1. w.amount[i] \in 0..MaxStack /\ n \in Nat \ {0} /\ n <= w.amount[i] /\ Tally(w) \in Nat
  BY <1>0, TallyIsNat DEF WorldOK
<1>2. v = IF w1.parent[i] = None THEN FreeThing(w1, i) ELSE w1
  BY DEF InternalRemoveItem
<1>3. CASE n = w.amount[i]
  <2>1. Whole(w, i, n)
    BY <1>3 DEF Whole
  <2>2. PICK c \in Cylinders : c = w.parent[i] /\ w1 = RemoveThing(w, c, i, n)
    BY <1>0
  <2>. HIDE DEF w1
  <2>3. WInv(w1, {} \cup {i}, busy) /\ ParentSet(w, w1, i, None) /\ w1.amount = w.amount
    BY <1>0, <2>1, <2>2, RemoveAllOK
  <2>4. w1.parent[i] = None
    BY <1>0, <2>3 DEF ParentSet, WorldOK
  <2>5. v = FreeThing(w1, i) /\ i \in {} \cup {i}
    BY <1>2, <2>4
  <2>6. WInv(v, ({} \cup {i}) \ {i}, busy) /\ v.parent = w1.parent /\ v.amount = w1.amount
    BY <2>3, <2>5, FreeOK
  <2>7. ({} \cup {i}) \ {i} = {}
    OBVIOUS
  <2>8. Tally(v) = Tally(w1)
    BY <2>6, TallySame DEF Lying
  <2>9. WorldOK(w1)
    BY <2>3 DEF WInv
  <2>10. Tally(w1) = Tally(w) - w.amount[i]
    BY <1>0, <2>3, <2>9, TallyTake
  <2>. QED
    BY <1>3, <2>6, <2>7, <2>8, <2>10
<1>4. CASE n # w.amount[i]
  <2>1. n < w.amount[i]
    BY <1>1, <1>4
  <2>2. PICK c \in Cylinders : c = w.parent[i] /\ w1 = RemoveThing(w, c, i, n)
    BY <1>0
  <2>. HIDE DEF w1
  <2>3. WInv(w1, {}, busy) /\ w1.parent = w.parent /\ AmountSet(w, w1, i, w.amount[i] - n)
    BY <1>1, <2>1, <2>2, RemovePartOK
  <2>4. WorldOK(w1) /\ w.amount[i] - n \in 0..MaxStack
    <3>1. WorldOK(w1)
      BY <2>3 DEF WInv
    <3>. QED
      BY <1>1, <3>1, Apartness
  <2>5. Tally(w1) = Tally(w) + ((w.amount[i] - n) - w.amount[i])
    BY <1>0, <2>3, <2>4, TallyAmount
  <2>6. Tally(w1) = Tally(w) - n
    BY <1>1, <2>5
  <2>. QED
    BY <1>2, <2>3, <2>6
<1>. QED
  BY <1>3, <1>4

\* What concerns trades and references only.
SameItems(w, v) == v.parent = w.parent /\ v.held = w.held /\ v.amount = w.amount

LEMMA TradesWorld ==
  ASSUME NEW w, WorldOK(w), NEW re \in [Items -> Nat], NEW tr \in [Items -> Nat],
         NEW td \in [Players -> TradeRecord], NEW ti \in SUBSET Items, NEW cr \in BOOLEAN, NEW v,
         v = WorldOf(w.parent, w.held, w.amount, w.weight, re, tr, td, ti, cr)
  PROVE  WorldOK(v) /\ SameItems(w, v)
<1>1. /\ v.parent = w.parent /\ v.held = w.held /\ v.amount = w.amount /\ v.weight = w.weight
      /\ v.refs = re /\ v.toRelease = tr /\ v.trade = td /\ v.tradeItems = ti /\ v.crashed = cr
  BY Parts
<1>2. HeldOK(v)
  BY <1>1 DEF WorldOK, HeldOK
<1>3. WorldOK(v)
  BY <1>1, <1>2 DEF WorldOK
<1>. QED
  BY <1>1, <1>3 DEF SameItems

LEMMA TradesOK ==
  ASSUME NEW w, NEW busy, WInv(w, {}, busy), NEW v, WorldOK(v), SameItems(w, v),
         NEW bz \in SUBSET Players, Counted(v, {}), Agreed(v, bz)
  PROVE  WInv(v, {}, bz)
<1>1. StoredIn(w, {})
  BY DEF WInv
<1>2. StoredIn(v, {})
  BY <1>1 DEF SameItems, StoredIn, Listed, Singly, Kept, In
<1>. QED
  BY <1>2 DEF WInv

LEMMA TallyItems ==
  ASSUME NEW w, NEW v, SameItems(w, v)
  PROVE  Tally(v) = Tally(w)
BY TallySame DEF SameItems, Lying

\* One player's trade.
TradeSet(w, p, t) == [w EXCEPT !.trade[p] = t]

OnlyTrades(w, v) ==
  /\ SameItems(w, v) /\ v.refs = w.refs /\ v.toRelease = w.toRelease
  /\ v.tradeItems = w.tradeItems

LEMMA TradeSetIs ==
  ASSUME NEW w, WorldOK(w), NEW p \in Players, NEW t \in TradeRecord, NEW v, v = TradeSet(w, p, t)
  PROVE  /\ WorldOK(v) /\ OnlyTrades(w, v)
         /\ \A r \in Players : v.trade[r] = IF r = p THEN t ELSE w.trade[r]
<1>. DEFINE td == [w.trade EXCEPT ![p] = t]
            w0 == WorldOf(w.parent, w.held, w.amount, w.weight, w.refs, w.toRelease,
                          w.trade, w.tradeItems, w.crashed)
<1>1. td \in [Players -> TradeRecord] /\ \A r \in Players : td[r] = IF r = p THEN t ELSE w.trade[r]
  BY DEF WorldOK
<1>2. v = [w EXCEPT !.trade = td]
  BY DEF TradeSet
<1>. HIDE DEF td
<1>3. v = [w0 EXCEPT !.trade = td]
  BY <1>2 DEF WorldOK
<1>4. v = WorldOf(w.parent, w.held, w.amount, w.weight, w.refs, w.toRelease, td, w.tradeItems, w.crashed)
  BY <1>3 DEF WorldOf
<1>5. /\ w.refs \in [Items -> Nat] /\ w.toRelease \in [Items -> Nat]
      /\ w.tradeItems \in SUBSET Items /\ w.crashed \in BOOLEAN
  BY DEF WorldOK
<1>6. WorldOK(v) /\ SameItems(w, v)
  BY <1>1, <1>4, <1>5, TradesWorld
<1>7. v.refs = w.refs /\ v.toRelease = w.toRelease /\ v.trade = td /\ v.tradeItems = w.tradeItems
  BY <1>4, Parts
<1>. QED
  BY <1>1, <1>6, <1>7 DEF OnlyTrades

\* One player's state of trade.
StateSet(w, p, x) == [w EXCEPT !.trade[p].state = x]

StateIs(w, v, p, x) ==
  \A r \in Players : /\ v.trade[r].item = w.trade[r].item
                     /\ v.trade[r].partner = w.trade[r].partner
                     /\ v.trade[r].state = IF r = p THEN x ELSE w.trade[r].state

LEMMA StateSetIs ==
  ASSUME NEW w, WorldOK(w), NEW p \in Players,
         NEW x \in {"none", "ack", "init", "accept", "transfer"}, NEW v, v = StateSet(w, p, x)
  PROVE  WorldOK(v) /\ OnlyTrades(w, v) /\ StateIs(w, v, p, x)
<1>. DEFINE t == [w.trade[p] EXCEPT !.state = x]
<1>1. ASSUME NEW u \in TradeRecord, NEW y, y = [u EXCEPT !.state = x]
      PROVE  y \in TradeRecord /\ y.state = x /\ y.item = u.item /\ y.partner = u.partner
  BY <1>1 DEF TradeRecord
<1>2. w.trade[p] \in TradeRecord
  BY DEF WorldOK
<1>3. t \in TradeRecord /\ t.state = x /\ t.item = w.trade[p].item /\ t.partner = w.trade[p].partner
  BY <1>1, <1>2
<1>4. v = TradeSet(w, p, t)
  BY DEF TradeSet, StateSet
<1>. HIDE DEF t
<1>5. /\ WorldOK(v) /\ OnlyTrades(w, v)
      /\ \A r \in Players : v.trade[r] = IF r = p THEN t ELSE w.trade[r]
  BY <1>3, <1>4, TradeSetIs
<1>. QED
  BY <1>3, <1>5 DEF StateIs

\* Game::internalStartTrade
CanStart(w, p, q, i) ==
  /\ p # q /\ i \notin w.tradeItems
  /\ w.trade[p].state = "none" \/ (w.trade[p].state = "ack" /\ w.trade[p].partner = q)
  /\ w.trade[q].state # "none" => w.trade[q].partner = p

LEMMA StartTradeOK ==
  ASSUME NEW w, WInv(w, {}, {}), NEW p \in Players, NEW q \in Players, NEW i \in Items,
         CanStart(w, p, q, i), NEW v, v = InternalStartTrade(w, p, q, i)
  PROVE  WInv(v, {}, {}) /\ Tally(v) = Tally(w)
<1>. DEFINE tp == [state |-> "init", item |-> i, partner |-> q]
            tq == [state |-> "ack", item |-> w.trade[q].item, partner |-> p]
            td == [r \in Players |-> IF r = p THEN tp
                                     ELSE IF r = q /\ w.trade[q].state = "none" THEN tq
                                     ELSE w.trade[r]]
            re == [w.refs EXCEPT ![i] = w.refs[i] + 1]
            ti == w.tradeItems \cup {i}
            w0 == WorldOf(w.parent, w.held, w.amount, w.weight, w.refs, w.toRelease,
                          w.trade, w.tradeItems, w.crashed)
<1>0. WorldOK(w) /\ Counted(w, {}) /\ Agreed(w, {})
  BY DEF WInv
<1>1. /\ p # q /\ i \notin w.tradeItems
      /\ w.trade[p].state = "none" \/ (w.trade[p].state = "ack" /\ w.trade[p].partner = q)
      /\ w.trade[q].state # "none" => w.trade[q].partner = p
  BY DEF CanStart
<1>2. \A r \in Players : w.trade[r] \in TradeRecord
  BY <1>0 DEF WorldOK
<1>3. tp \in TradeRecord /\ tq \in TradeRecord
  BY <1>2 DEF TradeRecord
<1>4. v = WorldOf(w.parent, w.held, w.amount, w.weight, re, w.toRelease, td, ti, w.crashed)
  <2>. DEFINE t1 == [w.trade EXCEPT ![p] = tp]
              w1 == WorldOf(w.parent, w.held, w.amount, w.weight, re, w.toRelease, t1, ti, w.crashed)
  <2>1. w = w0
    BY <1>0 DEF WorldOK
  <2>2. [w EXCEPT !.trade[p] = tp, !.refs[i] = @ + 1, !.tradeItems = @ \cup {i}]
          = [w EXCEPT !.trade = t1, !.refs = re, !.tradeItems = ti]
    OBVIOUS
  <2>3. [w EXCEPT !.trade = t1, !.refs = re, !.tradeItems = ti] = w1
    <3>. HIDE DEF t1, re, ti
    <3>1. ASSUME NEW u, u = [w0 EXCEPT !.trade = t1, !.refs = re, !.tradeItems = ti]
          PROVE  u = w1
      BY <3>1 DEF WorldOf
    <3>. QED
      BY <2>1, <3>1
  <2>4. w1.trade = t1
    <3>. HIDE DEF t1, re, ti
    <3>. QED
      BY Parts
  <2>5. t1 \in [Players -> TradeRecord] /\ t1[q] = w.trade[q]
    BY <1>0, <1>1, <1>3 DEF WorldOK
  <2>6. CASE w.trade[q].state # "none"
    <3>1. v = w1
      BY <2>2, <2>3, <2>6 DEF InternalStartTrade
    <3>2. t1 = td
      BY <1>0, <2>6 DEF WorldOK
    <3>. HIDE DEF t1, td, re, ti
    <3>. QED
      BY <3>1, <3>2
  <2>7. CASE w.trade[q].state = "none"
    <3>. DEFINE t2 == [t1 EXCEPT ![q] = tq]
    <3>1. v = [w1 EXCEPT !.trade[q] = [@ EXCEPT !.state = "ack", !.partner = p]]
      BY <2>2, <2>3, <2>7 DEF InternalStartTrade
    <3>2. [w.trade[q] EXCEPT !.state = "ack", !.partner = p] = tq
      <4>1. ASSUME NEW t \in TradeRecord, NEW u, u = [t EXCEPT !.state = "ack", !.partner = p]
            PROVE  u = [state |-> "ack", item |-> t.item, partner |-> p]
        BY <4>1 DEF TradeRecord
      <4>. QED
        BY <1>2, <4>1
    <3>3. t2 = td
      BY <1>0, <1>1, <2>7 DEF WorldOK
    <3>. HIDE DEF w1
    <3>4. v = [w1 EXCEPT !.trade = t2]
      <4>. HIDE DEF t1, tq
      <4>. QED
        BY <2>4, <2>5, <3>1, <3>2
    <3>. HIDE DEF t1, t2, td, re, ti
    <3>. QED
      BY <3>3, <3>4 DEF w1, WorldOf
  <2>. QED
    BY <2>6, <2>7
<1>5. td \in [Players -> TradeRecord] /\ ti \in SUBSET Items /\ w.toRelease \in [Items -> Nat]
      /\ w.crashed \in BOOLEAN
  BY <1>0, <1>2, <1>3 DEF WorldOK
<1>6. re \in [Items -> Nat] /\ \A j \in Items : re[j] = IF j = i THEN w.refs[j] + 1 ELSE w.refs[j]
  BY <1>0 DEF WorldOK
<1>7. /\ td[p] = tp
      /\ td[q] = IF w.trade[q].state = "none" THEN tq ELSE w.trade[q]
      /\ \A r \in Players \ {p, q} : td[r] = w.trade[r]
  BY <1>1
<1>8. /\ tp.state = "init" /\ tp.item = i /\ tp.partner = q
      /\ tq.state = "ack" /\ tq.item = w.trade[q].item /\ tq.partner = p
  OBVIOUS
<1>. HIDE DEF td, re, tp, tq
<1>9. /\ v.parent = w.parent /\ v.refs = re /\ v.toRelease = w.toRelease /\ v.trade = td
      /\ v.tradeItems = ti
  <2>. HIDE DEF ti
  <2>. QED
    BY <1>4, Parts
<1>10. Counted(v, {})
  <2>. SUFFICES ASSUME NEW j \in Items
                PROVE  v.refs[j] = v.toRelease[j] + Holds(v, {}, j)
    BY DEF Counted
  <2>1. w.refs[j] = w.toRelease[j] + Holds(w, {}, j) /\ w.toRelease[j] \in Nat
    BY <1>0 DEF Counted, WorldOK
  <2>. QED
    BY <1>1, <1>6, <1>9, <2>1 DEF Holds
<1>11. \A r \in Players : Side(w, {}, r)
  BY <1>0 DEF Agreed
<1>12. w.trade[p].item = None /\ i # None /\ p # None /\ q # None
  BY <1>1, <1>11, Apartness DEF Side
<1>13. ASSUME NEW r \in Players
       PROVE  Side(v, {}, r)
  <2>1. Side(w, {}, r) /\ Side(w, {}, p) /\ Side(w, {}, q)
    BY <1>11
  <2>2. CASE r = p
    BY <1>1, <1>7, <1>8, <1>9, <1>12, <2>1, <2>2 DEF Side
  <2>3. CASE r = q
    BY <1>1, <1>7, <1>8, <1>9, <1>12, <2>1, <2>3 DEF Side
  <2>4. CASE r \notin {p, q}
    <3>1. w.trade[r].partner # p /\ w.trade[r].partner # q
      <4>1. /\ w.trade[r].partner # None => w.trade[w.trade[r].partner].partner = r
            /\ w.trade[p].state = "none" => w.trade[p].partner = None
            /\ w.trade[q].state = "none" => w.trade[q].partner = None
        BY <2>1 DEF Side
      <4>2. r # None /\ r # p /\ r # q
        BY <2>4, Apartness
      <4>3. w.trade[p].partner # r /\ w.trade[q].partner # r
        BY <1>1, <4>1, <4>2
      <4>. QED
        BY <1>12, <4>1, <4>3
    <3>2. w.trade[r].partner \in Players \cup {None}
      BY <1>2 DEF TradeRecord
    <3>3. v.trade[r] = w.trade[r]
          /\ (w.trade[r].partner # None => v.trade[w.trade[r].partner] = w.trade[w.trade[r].partner])
      BY <1>7, <1>9, <2>4, <3>1, <3>2
    <3>. QED
      BY <2>1, <3>3 DEF Side
  <2>. QED
    BY <2>2, <2>3, <2>4
<1>14. \A r \in Players : v.trade[r].item = IF r = p THEN i ELSE w.trade[r].item
  BY <1>7, <1>8, <1>9
<1>15. Offers(w, {}) /\ Apart(w)
  BY <1>0 DEF Agreed
<1>16. Offers(v, {})
  <2>. SUFFICES ASSUME NEW j \in Items
                PROVE  j \in v.tradeItems <=> \E r \in Players : v.trade[r].item = j
    BY DEF Offers
  <2>1. j \in w.tradeItems <=> \E r \in Players : w.trade[r].item = j
    BY <1>15 DEF Offers
  <2>2. CASE j = i
    BY <1>9, <1>14, <2>2
  <2>3. CASE j # i
    <3>1. w.trade[p].item # j /\ v.trade[p].item # j
      BY <1>12, <1>14, <2>3, Apartness
    <3>. QED
      BY <1>9, <1>14, <2>1, <2>3, <3>1
  <2>. QED
    BY <2>2, <2>3
<1>17. Apart(v)
  BY <1>1, <1>12, <1>14, <1>15 DEF Apart, Offers
<1>18. Agreed(v, {})
  BY <1>13, <1>16, <1>17 DEF Agreed
<1>. QED
  <2>. HIDE DEF ti
  <2>1. WorldOK(v) /\ SameItems(w, v)
    BY <1>0, <1>4, <1>5, <1>6, TradesWorld
  <2>2. {} \in SUBSET Players
    OBVIOUS
  <2>. QED
    BY <1>10, <1>18, <2>1, <2>2, TradesOK, TallyItems

\* Game::playerAcceptTrade, up to the trade itself.
LEMMA AcceptedOK ==
  ASSUME NEW w, WInv(w, {}, {}), NEW p \in Players, w.trade[p].state \in {"ack", "init"},
         NEW v, v = StateSet(w, p, "accept")
  PROVE  /\ WInv(v, {}, {}) /\ v.parent = w.parent /\ v.refs = w.refs
         /\ v.trade[p].partner = w.trade[p].partner /\ v.trade[p].state = "accept"
         /\ Tally(v) = Tally(w)
<1>0. WorldOK(w) /\ Counted(w, {}) /\ Agreed(w, {})
  BY DEF WInv
<1>1. WorldOK(v) /\ OnlyTrades(w, v) /\ StateIs(w, v, p, "accept")
  BY <1>0, StateSetIs
<1>2. Counted(v, {})
  BY <1>0, <1>1 DEF Counted, Holds, OnlyTrades, SameItems
<1>3. ASSUME NEW r \in Players
      PROVE  Side(v, {}, r)
  <2>1. Side(w, {}, r) /\ Side(w, {}, p)
    BY <1>0 DEF Agreed
  <2>2. w.trade[r].partner \in Players \cup {None}
    BY <1>0 DEF WorldOK, TradeRecord
  <2>. QED
    BY <1>1, <2>1, <2>2 DEF Side, StateIs
<1>4. Offers(v, {}) /\ Apart(v)
  BY <1>0, <1>1 DEF Agreed, Offers, Apart, OnlyTrades, StateIs
<1>5. Agreed(v, {}) /\ {} \in SUBSET Players
  BY <1>3, <1>4 DEF Agreed
<1>6. WInv(v, {}, {})
  BY <1>1, <1>2, <1>5, TradesOK DEF OnlyTrades
<1>. QED
  <2>1. Tally(v) = Tally(w)
    BY <1>1, TallyItems DEF OnlyTrades
  <2>. QED
    BY <1>1, <1>6, <2>1 DEF OnlyTrades, SameItems, StateIs

\* Both trades are under way: neither offer is in the list any more.
Begun(w, p, q) ==
  LET back == {w.trade[p].item, w.trade[q].item} \cap w.tradeItems
  IN [w EXCEPT !.trade[p].state = "transfer", !.trade[q].state = "transfer",
               !.tradeItems = @ \ back,
               !.toRelease = [t \in Items |-> @[t] + (IF t \in back THEN 1 ELSE 0)]]

LEMMA BegunOK ==
  ASSUME NEW w, WInv(w, {}, {}), NEW p \in Players, NEW q \in Players,
         w.trade[p].partner = q, w.trade[p].item # None, w.trade[q].item # None,
         NEW v, v = Begun(w, p, q)
  PROVE  /\ WInv(v, {}, {p, q}) /\ v.parent = w.parent /\ v.refs = w.refs
         /\ v.trade[p].partner = q /\ v.trade[q].partner = p
         /\ Tally(v) = Tally(w)
<1>. DEFINE back == {w.trade[p].item, w.trade[q].item} \cap w.tradeItems
            ti == w.tradeItems \ back
            tr == [t \in Items |-> w.toRelease[t] + (IF t \in back THEN 1 ELSE 0)]
            x  == StateSet(w, p, "transfer")
            y  == StateSet(x, q, "transfer")
<1>0. WorldOK(w) /\ Counted(w, {}) /\ Agreed(w, {})
  BY DEF WInv
<1>1. \A r \in Players : w.trade[r] \in TradeRecord
  BY <1>0 DEF WorldOK
<1>2. q # p /\ w.trade[q].partner = p
  BY <1>0, Apartness DEF Agreed, Side
<1>3. v = [y EXCEPT !.tradeItems = ti, !.toRelease = tr]
  BY DEF Begun, StateSet
<1>4. /\ ti \in SUBSET Items /\ tr \in [Items -> Nat]
      /\ \A i \in Items : tr[i] = w.toRelease[i] + (IF i \in back THEN 1 ELSE 0)
  BY <1>0 DEF WorldOK
<1>5. \A i \in Items : /\ i \in ti <=> i \in w.tradeItems /\ i \notin back
                       /\ i \in back => i \in w.tradeItems
  OBVIOUS
<1>6. \A i \in Items : i \in back <=> i \in {w.trade[p].item, w.trade[q].item} /\ i \in w.tradeItems
  OBVIOUS
<1>. HIDE DEF ti, tr, back, x, y
<1>7. WorldOK(x) /\ OnlyTrades(w, x) /\ StateIs(w, x, p, "transfer")
  BY <1>0, StateSetIs DEF x
<1>8. WorldOK(y) /\ OnlyTrades(x, y) /\ StateIs(x, y, q, "transfer")
  BY <1>7, StateSetIs DEF y
<1>9. v = WorldOf(y.parent, y.held, y.amount, y.weight, y.refs, tr, y.trade, ti, y.crashed)
  <2>1. y = WorldOf(y.parent, y.held, y.amount, y.weight, y.refs, y.toRelease, y.trade,
                    y.tradeItems, y.crashed)
    BY <1>8 DEF WorldOK
  <2>. DEFINE y0 == WorldOf(y.parent, y.held, y.amount, y.weight, y.refs, y.toRelease, y.trade,
                            y.tradeItems, y.crashed)
  <2>2. ASSUME NEW u, u = [y0 EXCEPT !.tradeItems = ti, !.toRelease = tr]
        PROVE  u = WorldOf(y.parent, y.held, y.amount, y.weight, y.refs, tr, y.trade, ti, y.crashed)
    BY <2>2 DEF WorldOf
  <2>3. y = y0
    BY <2>1
  <2>. HIDE DEF y0
  <2>. QED
    BY <1>3, <2>2, <2>3
<1>10. /\ WorldOK(v) /\ SameItems(w, v) /\ v.refs = w.refs /\ v.toRelease = tr
       /\ v.trade = y.trade /\ v.tradeItems = ti
  <2>1. /\ y.refs \in [Items -> Nat] /\ y.trade \in [Players -> TradeRecord]
        /\ y.crashed \in BOOLEAN
    BY <1>8 DEF WorldOK
  <2>2. WorldOK(v) /\ SameItems(y, v)
    BY <1>4, <1>8, <1>9, <2>1, TradesWorld
  <2>3. v.refs = y.refs /\ v.toRelease = tr /\ v.trade = y.trade /\ v.tradeItems = ti
    BY <1>9, Parts
  <2>. QED
    BY <1>7, <1>8, <2>2, <2>3 DEF SameItems, OnlyTrades
<1>11. \A i \in Items : i \in w.tradeItems <=> \E r \in Players : w.trade[r].item = i
  BY <1>0 DEF Agreed, Offers
<1>12. \A r, z \in Players : r # z /\ w.trade[z].item # None => w.trade[r].item # w.trade[z].item
  BY <1>0 DEF Agreed, Apart
<1>13. Counted(v, {})
  <2>. SUFFICES ASSUME NEW j \in Items
                PROVE  v.refs[j] = v.toRelease[j] + Holds(v, {}, j)
    BY DEF Counted
  <2>1. w.refs[j] = w.toRelease[j] + Holds(w, {}, j) /\ w.toRelease[j] \in Nat
    BY <1>0 DEF Counted, WorldOK
  <2>. QED
    BY <1>4, <1>5, <1>10, <2>1 DEF Holds, SameItems
<1>14. \A r \in Players : /\ v.trade[r].item = w.trade[r].item
                          /\ v.trade[r].partner = w.trade[r].partner
                          /\ v.trade[r].state = IF r \in {p, q} THEN "transfer" ELSE w.trade[r].state
  BY <1>7, <1>8, <1>10 DEF StateIs
<1>15. ASSUME NEW r \in Players
       PROVE  Side(v, {p, q}, r)
  <2>1. Side(w, {}, r)
    BY <1>0 DEF Agreed
  <2>2. w.trade[r].partner \in Players \cup {None}
    BY <1>1 DEF TradeRecord
  <2>3. p # None /\ q # None
    BY Apartness
  <2>4. CASE r \in {p, q}
    BY <1>2, <1>14, <2>1, <2>2, <2>3, <2>4 DEF Side
  <2>5. CASE r \notin {p, q}
    BY <1>14, <2>1, <2>2, <2>5 DEF Side
  <2>. QED
    BY <2>4, <2>5
<1>16. Offers(v, {p, q})
  <2>. SUFFICES ASSUME NEW j \in Items
                PROVE  j \in v.tradeItems <=> \E r \in Players \ {p, q} : v.trade[r].item = j
    BY DEF Offers
  <2>1. j \in w.tradeItems <=> \E r \in Players : w.trade[r].item = j
    BY <1>11
  <2>2. j # None
    BY Apartness
  <2>3. \A r, z \in Players : w.trade[r].item = j /\ w.trade[z].item = j => r = z
    BY <1>12, <2>2
  <2>4. CASE w.trade[p].item = j \/ w.trade[q].item = j
    <3>1. j \notin v.tradeItems
      BY <1>5, <1>6, <1>10, <2>4
    <3>2. ~(\E r \in Players \ {p, q} : v.trade[r].item = j)
      BY <1>14, <2>3, <2>4
    <3>. QED
      BY <3>1, <3>2
  <2>5. CASE ~(w.trade[p].item = j \/ w.trade[q].item = j)
    <3>1. j \in v.tradeItems <=> j \in w.tradeItems
      BY <1>5, <1>6, <1>10, <2>5
    <3>2. (\E r \in Players \ {p, q} : v.trade[r].item = j) <=> \E r \in Players : w.trade[r].item = j
      BY <1>14, <2>5
    <3>. QED
      BY <2>1, <3>1, <3>2
  <2>. QED
    BY <2>4, <2>5
<1>17. Apart(v)
  BY <1>12, <1>14 DEF Apart
<1>18. Agreed(v, {p, q})
  BY <1>15, <1>16, <1>17 DEF Agreed
<1>19. {p, q} \in SUBSET Players
  OBVIOUS
<1>20. WInv(v, {}, {p, q})
  BY <1>10, <1>13, <1>18, <1>19, TradesOK
<1>. QED
  <2>1. Tally(v) = Tally(w)
    BY <1>10, TallyItems
  <2>. QED
    BY <1>2, <1>10, <1>14, <1>20, <2>1 DEF SameItems

\* Both trades are over.
Ended(w, p, q) == TradeSet(TradeSet(w, p, NoTrade), q, NoTrade)

LEMMA EndedOK ==
  ASSUME NEW w, NEW p \in Players, NEW q \in Players, WInv(w, {}, {p, q}),
         w.trade[p].partner = q, w.trade[q].partner = p, NEW v, v = Ended(w, p, q)
  PROVE  WInv(v, {}, {}) /\ Tally(v) = Tally(w)
<1>. DEFINE u == TradeSet(w, p, NoTrade)
<1>0. WorldOK(w) /\ Counted(w, {}) /\ Agreed(w, {p, q})
  BY DEF WInv
<1>1. NoTrade \in TradeRecord
  BY DEF NoTrade, TradeRecord
<1>2. NoTrade.state = "none" /\ NoTrade.item = None /\ NoTrade.partner = None
  BY DEF NoTrade
<1>3. v = TradeSet(u, q, NoTrade)
  BY DEF Ended
<1>. HIDE DEF u
<1>4. /\ WorldOK(u) /\ OnlyTrades(w, u)
      /\ \A r \in Players : u.trade[r] = IF r = p THEN NoTrade ELSE w.trade[r]
  BY <1>0, <1>1, TradeSetIs DEF u
<1>5. /\ WorldOK(v) /\ OnlyTrades(u, v)
      /\ \A r \in Players : v.trade[r] = IF r = q THEN NoTrade ELSE u.trade[r]
  BY <1>1, <1>3, <1>4, TradeSetIs
<1>6. /\ SameItems(w, v) /\ v.refs = w.refs /\ v.toRelease = w.toRelease
      /\ v.tradeItems = w.tradeItems
  BY <1>4, <1>5 DEF OnlyTrades, SameItems
<1>7. \A r \in Players : v.trade[r] = IF r \in {p, q} THEN NoTrade ELSE w.trade[r]
  BY <1>4, <1>5
<1>8. Counted(v, {})
  BY <1>0, <1>6 DEF Counted, Holds, SameItems
<1>9. ASSUME NEW r \in Players
      PROVE  Side(v, {}, r)
  <2>1. Side(w, {p, q}, r)
    BY <1>0 DEF Agreed
  <2>2. CASE r \in {p, q}
    BY <1>2, <1>7, <2>2 DEF Side
  <2>3. CASE r \notin {p, q}
    <3>1. w.trade[r].partner \in Players \cup {None}
      BY <1>0 DEF WorldOK, TradeRecord
    <3>2. w.trade[r].partner # None =>
            w.trade[r].partner \notin {p, q} /\ v.trade[w.trade[r].partner] = w.trade[w.trade[r].partner]
      BY <1>7, <2>1, <2>3, <3>1 DEF Side
    <3>3. v.trade[r] = w.trade[r]
      BY <1>7, <2>3
    <3>. QED
      BY <2>1, <2>3, <3>2, <3>3 DEF Side
  <2>. QED
    BY <2>2, <2>3
<1>10. Offers(v, {})
  <2>. SUFFICES ASSUME NEW j \in Items
                PROVE  j \in v.tradeItems <=> \E r \in Players : v.trade[r].item = j
    BY DEF Offers
  <2>1. j \in w.tradeItems <=> \E r \in Players \ {p, q} : w.trade[r].item = j
    BY <1>0 DEF Agreed, Offers
  <2>2. j # None
    BY Apartness
  <2>. QED
    BY <1>2, <1>6, <1>7, <2>1, <2>2
<1>11. Apart(v)
  BY <1>0, <1>2, <1>7 DEF Agreed, Apart
<1>12. Agreed(v, {})
  BY <1>9, <1>10, <1>11 DEF Agreed
<1>13. {} \in SUBSET Players
  OBVIOUS
<1>. QED
  BY <1>5, <1>6, <1>8, <1>12, <1>13, TradesOK, TallyItems

\* A second object that is not in use remains when one has been taken.
LEMMA OneRemains ==
  ASSUME NEW w, NEW v, WorldOK(w), Cardinality(Unused(w)) > 1, OneLess(w, v)
  PROVE  Unused(w) # {} /\ Unused(v) # {}
<1>1. IsFiniteSet(Coins)
  BY ItemsAssumption
<1>2. Unused(w) \subseteq Coins
  BY DEF Unused
<1>3. IsFiniteSet(Unused(w))
  BY <1>1, <1>2, FS_Subset
<1>4. Cardinality({}) = 0
  BY FS_EmptySet
<1>5. Unused(w) # {}
  BY <1>4
<1>6. ASSUME Unused(v) = {}
      PROVE  FALSE
  <2>1. PICK x : Unused(w) \subseteq {x}
    BY <1>6 DEF OneLess
  <2>2. IsFiniteSet({x}) /\ Cardinality({x}) = 1
    BY FS_Singleton
  <2>3. Cardinality(Unused(w)) <= 1
    BY <2>1, <2>2, FS_Subset
  <2>4. Cardinality(Unused(w)) \in Nat
    BY <1>3, FS_CardinalityType
  <2>. QED
    BY <2>3, <2>4
<1>. QED
  BY <1>5, <1>6

\* Give an item, all of it, to a player.
LEMMA GiveOK ==
  ASSUME NEW w, NEW busy, WInv(w, {}, busy), NEW i \in Items, w.parent[i] # None,
         NEW q \in Players, Unused(w) # {}, NEW v, v = Give(w, i, q)
  PROVE  MoveOK(w, v, i, busy)
<1>0. WorldOK(w) /\ Kept(w, {})
  BY DEF WInv, StoredIn
<1>1. w.parent[i] \in Cylinders
  BY <1>0 DEF WorldOK
<1>2. CountOf(w, i) \in Nat \ {0}
  <2>1. CASE i \in Coins
    BY <1>0, <2>1 DEF CountOf, WorldOK, Kept
  <2>2. CASE i \notin Coins
    BY <2>2 DEF CountOf
  <2>. QED
    BY <2>1, <2>2
<1>3. PICK from \in Cylinders, n \in Nat \ {0} : from = w.parent[i] /\ n = CountOf(w, i)
  BY <1>1, <1>2
<1>4. q \in Cylinders
  BY Apartness
<1>5. PICK k \in Int : k = WhereEver
  BY DEF WhereEver
<1>6. v = InternalMoveItem(w, from, q, k, i, n)
  BY <1>3, <1>5 DEF Give
<1>. QED
  BY <1>3, <1>4, <1>6, MoveItemOK

\* Game::playerAcceptTrade, when the other has accepted: both items are moved,
\* or what there is room for, and both trades end.
LEMMA CarryOutOK ==
  ASSUME NEW w, WInv(w, {}, {}), NEW p \in Players, NEW q \in Players, w.trade[p].partner = q,
         Cardinality(Unused(w)) > 1, NEW v, v = CarryOut(w, p, q)
  PROVE  WInv(v, {}, {}) /\ Tally(v) = Tally(w)
<1>. DEFINE i  == w.trade[p].item
            j  == w.trade[q].item
            w1 == Begun(w, p, q)
            may == TestAdd(w1, q, i) /\ TestAdd(w1, p, j) /\ TestRemove(w1, i) /\ TestRemove(w1, j)
            w2 == IF may THEN Give(Give(w1, i, q), j, p) ELSE w1
            w0 == WorldOf(w.parent, w.held, w.amount, w.weight, w.refs, w.toRelease,
                          w.trade, w.tradeItems, w.crashed)
<1>0. WorldOK(w) /\ Counted(w, {}) /\ Agreed(w, {})
  BY Zenon DEF WInv
<1>1. v = IF None \in {i, j} THEN [w EXCEPT !.crashed = TRUE] ELSE Ended(w2, p, q)
  BY DEF CarryOut, Begun, Ended, TradeSet
<1>2. CASE None \in {i, j}
  <2>1. v = [w EXCEPT !.crashed = TRUE]
    BY <1>1, <1>2
  <2>2. w = w0
    BY <1>0 DEF WorldOK
  <2>3. PICK cr \in BOOLEAN :
          v = WorldOf(w.parent, w.held, w.amount, w.weight, w.refs, w.toRelease,
                      w.trade, w.tradeItems, cr)
    BY <2>1, <2>2 DEF WorldOf
  <2>4. /\ w.refs \in [Items -> Nat] /\ w.toRelease \in [Items -> Nat]
        /\ w.trade \in [Players -> TradeRecord] /\ w.tradeItems \in SUBSET Items
    BY <1>0 DEF WorldOK
  <2>5. WorldOK(v) /\ SameItems(w, v)
    BY <1>0, <2>3, <2>4, TradesWorld
  <2>6. v.refs = w.refs /\ v.toRelease = w.toRelease /\ v.trade = w.trade /\ v.tradeItems = w.tradeItems
    BY <2>3, Parts
  <2>7. Counted(v, {})
    BY <1>0, <2>5, <2>6 DEF Counted, Holds, SameItems
  <2>8. Agreed(v, {})
    BY <1>0, <2>6 DEF Agreed, Side, Offers, Apart
  <2>9. {} \in SUBSET Players
    OBVIOUS
  <2>. QED
    BY <2>5, <2>7, <2>8, <2>9, TradesOK, TallyItems
<1>3. CASE None \notin {i, j}
  <2>1. w.trade[p] \in TradeRecord /\ w.trade[q] \in TradeRecord
    BY <1>0 DEF WorldOK
  <2>2. PICK a \in Items, b \in Items : a = i /\ b = j
    BY <1>3, <2>1 DEF TradeRecord
  <2>3. a # b
    BY <1>0, <2>2, Apartness DEF Agreed, Side, Apart
  <2>. DEFINE w4 == Give(w1, a, q)
              w5 == Give(w4, b, p)
  <2>4. v = Ended(w2, p, q) /\ w2 = IF may THEN w5 ELSE w1
    BY <1>1, <1>3, <2>2
  <2>. HIDE DEF w1, w2, i, j
  <2>5. /\ WInv(w1, {}, {p, q}) /\ w1.parent = w.parent /\ w1.refs = w.refs
        /\ w1.trade[p].partner = q /\ w1.trade[q].partner = p /\ Tally(w1) = Tally(w)
    BY <1>3, BegunOK DEF w1, i, j
  <2>6. /\ WInv(w2, {}, {p, q}) /\ w2.trade[p].partner = q /\ w2.trade[q].partner = p
        /\ Tally(w2) = Tally(w)
    <3>1. CASE ~may
      BY <2>4, <2>5, <3>1
    <3>2. CASE may
      <4>1. w1.parent[a] # None /\ w1.parent[b] # None
        BY <2>2, <3>2 DEF TestRemove
      <4>2. Unused(w1) = Unused(w)
        BY <2>5 DEF Unused
      <4>3. WorldOK(w1)
        BY <2>5 DEF WInv
      <4>4. OneLess(w1, w1)
        BY DEF OneLess
      <4>5. Unused(w1) # {}
        BY <4>2, <4>3, <4>4, OneRemains
      <4>. HIDE DEF w4, w5
      <4>6. MoveOK(w1, w4, a, {p, q})
        BY <2>5, <4>1, <4>5, GiveOK DEF w4
      <4>7. WInv(w4, {}, {p, q}) /\ w4.parent[b] # None /\ Unused(w4) # {}
        <5>1. Cardinality(Unused(w1)) > 1
          BY <4>2
        <5>2. Unused(w4) # {}
          BY <4>3, <4>6, <5>1, OneRemains DEF MoveOK
        <5>. QED
          BY <2>3, <4>1, <4>6, <5>2 DEF MoveOK, Stay
      <4>8. MoveOK(w4, w5, b, {p, q})
        BY <4>7, GiveOK DEF w5
      <4>9. w5.trade[p] = w1.trade[p] /\ w5.trade[q] = w1.trade[q]
        BY <4>6, <4>8 DEF MoveOK, SameTrades
      <4>. QED
        BY <2>4, <2>5, <3>2, <4>6, <4>8, <4>9 DEF MoveOK
    <3>. QED
      BY <3>1, <3>2
  <2>. QED
    BY <2>4, <2>6, EndedOK
<1>. QED
  BY <1>2, <1>3

\* Game::cleanup
Cleaned(w) ==
  LET left == [i \in Items |-> w.refs[i] - w.toRelease[i]]
  IN [w EXCEPT !.refs = left, !.toRelease = [i \in Items |-> 0],
               !.amount = [i \in Coins |-> IF left[i] = 0 THEN 0 ELSE @[i]]]

LEMMA CleanedOK ==
  ASSUME NEW w, WInv(w, {}, {}), NEW v, v = Cleaned(w)
  PROVE  WInv(v, {}, {}) /\ Tally(v) = Tally(w)
<1>. DEFINE left == [i \in Items |-> w.refs[i] - w.toRelease[i]]
            zero == [i \in Items |-> 0]
            am   == [i \in Coins |-> IF left[i] = 0 THEN 0 ELSE w.amount[i]]
            w0 == WorldOf(w.parent, w.held, w.amount, w.weight, w.refs, w.toRelease,
                          w.trade, w.tradeItems, w.crashed)
<1>0. WorldOK(w) /\ StoredIn(w, {}) /\ Counted(w, {}) /\ Agreed(w, {})
  BY DEF WInv
<1>1. v = [w EXCEPT !.refs = left, !.toRelease = zero, !.amount = am]
  BY DEF Cleaned
<1>2. w = w0
  BY <1>0 DEF WorldOK
<1>3. \A i \in Items : left[i] = Holds(w, {}, i) /\ left[i] \in Nat
  <2>. TAKE i \in Items
  <2>1. w.refs[i] = w.toRelease[i] + Holds(w, {}, i) /\ w.toRelease[i] \in Nat
    BY <1>0 DEF Counted, WorldOK
  <2>2. Holds(w, {}, i) \in Nat
    BY DEF Holds
  <2>. QED
    BY <2>1, <2>2
<1>4. left \in [Items -> Nat] /\ zero \in [Items -> Nat] /\ \A i \in Items : zero[i] = 0
  BY <1>3
<1>5. /\ am \in [Coins -> 0..MaxStack]
      /\ \A i \in Coins : w.parent[i] # None => am[i] = w.amount[i]
  <2>1. \A i \in Coins : w.parent[i] # None => left[i] # 0
    <3>. HIDE DEF left
    <3>. SUFFICES ASSUME NEW i \in Coins, w.parent[i] # None
                  PROVE  left[i] # 0
      OBVIOUS
    <3>1. left[i] = Holds(w, {}, i)
      BY <1>3, Apartness
    <3>. QED
      BY <3>1 DEF Holds
  <2>2. w.amount \in [Coins -> 0..MaxStack] /\ MaxStack \in Nat
    BY <1>0, Apartness DEF WorldOK
  <2>. HIDE DEF left
  <2>. QED
    BY <2>1, <2>2
<1>. HIDE DEF left, zero, am
<1>6. v = WorldOf(w.parent, w.held, am, w.weight, left, zero, w.trade, w.tradeItems, w.crashed)
  <2>1. ASSUME NEW u, u = [w0 EXCEPT !.refs = left, !.toRelease = zero, !.amount = am]
        PROVE  u = WorldOf(w.parent, w.held, am, w.weight, left, zero, w.trade, w.tradeItems, w.crashed)
    BY <2>1 DEF WorldOf
  <2>. HIDE DEF w0
  <2>. QED
    BY <1>1, <1>2, <2>1
<1>7. /\ v.parent = w.parent /\ v.held = w.held /\ v.amount = am /\ v.weight = w.weight
      /\ v.refs = left /\ v.toRelease = zero /\ v.trade = w.trade /\ v.tradeItems = w.tradeItems
      /\ v.crashed = w.crashed
  BY <1>6, Parts
<1>8. HeldOK(v)
  BY <1>0, <1>7 DEF WorldOK, HeldOK
<1>9. WorldOK(v)
  <2>1. v = WorldOf(v.parent, v.held, v.amount, v.weight, v.refs, v.toRelease, v.trade,
                    v.tradeItems, v.crashed)
    BY <1>6, <1>7
  <2>. QED
    BY <1>0, <1>4, <1>5, <1>7, <1>8, <2>1 DEF WorldOK
<1>10. StoredIn(v, {})
  <2>1. Listed(v) /\ Singly(v)
    BY <1>0, <1>7 DEF StoredIn, Listed, Singly, In
  <2>2. Kept(v, {})
    BY <1>0, <1>5, <1>7 DEF StoredIn, Kept
  <2>. QED
    BY <2>1, <2>2 DEF StoredIn
<1>11. Counted(v, {})
  <2>. SUFFICES ASSUME NEW i \in Items
                PROVE  v.refs[i] = v.toRelease[i] + Holds(v, {}, i)
    BY DEF Counted
  <2>1. v.refs[i] = Holds(w, {}, i) /\ v.toRelease[i] = 0
    BY <1>3, <1>4, <1>7
  <2>2. Holds(v, {}, i) = Holds(w, {}, i) /\ Holds(w, {}, i) \in Nat
    BY <1>7 DEF Holds
  <2>. QED
    BY <2>1, <2>2
<1>12. Agreed(v, {})
  BY <1>0, <1>7 DEF Agreed, Side, Offers, Apart
<1>13. {} \in SUBSET Players /\ {} \in SUBSET Items
  OBVIOUS
<1>. QED
  <2>1. Tally(v) = Tally(w)
    BY <1>5, <1>7, TallySame DEF Lying
  <2>. QED
    BY <1>9, <1>10, <1>11, <1>12, <1>13, <2>1 DEF WInv

\* What an action makes of the world is the next world.
LEMMA NextWorld ==
  ASSUME NEW v, WInv(v, {}, {}), Becomes(v)
  PROVE  WInv(World, {}, {})' /\ Tally(World)' = Tally(v)
<1>1. WorldOK(v)
  BY DEF WInv
<1>2. World' = WorldOf(v.parent, v.held, v.amount, v.weight, v.refs, v.toRelease, v.trade,
                       v.tradeItems, v.crashed)
  BY DEF World, Becomes, WorldOf
<1>3. v = World'
  BY <1>1, <1>2 DEF WorldOK
<1>. QED
  BY <1>3

-----------------------------------------------------------------------------
(* The invariant.                                                          *)

LEMMA InitOK == Init => IInv
<1>. SUFFICES ASSUME Init
              PROVE  IInv
  OBVIOUS
<1>. DEFINE w == World
<1>1. /\ parent = Start.parent /\ held = Start.held /\ amount = Start.amount
      /\ weight = Start.weight /\ tradeItems = {} /\ spent = 0 /\ crashed = FALSE
      /\ refs = [i \in Items |-> IF parent[i] = None THEN 0 ELSE 1]
      /\ toRelease = [i \in Items |-> 0] /\ trade = [p \in Players |-> NoTrade]
  BY DEF Init
<1>2. w = WorldOf(parent, held, amount, weight, refs, toRelease, trade, tradeItems, crashed)
  BY DEF World, WorldOf
<1>. HIDE DEF w
<1>3. /\ w.parent = parent /\ w.held = held /\ w.amount = amount /\ w.weight = weight
      /\ w.refs = refs /\ w.toRelease = toRelease /\ w.trade = trade
      /\ w.tradeItems = tradeItems /\ w.crashed = crashed
  BY <1>2, Parts
<1>4. NoTrade \in TradeRecord /\ NoTrade.state = "none" /\ NoTrade.item = None /\ NoTrade.partner = None
  BY DEF NoTrade, TradeRecord
<1>5. HeldOK(w)
  BY <1>1, <1>3, StartAssumption DEF HeldOK
<1>6. WorldOK(w)
  <2>1. w = WorldOf(w.parent, w.held, w.amount, w.weight, w.refs, w.toRelease, w.trade,
                    w.tradeItems, w.crashed)
    BY <1>2, <1>3
  <2>2. /\ w.parent \in [Items -> Cylinders \cup {None}]
        /\ w.amount \in [Coins -> 0..MaxStack] /\ w.weight \in [Bags -> Int]
    BY <1>1, <1>3, StartAssumption
  <2>3. w.refs \in [Items -> Nat] /\ w.toRelease \in [Items -> Nat]
    BY <1>1, <1>3
  <2>4. w.trade \in [Players -> TradeRecord]
    BY <1>1, <1>3, <1>4
  <2>5. w.tradeItems \in SUBSET Items /\ w.crashed \in BOOLEAN
    BY <1>1, <1>3
  <2>. QED
    BY <1>5, <2>1, <2>2, <2>3, <2>4, <2>5 DEF WorldOK
<1>7. StoredIn(w, {})
  <2>1. PlacedIn(Start)
    BY StartAssumption
  <2>. QED
    BY <1>1, <1>3, <2>1 DEF PlacedIn, StoredIn, Listed, Singly, Kept, In
<1>8. Counted(w, {})
  BY <1>1, <1>3 DEF Counted, Holds
<1>9. Agreed(w, {})
  <2>1. \A p \in Players : w.trade[p] = NoTrade
    BY <1>1, <1>3
  <2>2. \A i \in Items : i # None
    BY Apartness
  <2>. QED
    BY <1>1, <1>3, <1>4, <2>1, <2>2 DEF Agreed, Side, Offers, Apart
<1>10. {} \in SUBSET Players /\ {} \in SUBSET Items
  OBVIOUS
<1>11. WInv(w, {}, {})
  BY <1>6, <1>7, <1>8, <1>9, <1>10 DEF WInv
<1>. QED
  <2>1. Tally(w) = Tally(Start)
    BY <1>1, <1>3, TallySame DEF Lying
  <2>2. Tally(w) + spent = Tally(Start)
    BY <1>1, <2>1, TallyIsNat
  <2>. QED
    BY <1>1, <1>11, <2>2 DEF IInv, w

LEMMA MoveItemKeeps ==
  ASSUME IInv, NEW p \in Players, MoveItem(p)
  PROVE  IInv'
<1>. DEFINE w == World
<1>0. WInv(w, {}, {}) /\ spent \in Nat /\ Tally(w) + spent = Tally(Start)
  BY DEF IInv
<1>1. w.parent = parent
  BY DEF World
<1>2. PICK i \in InternalGetThing(w, p), c \in Reach(w, p) :
        \E k \in Indices(c), n \in IF i \in Coins THEN 1..MaxStack ELSE {1} :
          Becomes(InternalMoveItem(w, parent[i], c, k, i, n))
  BY DEF MoveItem
<1>2a. PICK k \in Indices(c), n \in IF i \in Coins THEN 1..MaxStack ELSE {1} :
        Becomes(InternalMoveItem(w, parent[i], c, k, i, n))
  BY <1>2
<1>3. Unused(w) # {} /\ spent' = spent
  BY DEF MoveItem
<1>. HIDE DEF w
<1>4. \A x \in Reach(w, p) : x \in Cylinders
  BY DEF Reach, Cylinders
<1>5. i \in Items /\ w.parent[i] \in Cylinders /\ c \in Cylinders
  BY <1>4 DEF InternalGetThing
<1>6. k \in Int
  BY Apartness DEF Indices, Up
<1>7. n \in Nat \ {0}
  BY Apartness
<1>8. PICK from \in Cylinders : from = w.parent[i]
  BY <1>5
<1>9. PICK v : v = InternalMoveItem(w, from, c, k, i, n) /\ Becomes(v)
  BY <1>1, <1>2a, <1>8
<1>10. MoveOK(w, v, i, {})
  BY <1>0, <1>3, <1>5, <1>6, <1>7, <1>8, <1>9, MoveItemOK
<1>11. WInv(World, {}, {})' /\ Tally(World)' = Tally(v)
  BY <1>9, <1>10, NextWorld DEF MoveOK
<1>. QED
  BY <1>0, <1>3, <1>10, <1>11 DEF IInv, MoveOK

LEMMA UseUpKeeps ==
  ASSUME IInv, NEW i \in Coins, UseUp(i)
  PROVE  IInv'
<1>. DEFINE w == World
<1>0. WInv(w, {}, {}) /\ spent \in Nat /\ Tally(w) + spent = Tally(Start)
  BY DEF IInv
<1>1. w.parent = parent /\ w.amount = amount
  BY DEF World
<1>2. PICK n \in 1..amount[i] : Becomes(InternalRemoveItem(w, i, n)) /\ spent' = spent + n
  BY DEF UseUp
<1>3. parent[i] # None
  BY DEF UseUp
<1>. HIDE DEF w
<1>4. amount[i] \in 0..MaxStack /\ MaxStack \in Nat
  BY <1>0, <1>1, Apartness DEF WInv, WorldOK
<1>5. PICK v : v = InternalRemoveItem(w, i, n) /\ Becomes(v)
  BY <1>2
<1>6. WInv(v, {}, {}) /\ Tally(v) = Tally(w) - n
  BY <1>0, <1>1, <1>3, <1>5, RemoveItemOK
<1>7. WInv(World, {}, {})' /\ Tally(World)' = Tally(v)
  BY <1>5, <1>6, NextWorld
<1>8. spent' \in Nat /\ Tally(v) + spent' = Tally(Start)
  BY <1>0, <1>2, <1>4, <1>6, TallyIsNat
<1>. QED
  BY <1>7, <1>8 DEF IInv

LEMMA RequestTradeKeeps ==
  ASSUME IInv, NEW p \in Players, NEW q \in Players, NEW i \in Items, RequestTrade(p, q, i)
  PROVE  IInv'
<1>. DEFINE w == World
<1>0. WInv(w, {}, {}) /\ spent \in Nat /\ Tally(w) + spent = Tally(Start)
  BY DEF IInv
<1>1. w.trade = trade /\ w.tradeItems = tradeItems
  BY DEF World
<1>2. /\ p # q /\ i \notin tradeItems /\ spent' = spent
      /\ trade[p].state = "none" \/ (trade[p].state = "ack" /\ trade[p].partner = q)
      /\ trade[q].state # "none" => trade[q].partner = p
      /\ Becomes(InternalStartTrade(w, p, q, i))
  BY DEF RequestTrade
<1>. HIDE DEF w
<1>3. CanStart(w, p, q, i)
  BY <1>1, <1>2 DEF CanStart
<1>4. PICK v : v = InternalStartTrade(w, p, q, i) /\ Becomes(v)
  BY <1>2
<1>5. WInv(v, {}, {}) /\ Tally(v) = Tally(w)
  BY <1>0, <1>3, <1>4, StartTradeOK
<1>6. WInv(World, {}, {})' /\ Tally(World)' = Tally(v)
  BY <1>4, <1>5, NextWorld
<1>. QED
  BY <1>0, <1>2, <1>5, <1>6 DEF IInv

LEMMA AcceptTradeKeeps ==
  ASSUME IInv, NEW p \in Players, AcceptTrade(p)
  PROVE  IInv'
<1>. DEFINE w == World
            q == trade[p].partner
            u == StateSet(w, p, "accept")
            v == IF q # None /\ u.trade[q].state = "accept" THEN CarryOut(u, p, q) ELSE u
<1>0. WInv(w, {}, {}) /\ spent \in Nat /\ Tally(w) + spent = Tally(Start)
  BY DEF IInv
<1>1. w.trade = trade
  BY DEF World
<1>2. /\ trade[p].state \in {"ack", "init"} /\ Cardinality(Unused(w)) > 1 /\ spent' = spent
      /\ Becomes(v)
  BY DEF AcceptTrade, StateSet
<1>. HIDE DEF w
<1>3. q \in Players \cup {None}
  BY <1>0, <1>1 DEF WInv, WorldOK, TradeRecord
<1>. HIDE DEF u
<1>4. WInv(u, {}, {}) /\ u.refs = w.refs /\ u.trade[p].partner = q /\ Tally(u) = Tally(w)
  BY <1>0, <1>1, <1>2, AcceptedOK DEF u
<1>5. Cardinality(Unused(u)) > 1
  <2>1. Unused(u) = Unused(w)
    BY <1>4 DEF Unused
  <2>. QED
    BY <1>2, <2>1
<1>6. WInv(v, {}, {}) /\ Tally(v) = Tally(w)
  <2>1. CASE q # None /\ u.trade[q].state = "accept"
    <3>1. PICK r \in Players : r = q
      BY <1>3, <2>1
    <3>2. v = CarryOut(u, p, r) /\ u.trade[p].partner = r
      BY <1>4, <2>1, <3>1
    <3>. HIDE DEF v, q
    <3>. QED
      BY <1>4, <1>5, <3>2, CarryOutOK
  <2>2. CASE ~(q # None /\ u.trade[q].state = "accept")
    <3>1. v = u
      BY <2>2
    <3>. QED
      BY <1>4, <3>1
  <2>. QED
    BY <2>1, <2>2
<1>. HIDE DEF v
<1>7. WInv(World, {}, {})' /\ Tally(World)' = Tally(v)
  BY <1>2, <1>6, NextWorld
<1>. QED
  BY <1>0, <1>2, <1>4, <1>6, <1>7 DEF IInv

LEMMA CloseTradeKeeps ==
  ASSUME IInv, NEW p \in Players, CloseTrade(p)
  PROVE  IInv'
<1>. DEFINE w == World
<1>0. WInv(w, {}, {}) /\ spent \in Nat /\ Tally(w) + spent = Tally(Start)
  BY DEF IInv
<1>1. Becomes(CloseTrades(w, {p})) /\ spent' = spent
  BY DEF CloseTrade
<1>. HIDE DEF w
<1>2. PICK S \in SUBSET Players : S = {p}
  OBVIOUS
<1>3. PICK v : v = CloseTrades(w, S) /\ Becomes(v)
  BY <1>1, <1>2
<1>4. WInv(v, {}, {}) /\ Tally(v) = Tally(w)
  <2>1. WInv(v, {}, {}) /\ SameStore(w, v)
    BY <1>0, <1>3, CloseTradesOK
  <2>. QED
    BY <2>1, TallySame DEF SameStore, Lying
<1>5. WInv(World, {}, {})' /\ Tally(World)' = Tally(v)
  BY <1>3, <1>4, NextWorld
<1>. QED
  BY <1>0, <1>1, <1>4, <1>5 DEF IInv

LEMMA CleanupKeeps ==
  ASSUME IInv, Cleanup
  PROVE  IInv'
<1>. DEFINE w == World
<1>0. WInv(w, {}, {}) /\ spent \in Nat /\ Tally(w) + spent = Tally(Start)
  BY DEF IInv
<1>1. w.refs = refs /\ w.toRelease = toRelease
  BY DEF World
<1>2. Becomes(Cleaned(w)) /\ spent' = spent
  BY <1>1 DEF Cleanup, Cleaned
<1>. HIDE DEF w
<1>3. PICK v : v = Cleaned(w) /\ Becomes(v)
  BY <1>2
<1>4. WInv(v, {}, {}) /\ Tally(v) = Tally(w)
  BY <1>0, <1>3, CleanedOK
<1>5. WInv(World, {}, {})' /\ Tally(World)' = Tally(v)
  BY <1>3, <1>4, NextWorld
<1>. QED
  BY <1>0, <1>2, <1>4, <1>5 DEF IInv

LEMMA NextKeeps == IInv /\ [Next]_vars => IInv'
<1>. SUFFICES ASSUME IInv, [Next]_vars
              PROVE  IInv'
  OBVIOUS
<1>1. CASE UNCHANGED vars
  <2>1. World' = World /\ spent' = spent
    BY <1>1 DEF vars, World
  <2>. QED
    BY <2>1 DEF IInv
<1>2. ASSUME NEW p \in Players, MoveItem(p)
      PROVE  IInv'
  BY <1>2, MoveItemKeeps
<1>3. ASSUME NEW p \in Players, AcceptTrade(p)
      PROVE  IInv'
  BY <1>3, AcceptTradeKeeps
<1>4. ASSUME NEW p \in Players, CloseTrade(p)
      PROVE  IInv'
  BY <1>4, CloseTradeKeeps
<1>5. ASSUME NEW p \in Players, NEW q \in Players, NEW i \in Items, RequestTrade(p, q, i)
      PROVE  IInv'
  BY <1>5, RequestTradeKeeps
<1>6. ASSUME NEW i \in Coins, UseUp(i)
      PROVE  IInv'
  BY <1>6, UseUpKeeps
<1>7. CASE Cleanup
  BY <1>7, CleanupKeeps
<1>. QED
  BY <1>1, <1>2, <1>3, <1>4, <1>5, <1>6, <1>7 DEF Next, Task

\* In every reachable state every item is in its place, the references add up,
\* and who trades with whom is agreed; the queries, moves, splits, exchanges and
\* trades of Source/game.cpp and the cylinders keep it, whatever the store is.
THEOREM Invariant == Spec => []IInv
<1>. QED
  BY InitOK, NextKeeps, PTL DEF Spec

LEMMA TradesTyped == IInv => TypeOK
<1>. SUFFICES ASSUME IInv
              PROVE  TypeOK
  OBVIOUS
<1>0. WInv(World, {}, {}) /\ spent \in Nat
  BY DEF IInv
<1>1. /\ World.parent = parent /\ World.amount = amount /\ World.weight = weight
      /\ World.refs = refs /\ World.toRelease = toRelease /\ World.trade = trade
      /\ World.tradeItems = tradeItems /\ World.crashed = crashed
  BY DEF World
<1>2. WorldOK(World) /\ Agreed(World, {})
  BY <1>0 DEF WInv
<1>3. trade \in [Players -> TradeRecord]
  BY <1>1, <1>2 DEF WorldOK
<1>4. ASSUME NEW p \in Players
      PROVE  trade[p] \in [state : {"none", "ack", "init", "accept"},
                           item : Items \cup {None}, partner : Players \cup {None}]
  <2>1. trade[p].state # "transfer"
    BY <1>1, <1>2 DEF Agreed, Side
  <2>. QED
    BY <1>3, <2>1 DEF TradeRecord
<1>5. trade \in [Players -> [state : {"none", "ack", "init", "accept"},
                             item : Items \cup {None}, partner : Players \cup {None}]]
  BY <1>3, <1>4
<1>. HIDE DEF World
<1>. QED
  BY <1>0, <1>1, <1>2, <1>5 DEF TypeOK, WorldOK

LEMMA ItemsPlaced == IInv => PlacedIn(World)
<1>. SUFFICES ASSUME IInv
              PROVE  PlacedIn(World)
  OBVIOUS
<1>1. StoredIn(World, {})
  BY DEF IInv, WInv
<1>. QED
  BY <1>1 DEF StoredIn, Listed, Singly, Kept, PlacedIn

LEMMA ReferencesCounted == IInv => ReleasedSafely
<1>. SUFFICES ASSUME IInv
              PROVE  ReleasedSafely
  OBVIOUS
<1>1. /\ World.parent = parent /\ World.refs = refs /\ World.toRelease = toRelease
      /\ World.tradeItems = tradeItems
  BY DEF World
<1>. SUFFICES ASSUME NEW i \in Items
              PROVE  /\ toRelease[i] <= refs[i]
                     /\ refs[i] - toRelease[i] =
                          (IF parent[i] # None THEN 1 ELSE 0) + (IF i \in tradeItems THEN 1 ELSE 0)
  BY DEF ReleasedSafely
<1>2. refs[i] = toRelease[i] + Holds(World, {}, i) /\ toRelease[i] \in Nat
  BY <1>1 DEF IInv, WInv, Counted, WorldOK
<1>. QED
  BY <1>1, <1>2 DEF Holds

LEMMA TradesAgreed == IInv => PartnersAgree
<1>. SUFFICES ASSUME IInv
              PROVE  PartnersAgree
  OBVIOUS
<1>1. World.trade = trade /\ World.tradeItems = tradeItems
  BY DEF World
<1>2. WorldOK(World) /\ Agreed(World, {})
  BY DEF IInv, WInv
<1>3. \A p \in Players : trade[p] \in TradeRecord
  BY <1>1, <1>2 DEF WorldOK
<1>4. ASSUME NEW p \in Players
      PROVE  LET t == trade[p]
             IN /\ (t.state = "none") <=> (t.partner = None)
                /\ t.state \in {"none", "ack"} => t.item = None
                /\ t.state = "init" => t.item # None
                /\ t.partner # None => /\ trade[t.partner].partner = p
                                       /\ {t.item, trade[t.partner].item} # {None}
  BY <1>1, <1>2 DEF Agreed, Side
<1>5. tradeItems = {trade[p].item : p \in Players} \ {None}
  <2>1. \A i \in Items : i \in tradeItems <=> \E p \in Players : trade[p].item = i
    BY <1>1, <1>2 DEF Agreed, Offers
  <2>2. tradeItems \subseteq Items /\ None \notin Items
    BY <1>1, <1>2, Apartness DEF WorldOK
  <2>3. \A p \in Players : trade[p].item \in Items \cup {None}
    BY <1>3 DEF TradeRecord
  <2>. QED
    BY <2>1, <2>2, <2>3
<1>6. \A p, q \in Players : p # q /\ trade[q].item # None => trade[p].item # trade[q].item
  BY <1>1, <1>2 DEF Agreed, Apart
<1>. QED
  BY <1>4, <1>5, <1>6 DEF PartnersAgree

\* Every item is where its parent says, once and nowhere else; no bag is lost
\* and no stack empty; each reference is held by a cylinder, an offer or the
\* release list; and both sides of every trade agree on it
\* (Game::internalMoveItem, playerRequestTrade, playerAcceptTrade, cleanup).
THEOREM StoreAlwaysConsistent == Spec => []StoreConsistent
<1>1. IInv => StoreConsistent
  BY TradesTyped, ItemsPlaced, ReferencesCounted, TradesAgreed DEF StoreConsistent
<1>. QED
  BY <1>1, Invariant, PTL

\* The tally is what the property counts.
LEMMA TallyIs ==
  ASSUME NEW w
  PROVE  Tally(w) = CoinsIn(w, {i \in Coins : w.parent[i] # None})
<1>. DEFINE S == {i \in Coins : w.parent[i] # None}
            P == {c \in S \X (1..MaxStack) : c[2] <= w.amount[c[1]]}
<1>1. ASSUME NEW c \in Pile(w)
      PROVE  c \in P
  <2>1. /\ c \in Coins \X (1..MaxStack) /\ c[1] \in Coins /\ c[2] \in 1..MaxStack
        /\ c = <<c[1], c[2]>> /\ c[2] <= Lying(w, c[1])
    BY DEF Pile
  <2>2. w.parent[c[1]] # None
    BY <2>1, Apartness DEF Lying
  <2>. QED
    BY <2>1, <2>2 DEF Lying
<1>2. ASSUME NEW c \in P
      PROVE  c \in Pile(w)
  BY DEF Pile, Lying
<1>3. Pile(w) = P
  BY <1>1, <1>2
<1>. QED
  BY <1>3 DEF Tally, CoinsIn

LEMMA NoneLost == IInv => CoinsConserved
<1>. SUFFICES ASSUME IInv
              PROVE  CoinsConserved
  OBVIOUS
<1>1. World.parent = parent
  BY DEF World
<1>2. Tally(World) + spent = Tally(Start)
  BY DEF IInv
<1>3. Tally(World) = CoinsIn(World, {i \in Coins : parent[i] # None})
  BY <1>1, TallyIs
<1>4. Tally(Start) = CoinsIn(Start, {i \in Coins : Start.parent[i] # None})
  BY TallyIs
<1>. QED
  BY <1>2, <1>3, <1>4 DEF CoinsConserved

\* No coin is made and none is lost, whatever is moved, split, stacked,
\* exchanged and traded: those that lie somewhere and those that were used up
\* are as many as there were (Game::internalMoveItem with its new stack for
\* what does not fit, internalRemoveItem, playerAcceptTrade, cleanup).
THEOREM CoinsAlwaysConserved == Spec => []CoinsConserved
<1>. QED
  BY NoneLost, Invariant, PTL
=============================================================================
