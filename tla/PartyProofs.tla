----------------------------- MODULE PartyProofs -----------------------------
(***************************************************************************)
(* The lists of players and parties agree, for any players and parties, but *)
(* for the invitations of those who have invited themselves.               *)
(***************************************************************************)
EXTENDS Party, SequenceTheorems, TLAPS

InSeq(s, q) == \E i \in 1..Len(s) : s[i] = q
Distinct(s) == \A i, j \in 1..Len(s) : s[i] = s[j] => i = j

In(g, q) == g.leader = q \/ InSeq(g.members, q)

\* A leader is no member of its party, and nobody is a member twice.
Sound(g) == Distinct(g.members) /\ ~InSeq(g.members, g.leader)

\* Only those of S, who have invited themselves, are invited to the party they
\* are in: leaveParty strikes a player off the inviteList without telling it.
NoInsider(g, S) == \A q \in g.invites : In(g, q) => q \in S

\* Whoever is invited to group g, the party P, remembers it, and who remembers
\* it is invited or one of S.
Remembered(w, g, P, S) ==
  \A q \in Players : /\ q \in g.invites => P \in w.invited[q]
                     /\ P \in w.invited[q] /\ q \notin S => q \in g.invites

WorldType(w) ==
  /\ w = [group |-> w.group, party |-> w.party, invited |-> w.invited]
  /\ w.group \in [Parties -> Group \cup {NoGroup}]
  /\ w.party \in [Players -> Parties \cup {NoParty}]
  /\ w.invited \in [Players -> SUBSET Parties]

\* What the lists of a world say of party P, where those of S have invited
\* themselves.
PartyInv(w, P, S) ==
  /\ \A q \in Players : w.party[q] = P <=> In(w.group[P], q)
  /\ Remembered(w, w.group[P], P, S)
  /\ Sound(w.group[P])
  /\ NoInsider(w.group[P], S)
  /\ w.group[P] # NoGroup => ~Deserted(w.group[P])

WorldInv(w, S) == WorldType(w) /\ \A P \in Parties : PartyInv(w, P, S)

\* A player who is gone is in no party and has no invitation.
GoneInv ==
  \A p \in Players \ online : party[p] = NoParty /\ invited[p] = {}

IInv ==
  /\ online \subseteq Players /\ selfInvited \subseteq online
  /\ WorldInv(World, selfInvited)
  /\ GoneInv
  /\ broken \in BOOLEAN /\ (broken => selfInvited # {})

-----------------------------------------------------------------------------
(* Sequences of players.                                                   *)

\* An element less: the rest is there, in the old order, once.
LEMMA RemoveAtElements ==
  ASSUME NEW s \in Seq(Players), NEW k \in 1..Len(s)
  PROVE  /\ RemoveAt(s, k) \in Seq(Players)
         /\ Len(RemoveAt(s, k)) = Len(s) - 1
         /\ \A i \in 1..(Len(s) - 1) :
              RemoveAt(s, k)[i] = IF i < k THEN s[i] ELSE s[i + 1]
<1>. DEFINE a == SubSeq(s, 1, k - 1)
            b == SubSeq(s, k + 1, Len(s))
<1>1. Len(s) \in Nat
  BY LenProperties
<1>2. /\ a \in Seq(Players) /\ Len(a) = k - 1
      /\ \A i \in 1..(k - 1) : a[i] = s[i]
  <2>1. \A i \in 1..(k - 1) : s[i] \in Players
    BY <1>1, ElementOfSeq
  <2>. QED
    BY <1>1, <2>1, SubSeqProperties
<1>3. /\ b \in Seq(Players) /\ Len(b) = Len(s) - k
      /\ \A i \in 1..(Len(s) - k) : b[i] = s[k + i]
  <2>1. \A i \in (k + 1)..Len(s) : s[i] \in Players
    BY <1>1, ElementOfSeq
  <2>. QED
    BY <1>1, <2>1, SubSeqProperties
<1>. HIDE DEF a, b
<1>4. /\ a \o b \in Seq(Players)
      /\ Len(a \o b) = Len(a) + Len(b)
      /\ \A i \in 1..(Len(a) + Len(b)) :
           (a \o b)[i] = IF i <= Len(a) THEN a[i] ELSE b[i - Len(a)]
  BY <1>2, <1>3, ConcatProperties
<1>5. RemoveAt(s, k) = a \o b
  BY DEF RemoveAt, a, b
<1>6. ASSUME NEW i \in 1..(Len(s) - 1)
      PROVE  (a \o b)[i] = IF i < k THEN s[i] ELSE s[i + 1]
  <2>1. CASE i < k
    BY <1>1, <1>2, <1>3, <1>4, <2>1
  <2>2. CASE ~(i < k)
    <3>1. i - (k - 1) \in 1..(Len(s) - k) /\ k + (i - (k - 1)) = i + 1
      BY <1>1, <2>2
    <3>2. i \in 1..(Len(a) + Len(b)) /\ ~(i <= Len(a)) /\ i - Len(a) = i - (k - 1)
      BY <1>1, <1>2, <1>3, <2>2
    <3>3. (a \o b)[i] = b[i - (k - 1)]
      BY <1>4, <3>2
    <3>. QED
      BY <1>3, <2>2, <3>1, <3>3
  <2>. QED
    BY <2>1, <2>2
<1>. QED
  BY <1>1, <1>2, <1>3, <1>4, <1>5, <1>6

\* find and erase: the element is gone, the others are there, once.
LEMMA WithoutElements ==
  ASSUME NEW s \in Seq(Players), Distinct(s), NEW p
  PROVE  /\ Without(s, p) \in Seq(Players)
         /\ Distinct(Without(s, p))
         /\ \A q : InSeq(Without(s, p), q) <=> InSeq(s, q) /\ q # p
<1>0. Len(s) \in Nat
  BY LenProperties
<1>1. CASE ~InSeq(s, p)
  BY <1>1 DEF Without, InSeq
<1>2. CASE InSeq(s, p)
  <2>1. PICK k \in 1..Len(s) : s[k] = p /\ Without(s, p) = RemoveAt(s, k)
    BY <1>2 DEF Without, InSeq
  <2>. DEFINE r == RemoveAt(s, k)
  <2>2. /\ r \in Seq(Players)
        /\ Len(r) = Len(s) - 1
        /\ \A i \in 1..(Len(s) - 1) : r[i] = IF i < k THEN s[i] ELSE s[i + 1]
    BY RemoveAtElements
  <2>. HIDE DEF r
  <2>3. Distinct(r)
    <3>. SUFFICES ASSUME NEW i \in 1..(Len(s) - 1), NEW j \in 1..(Len(s) - 1),
                         r[i] = r[j]
                  PROVE  i = j
      BY <1>0, <2>2 DEF Distinct
    <3>. DEFINE up(n) == IF n < k THEN n ELSE n + 1
    <3>1. /\ up(i) \in 1..Len(s) /\ up(j) \in 1..Len(s)
          /\ r[i] = s[up(i)] /\ r[j] = s[up(j)]
      BY <1>0, <2>2
    <3>2. up(i) = up(j)
      BY <3>1 DEF Distinct
    <3>. QED
      BY <3>2
  <2>4. ASSUME NEW q, InSeq(r, q) PROVE InSeq(s, q) /\ q # p
    <3>1. PICK i \in 1..(Len(s) - 1) : r[i] = q
      BY <1>0, <2>2, <2>4 DEF InSeq
    <3>. DEFINE n == IF i < k THEN i ELSE i + 1
    <3>2. n \in 1..Len(s) /\ n # k /\ s[n] = q
      BY <1>0, <2>2, <3>1
    <3>. QED
      BY <2>1, <3>2 DEF InSeq, Distinct
  <2>5. ASSUME NEW q, InSeq(s, q), q # p PROVE InSeq(r, q)
    <3>1. PICK i \in 1..Len(s) : s[i] = q
      BY <2>5 DEF InSeq
    <3>2. i # k
      BY <2>1, <2>5, <3>1
    <3>. DEFINE n == IF i < k THEN i ELSE i - 1
    <3>3. n \in 1..(Len(s) - 1) /\ r[n] = q
      <4>1. n \in 1..(Len(s) - 1) /\ (IF n < k THEN n ELSE n + 1) = i
        BY <1>0, <3>2
      <4>2. r[n] = s[i]
        BY <2>2, <4>1
      <4>. QED
        BY <3>1, <4>1, <4>2
    <3>. QED
      BY <2>2, <3>3 DEF InSeq
  <2>. QED
    BY <2>1, <2>2, <2>3, <2>4, <2>5 DEF r
<1>. QED
  BY <1>1, <1>2

\* joinParty puts the player at the end of the memberList.
LEMMA AppendElements ==
  ASSUME NEW s \in Seq(Players), Distinct(s), NEW p \in Players, ~InSeq(s, p)
  PROVE  /\ Append(s, p) \in Seq(Players)
         /\ Distinct(Append(s, p))
         /\ \A q : InSeq(Append(s, p), q) <=> InSeq(s, q) \/ q = p
         /\ Append(s, p) # <<>>
<1>1. Len(s) \in Nat
  BY LenProperties
<1>2. /\ Append(s, p) \in Seq(Players)
      /\ Len(Append(s, p)) = Len(s) + 1
      /\ \A i \in 1..Len(s) : Append(s, p)[i] = s[i]
      /\ Append(s, p)[Len(s) + 1] = p
      /\ Append(s, p) # <<>>
  BY AppendProperties
<1>3. \A i \in 1..(Len(s) + 1) : i \in 1..Len(s) \/ i = Len(s) + 1
  BY <1>1
<1>4. Len(s) + 1 \in 1..(Len(s) + 1) /\ 1..Len(s) \subseteq 1..(Len(s) + 1)
  BY <1>1
<1>5. Distinct(Append(s, p))
  BY <1>2, <1>3 DEF Distinct, InSeq
<1>6. \A q : InSeq(Append(s, p), q) <=> InSeq(s, q) \/ q = p
  BY <1>2, <1>3, <1>4 DEF InSeq
<1>. QED
  BY <1>2, <1>5, <1>6

\* A player in front of a list.
LEMMA ConsElements ==
  ASSUME NEW s \in Seq(Players), Distinct(s), NEW p \in Players, ~InSeq(s, p)
  PROVE  /\ <<p>> \o s \in Seq(Players)
         /\ Distinct(<<p>> \o s)
         /\ \A q : InSeq(<<p>> \o s, q) <=> InSeq(s, q) \/ q = p
         /\ <<p>> \o s # <<>>
<1>. DEFINE c == <<p>> \o s
<1>1. Len(s) \in Nat
  BY LenProperties
<1>2. <<p>> \in Seq(Players) /\ Len(<<p>>) = 1 /\ <<p>>[1] = p
  OBVIOUS
<1>3. /\ c \in Seq(Players)
      /\ Len(c) = 1 + Len(s)
      /\ \A i \in 1..(1 + Len(s)) : c[i] = IF i <= 1 THEN p ELSE s[i - 1]
  <2>1. /\ c \in Seq(Players)
        /\ Len(c) = Len(<<p>>) + Len(s)
        /\ \A i \in 1..(Len(<<p>>) + Len(s)) :
             c[i] = IF i <= Len(<<p>>) THEN <<p>>[i] ELSE s[i - Len(<<p>>)]
    BY <1>2, ConcatProperties
  <2>. QED
    BY <1>1, <1>2, <2>1
<1>. HIDE DEF c
<1>4. c[1] = p /\ \A i \in 1..Len(s) : i + 1 \in 1..(1 + Len(s)) /\ c[i + 1] = s[i]
  BY <1>1, <1>3
<1>5. \A i \in 1..(1 + Len(s)) : i = 1 \/ (i - 1 \in 1..Len(s) /\ c[i] = s[i - 1])
  BY <1>1, <1>3
<1>6. Distinct(c)
  <2>. SUFFICES ASSUME NEW i \in 1..(1 + Len(s)), NEW j \in 1..(1 + Len(s)),
                       c[i] = c[j]
                PROVE  i = j
    BY <1>3 DEF Distinct
  <2>1. CASE i = 1 /\ j # 1
    BY <1>4, <1>5, <2>1 DEF InSeq
  <2>2. CASE i # 1 /\ j = 1
    BY <1>4, <1>5, <2>2 DEF InSeq
  <2>3. CASE i # 1 /\ j # 1
    <3>1. i - 1 = j - 1
      BY <1>5, <2>3 DEF Distinct
    <3>. QED
      BY <3>1
  <2>. QED
    BY <2>1, <2>2, <2>3
<1>7. ASSUME NEW q PROVE InSeq(c, q) <=> InSeq(s, q) \/ q = p
  <2>1. ASSUME InSeq(c, q) PROVE InSeq(s, q) \/ q = p
    <3>1. PICK i \in 1..(1 + Len(s)) : c[i] = q
      BY <1>3, <2>1 DEF InSeq
    <3>. QED
      BY <1>4, <1>5, <3>1 DEF InSeq
  <2>2. ASSUME InSeq(s, q) PROVE InSeq(c, q)
    <3>1. PICK i \in 1..Len(s) : s[i] = q
      BY <2>2 DEF InSeq
    <3>. QED
      BY <1>3, <1>4, <3>1 DEF InSeq
  <2>3. InSeq(c, p)
    <3>1. 1 \in 1..Len(c) /\ c[1] = p
      BY <1>1, <1>3, <1>4
    <3>. QED
      BY <3>1 DEF InSeq
  <2>. QED
    BY <2>1, <2>2, <2>3
<1>8. c # <<>>
  <2>1. Len(c) # 0
    BY <1>1, <1>3
  <2>. QED
    BY <2>1
<1>. QED
  BY <1>3, <1>6, <1>7, <1>8 DEF c

-----------------------------------------------------------------------------
(* The methods of Party keep the worlds in order.                          *)

\* The old leader takes the place of the new one among the members: who is in
\* the party does not change.
LEMMA PassLeadershipKeeps ==
  ASSUME NEW g \in Group, Sound(g), NEW p \in Players, InSeq(g.members, p)
  PROVE  /\ PassLeadership(g, p) \in Group
         /\ Sound(PassLeadership(g, p))
         /\ PassLeadership(g, p).leader = p
         /\ PassLeadership(g, p).invites = g.invites
         /\ \A q : In(PassLeadership(g, p), q) <=> In(g, q)
         /\ PassLeadership(g, p).members # <<>>
<1>. DEFINE r == Without(g.members, p)
            h == PassLeadership(g, p)
<1>1. /\ g.members \in Seq(Players) /\ Distinct(g.members)
      /\ ~InSeq(g.members, g.leader) /\ g.leader \in Players
  BY DEF Group, Sound
<1>2. /\ r \in Seq(Players) /\ Distinct(r)
      /\ \A q : InSeq(r, q) <=> InSeq(g.members, q) /\ q # p
  BY <1>1, WithoutElements
<1>3. ~InSeq(r, g.leader)
  BY <1>1, <1>2
<1>4. /\ <<g.leader>> \o r \in Seq(Players) /\ Distinct(<<g.leader>> \o r)
      /\ \A q : InSeq(<<g.leader>> \o r, q) <=> InSeq(r, q) \/ q = g.leader
      /\ <<g.leader>> \o r # <<>>
  BY <1>1, <1>2, <1>3, ConsElements
<1>5. h = [leader |-> p, members |-> <<g.leader>> \o r, invites |-> g.invites]
  <2>1. g = [leader |-> g.leader, members |-> g.members, invites |-> g.invites]
    BY DEF Group
  <2>. HIDE DEF r
  <2>2. h = [g EXCEPT !.leader = p, !.members = <<g.leader>> \o r]
    BY DEF PassLeadership, r
  <2>. HIDE DEF h
  <2>. DEFINE c == <<g.leader>> \o r
  <2>3. h = [g EXCEPT !.leader = p, !.members = c]
    BY <2>2
  <2>. HIDE DEF c
  <2>4. h = [leader |-> p, members |-> c, invites |-> g.invites]
    BY <2>1, <2>3
  <2>. QED
    BY <2>4 DEF c
<1>. HIDE DEF r, h
<1>6. h \in Group
  BY <1>4, <1>5 DEF Group
<1>7. g.leader # p
  BY <1>1
<1>. QED
  BY <1>1, <1>2, <1>4, <1>5, <1>6, <1>7 DEF Sound, In, h

\* The lists of a party that does not exist say nothing.
LEMMA NoGroupInv ==
  ASSUME NEW w, NEW P \in Parties, NEW S, w.group[P] = NoGroup,
         \A q \in Players : w.party[q] # P,
         \A q \in Players \ S : P \notin w.invited[q]
  PROVE  PartyInv(w, P, S)
<1>1. /\ NoGroup.members = <<>> /\ NoGroup.leader = NoPlayer
      /\ NoGroup.invites = {} /\ 1..Len(<<>>) = {}
  BY DEF NoGroup
<1>2. \A q \in Players : ~In(NoGroup, q)
  BY <1>1, PartyAssumption DEF In, InSeq
<1>3. Sound(NoGroup) /\ NoInsider(NoGroup, S)
  BY <1>1 DEF Sound, NoInsider, Distinct, InSeq
<1>. QED
  BY <1>1, <1>2, <1>3 DEF PartyInv, Remembered

\* disband: whoever is in the party or invited to it forgets it.  The lists of
\* the other parties are not touched.
LEMMA DisbandKeeps ==
  ASSUME NEW w, WorldType(w), NEW P \in Parties, NEW S,
         \A Q \in Parties \ {P} : PartyInv(w, Q, S),
         \A q \in Players : w.party[q] = P => In(w.group[P], q),
         \A q \in Players : In(w.group[P], q) => w.party[q] \in {P, NoParty},
         Remembered(w, w.group[P], P, S)
  PROVE  WorldInv(Disband(w, P), S)
<1>. DEFINE d == Disband(w, P)
            g == w.group[P]
<1>1. /\ d = [group |-> d.group, party |-> d.party, invited |-> d.invited]
      /\ d.group = [w.group EXCEPT ![P] = NoGroup]
      /\ d.party = [q \in Players |-> IF In(g, q) THEN NoParty ELSE w.party[q]]
      /\ d.invited = [q \in Players |->
                        w.invited[q] \ (IF q \in g.invites THEN {P} ELSE {})]
  BY DEF Disband, In, InSeq, IsMember
<1>. HIDE DEF d
<1>2. WorldType(d)
  BY <1>1 DEF WorldType
<1>3. PartyInv(d, P, S)
  <2>1. d.group[P] = NoGroup
    BY <1>1 DEF WorldType
  <2>2. \A q \in Players : d.party[q] # P
    BY <1>1, PartyAssumption
  <2>3. \A q \in Players \ S : P \notin d.invited[q]
    BY <1>1 DEF WorldType, Remembered
  <2>. QED
    BY <2>1, <2>2, <2>3, NoGroupInv
<1>4. ASSUME NEW Q \in Parties \ {P} PROVE PartyInv(d, Q, S)
  <2>1. d.group[Q] = w.group[Q]
    BY <1>1 DEF WorldType
  <2>2. \A q \in Players : d.party[q] = Q <=> w.party[q] = Q
    BY <1>1, PartyAssumption
  <2>3. \A q \in Players : Q \in d.invited[q] <=> Q \in w.invited[q]
    BY <1>1
  <2>. QED
    BY <2>1, <2>2, <2>3 DEF PartyInv, Remembered
<1>. QED
  BY <1>2, <1>3, <1>4 DEF WorldInv, d

\* What a world tells of a player, another world tells no more of it: it stays in
\* its party or has none, and gets no invitation.
Shrinks(w, v) ==
  \A q \in Players : /\ v.party[q] \in {w.party[q], NoParty}
                     /\ v.invited[q] \subseteq w.invited[q]

LEMMA DisbandShrinks ==
  ASSUME NEW w, WorldType(w), NEW P \in Parties
  PROVE  Shrinks(w, Disband(w, P))
BY DEF Shrinks, Disband, WorldType

\* What is left of group g when player p leaves it.
Rest(g, p) == [leader |-> g.leader, members |-> Without(g.members, p),
               invites |-> g.invites \ {p}]

LEMMA RestOfGroup ==
  ASSUME NEW g \in Group, Sound(g), NEW p \in Players
  PROVE  /\ Rest(g, p) = [g EXCEPT !.members = Without(g.members, p),
                                   !.invites = @ \ {p}]
         /\ Rest(g, p) \in Group /\ Sound(Rest(g, p))
         /\ Rest(g, p).leader = g.leader /\ Rest(g, p).invites = g.invites \ {p}
         /\ \A q : In(Rest(g, p), q) <=> In(g, q) /\ (q # p \/ g.leader = p)
<1>. DEFINE r == Without(g.members, p)
            h == Rest(g, p)
<1>1. /\ g = [leader |-> g.leader, members |-> g.members, invites |-> g.invites]
      /\ g.leader \in Players /\ g.members \in Seq(Players)
      /\ g.invites \in SUBSET Players
      /\ Distinct(g.members) /\ ~InSeq(g.members, g.leader)
  BY DEF Group, Sound
<1>2. /\ r \in Seq(Players) /\ Distinct(r)
      /\ \A q : InSeq(r, q) <=> InSeq(g.members, q) /\ q # p
  BY <1>1, WithoutElements
<1>3. h = [leader |-> g.leader, members |-> r, invites |-> g.invites \ {p}]
  BY DEF Rest
<1>. HIDE DEF r, h
<1>4. h = [g EXCEPT !.members = r, !.invites = @ \ {p}]
  <2>. DEFINE x == [g EXCEPT !.members = r, !.invites = @ \ {p}]
              j == g.invites \ {p}
  <2>1. x = [g EXCEPT !.members = r, !.invites = j]
    BY Zenon
  <2>. HIDE DEF x, j
  <2>2. x = [leader |-> g.leader, members |-> r, invites |-> j]
    BY <1>1, <2>1
  <2>. QED
    BY <1>3, <2>2 DEF x, j
<1>5. h.leader = g.leader /\ h.members = r /\ h.invites = g.invites \ {p}
  BY <1>3
<1>6. h \in Group
  BY <1>1, <1>2, <1>3 DEF Group
<1>7. Sound(h)
  BY <1>1, <1>2, <1>5 DEF Sound
<1>8. \A q : In(h, q) <=> In(g, q) /\ (q # p \/ g.leader = p)
  BY <1>1, <1>2, <1>5 DEF In
<1>. QED
  BY <1>4, <1>5, <1>6, <1>7, <1>8 DEF r, h

\* removeInvite: the player forgets the invitation, and a party that has neither
\* members nor invitations any more is disbanded.
LEMMA RemoveInviteKeeps ==
  ASSUME NEW w, NEW S, WorldInv(w, S), NEW P \in Parties, NEW q \in Players,
         q \in w.group[P].invites
  PROVE  /\ WorldInv(RemoveInvite(w, P, q), S)
         /\ Shrinks(w, RemoveInvite(w, P, q))
<1>. DEFINE g  == w.group[P]
            g1 == [leader |-> g.leader, members |-> g.members,
                   invites |-> g.invites \ {q}]
            w1 == [w EXCEPT !.group[P].invites = @ \ {q}, !.invited[q] = @ \ {P}]
<1>1. WorldType(w) /\ \A Q \in Parties : PartyInv(w, Q, S)
  BY DEF WorldInv
<1>2. g \in Group
  <2>1. NoGroup.invites = {} /\ g.invites # {}
    BY DEF NoGroup
  <2>2. g \in Group \cup {NoGroup}
    BY <1>1 DEF WorldType
  <2>. QED
    BY <2>1, <2>2
<1>3. g1 = [g EXCEPT !.invites = @ \ {q}]
  <2>1. g = [leader |-> g.leader, members |-> g.members, invites |-> g.invites]
    BY <1>2 DEF Group
  <2>. QED
    BY <2>1
<1>4. /\ w1 = [group |-> w1.group, party |-> w1.party, invited |-> w1.invited]
      /\ w1.group = [w.group EXCEPT ![P] = g1]
      /\ w1.party = w.party
      /\ w1.invited = [w.invited EXCEPT ![q] = @ \ {P}]
  <2>1. w = [group |-> w.group, party |-> w.party, invited |-> w.invited]
    BY <1>1 DEF WorldType
  <2>. DEFINE G == [w.group EXCEPT ![P].invites = @ \ {q}]
              I == [w.invited EXCEPT ![q] = @ \ {P}]
  <2>2. w1 = [w EXCEPT !.group = G, !.invited = I]
    BY Zenon
  <2>3. G = [w.group EXCEPT ![P] = g1]
    BY <1>3, Zenon
  <2>. HIDE DEF G, I, w1
  <2>4. w1 = [group |-> G, party |-> w.party, invited |-> I]
    BY <2>1, <2>2
  <2>. QED
    BY <2>3, <2>4 DEF I
<1>5. /\ g1 \in Group
      /\ g1.leader = g.leader /\ g1.members = g.members
      /\ g1.invites = g.invites \ {q}
  BY <1>2 DEF Group
<1>. HIDE DEF w1, g1
<1>6. w1.group[P] = g1 /\ WorldType(w1)
  <2>1. /\ w.group \in [Parties -> Group \cup {NoGroup}]
        /\ w.party \in [Players -> Parties \cup {NoParty}]
        /\ w.invited \in [Players -> SUBSET Parties]
    BY <1>1 DEF WorldType
  <2>2. /\ w1.group[P] = g1
        /\ w1.group \in [Parties -> Group \cup {NoGroup}]
    BY <1>4, <1>5, <2>1
  <2>3. w1.invited \in [Players -> SUBSET Parties]
    BY <1>4, <2>1
  <2>. QED
    BY <1>4, <2>1, <2>2, <2>3 DEF WorldType
<1>7. ASSUME NEW Q \in Parties \ {P} PROVE PartyInv(w1, Q, S)
  <2>1. /\ w1.group[Q] = w.group[Q]
        /\ \A r \in Players : Q \in w1.invited[r] <=> Q \in w.invited[r]
    <3>1. /\ w.group \in [Parties -> Group \cup {NoGroup}]
          /\ w.invited \in [Players -> SUBSET Parties]
      BY <1>1 DEF WorldType
    <3>. QED
      BY <1>4, <3>1
  <2>. QED
    BY <1>1, <1>4, <2>1 DEF PartyInv, Remembered
<1>8. /\ \A r \in Players : w1.party[r] = P <=> In(g1, r)
      /\ Remembered(w1, g1, P, S)
      /\ Sound(g1) /\ NoInsider(g1, S)
  <2>1. \A r : In(g1, r) <=> In(g, r)
    BY <1>5 DEF In
  <2>2. \A r \in Players : P \in w1.invited[r] <=> P \in w.invited[r] /\ r # q
    BY <1>1, <1>4 DEF WorldType
  <2>3. Remembered(w1, g1, P, S)
    BY <1>1, <1>5, <2>2 DEF PartyInv, Remembered
  <2>. QED
    BY <1>1, <1>4, <1>5, <2>1, <2>3 DEF PartyInv, Sound, NoInsider
<1>9. Shrinks(w, w1)
  BY <1>1, <1>4 DEF Shrinks, WorldType
<1>10. CASE Deserted(g1)
  <2>1. RemoveInvite(w, P, q) = Disband(w1, P)
    BY <1>6, <1>10 DEF RemoveInvite, w1
  <2>2. WorldInv(Disband(w1, P), S)
    BY <1>6, <1>7, <1>8, DisbandKeeps
  <2>3. Shrinks(w1, Disband(w1, P))
    BY <1>6, DisbandShrinks
  <2>. QED
    BY <1>9, <2>1, <2>2, <2>3 DEF Shrinks
<1>11. CASE ~Deserted(g1)
  <2>1. RemoveInvite(w, P, q) = w1
    BY <1>6, <1>11 DEF RemoveInvite, w1
  <2>2. PartyInv(w1, P, S)
    BY <1>6, <1>8, <1>11 DEF PartyInv
  <2>. QED
    BY <1>6, <1>7, <1>9, <2>1, <2>2 DEF WorldInv
<1>. QED
  BY <1>10, <1>11

\* clearPartyInvitations: a party ends when the player was all it was waiting
\* for, and its leader is free again.
LEMMA ClearPartyInvitationsKeeps ==
  ASSUME NEW w, NEW S, WorldInv(w, S), NEW p \in Players
  PROVE  /\ WorldInv(ClearPartyInvitations(w, p), S)
         /\ Shrinks(w, ClearPartyInvitations(w, p))
         /\ ClearPartyInvitations(w, p).invited[p] = {}
<1>. DEFINE c == ClearPartyInvitations(w, p)
            emptied(P) == P \in w.invited[p] /\ w.group[P].invites = {p}
                            /\ w.group[P].members = <<>>
            left(P) == [w.group[P] EXCEPT !.invites =
                          IF P \in w.invited[p] THEN @ \ {p} ELSE @]
<1>1. /\ w.group \in [Parties -> Group \cup {NoGroup}]
      /\ w.party \in [Players -> Parties \cup {NoParty}]
      /\ w.invited \in [Players -> SUBSET Parties]
      /\ \A Q \in Parties : PartyInv(w, Q, S)
  BY DEF WorldInv, WorldType
<1>2. /\ c = [group |-> c.group, party |-> c.party, invited |-> c.invited]
      /\ c.group = [P \in Parties |-> IF emptied(P) THEN NoGroup ELSE left(P)]
      /\ c.party = [q \in Players |->
                      IF \E P \in Parties : emptied(P) /\ w.group[P].leader = q
                        THEN NoParty ELSE w.party[q]]
      /\ c.invited = [w.invited EXCEPT ![p] = {}]
  BY DEF ClearPartyInvitations
<1>3. ASSUME NEW P \in Parties
      PROVE  /\ left(P) = [leader |-> w.group[P].leader, members |-> w.group[P].members,
                           invites |-> w.group[P].invites \ {p}]
             /\ p \in w.group[P].invites => P \in w.invited[p]
  <2>. DEFINE g == w.group[P]
  <2>1. p \in g.invites => P \in w.invited[p]
    BY <1>1 DEF PartyInv, Remembered
  <2>2. g = [leader |-> g.leader, members |-> g.members, invites |-> g.invites]
    BY <1>1 DEF Group, NoGroup
  <2>. DEFINE j == IF P \in w.invited[p] THEN g.invites \ {p} ELSE g.invites
  <2>3. j = g.invites \ {p}
    BY <2>1
  <2>4. left(P) = [g EXCEPT !.invites = j]
    BY Zenon
  <2>. HIDE DEF g, j, left
  <2>5. left(P) = [leader |-> g.leader, members |-> g.members, invites |-> j]
    BY <2>2, <2>4
  <2>. QED
    BY <2>1, <2>3, <2>5 DEF g
<1>. HIDE DEF c, left
<1>4. ASSUME NEW P \in Parties, emptied(P)
      PROVE  /\ c.group[P] = NoGroup
             /\ \A q \in Players : In(w.group[P], q) <=> w.group[P].leader = q
             /\ \A q \in Players : c.party[q] # P
             /\ \A q \in Players \ S : P \notin c.invited[q]
  <2>1. c.group[P] = NoGroup
    BY <1>2, <1>4
  <2>2. \A q \in Players : In(w.group[P], q) <=> w.group[P].leader = q
    <3>1. 1..Len(<<>>) = {}
      OBVIOUS
    <3>. QED
      BY <1>4, <3>1 DEF In, InSeq
  <2>3. ASSUME NEW q \in Players PROVE c.party[q] # P
    <3>1. CASE w.party[q] = P
      BY <1>1, <1>2, <1>4, <2>2, <3>1, PartyAssumption DEF PartyInv
    <3>2. CASE w.party[q] # P
      BY <1>2, <3>2, PartyAssumption
    <3>. QED
      BY <3>1, <3>2
  <2>4. ASSUME NEW q \in Players \ S PROVE P \notin c.invited[q]
    <3>1. P \in w.invited[q] => q = p
      BY <1>1, <1>4 DEF PartyInv, Remembered
    <3>. QED
      BY <1>1, <1>2, <3>1
  <2>. QED
    BY <2>1, <2>2, <2>3, <2>4
<1>5. ASSUME NEW P \in Parties, ~emptied(P), NEW q \in Players
      PROVE  /\ c.party[q] = P <=> w.party[q] = P
             /\ P \in c.invited[q] <=> P \in w.invited[q] /\ q # p
  <2>1. P \in c.invited[q] <=> P \in w.invited[q] /\ q # p
    BY <1>1, <1>2
  <2>2. ASSUME w.party[q] = P PROVE c.party[q] = P
    <3>1. ASSUME NEW Q \in Parties, emptied(Q), w.group[Q].leader = q PROVE FALSE
      <4>1. w.party[q] = Q
        BY <1>1, <3>1 DEF PartyInv, In
      <4>. QED
        BY <1>5, <2>2, <3>1, <4>1
    <3>. QED
      BY <1>2, <2>2, <3>1
  <2>3. ASSUME c.party[q] = P PROVE w.party[q] = P
    BY <1>2, <2>3, PartyAssumption
  <2>. QED
    BY <2>1, <2>2, <2>3
<1>. HIDE DEF emptied
<1>6. WorldType(c)
  <2>1. ASSUME NEW P \in Parties PROVE c.group[P] \in Group \cup {NoGroup}
    <3>1. CASE emptied(P)
      BY <1>4, <3>1
    <3>2. CASE ~emptied(P)
      <4>1. c.group[P] = left(P)
        BY <1>2, <3>2
      <4>2. CASE w.group[P] \in Group
        BY <1>3, <4>1, <4>2 DEF Group
      <4>3. CASE w.group[P] = NoGroup
        BY <1>3, <4>1, <4>3 DEF NoGroup
      <4>. QED
        BY <1>1, <4>2, <4>3
    <3>. QED
      BY <3>1, <3>2
  <2>2. c.group \in [Parties -> Group \cup {NoGroup}]
    BY <1>2, <2>1
  <2>3. c.party \in [Players -> Parties \cup {NoParty}]
    BY <1>1, <1>2
  <2>4. c.invited \in [Players -> SUBSET Parties]
    BY <1>1, <1>2
  <2>. QED
    BY <1>2, <2>2, <2>3, <2>4 DEF WorldType
<1>7. ASSUME NEW P \in Parties PROVE PartyInv(c, P, S)
  <2>. DEFINE g == w.group[P]
  <2>1. CASE emptied(P)
    BY <1>4, <2>1, NoGroupInv
  <2>2. CASE ~emptied(P)
    <3>1. /\ c.group[P].leader = g.leader /\ c.group[P].members = g.members
          /\ c.group[P].invites = g.invites \ {p}
      BY <1>2, <1>3, <2>2
    <3>2. \A q \in Players : In(c.group[P], q) <=> In(g, q)
      BY <3>1 DEF In
    <3>3. Sound(c.group[P]) /\ NoInsider(c.group[P], S)
      BY <1>1, <3>1 DEF PartyInv, Sound, NoInsider, In
    <3>4. ASSUME c.group[P] # NoGroup PROVE ~Deserted(c.group[P])
      <4>1. g # NoGroup
        <5>1. g = NoGroup => g.leader = NoPlayer /\ g.members = <<>> /\ g.invites = {}
          BY DEF NoGroup
        <5>2. c.group[P] = [leader |-> g.leader, members |-> g.members,
                            invites |-> g.invites \ {p}]
          BY <1>2, <1>3, <2>2
        <5>. QED
          BY <3>4, <5>1, <5>2 DEF NoGroup
      <4>2. ~Deserted(g)
        BY <1>1, <4>1 DEF PartyInv
      <4>3. g.members = <<>> => g.invites # {p}
        BY <1>3, <2>2 DEF emptied
      <4>. QED
        BY <3>1, <4>2, <4>3 DEF Deserted
    <3>5. Remembered(c, c.group[P], P, S)
      <4>1. Remembered(w, g, P, S)
        BY <1>1 DEF PartyInv
      <4>2. \A q \in Players : P \in c.invited[q] <=> P \in w.invited[q] /\ q # p
        BY <1>5, <2>2
      <4>. QED
        BY <3>1, <4>1, <4>2 DEF Remembered
    <3>6. \A q \in Players : c.party[q] = P <=> In(c.group[P], q)
      BY <1>1, <1>5, <2>2, <3>2 DEF PartyInv
    <3>. QED
      BY <3>3, <3>4, <3>5, <3>6 DEF PartyInv
  <2>. QED
    BY <2>1, <2>2
<1>8. Shrinks(w, c) /\ c.invited[p] = {}
  BY <1>1, <1>2 DEF Shrinks
<1>. QED
  BY <1>6, <1>7, <1>8 DEF WorldInv, c

\* leaveParty, of a leader with members, of one without, or of a member.
LEMMA LeavePartyKeeps ==
  ASSUME NEW w, NEW S, WorldInv(w, S), NEW p \in Players, w.party[p] # NoParty
  PROVE  /\ WorldInv(LeaveParty(w, p), S)
         /\ Shrinks(w, LeaveParty(w, p))
         /\ LeaveParty(w, p).party[p] = NoParty
<1>. DEFINE P  == w.party[p]
            g  == w.group[P]
            g1 == IF g.leader = p /\ g.members # <<>>
                    THEN PassLeadership(g, Head(g.members)) ELSE g
            g2 == [g1 EXCEPT !.members = Without(g1.members, p), !.invites = @ \ {p}]
            w1 == [w EXCEPT !.group[P] = g2, !.party[p] = NoParty]
<1>1. /\ w = [group |-> w.group, party |-> w.party, invited |-> w.invited]
      /\ w.group \in [Parties -> Group \cup {NoGroup}]
      /\ w.party \in [Players -> Parties \cup {NoParty}]
      /\ w.invited \in [Players -> SUBSET Parties]
      /\ \A Q \in Parties : PartyInv(w, Q, S)
  BY DEF WorldInv, WorldType
<1>2. P \in Parties /\ In(g, p)
  BY <1>1 DEF PartyInv
<1>3. g \in Group /\ Sound(g) /\ NoInsider(g, S) /\ Remembered(w, g, P, S)
  <2>1. ~In(NoGroup, p)
    <3>1. NoGroup.members = <<>> /\ NoGroup.leader = NoPlayer /\ 1..Len(<<>>) = {}
      BY DEF NoGroup
    <3>. QED
      BY <3>1, PartyAssumption DEF In, InSeq
  <2>. QED
    BY <1>1, <1>2, <2>1 DEF PartyInv
<1>4. LeaveParty(w, p) = IF g1.leader = p \/ Deserted(g2) THEN Disband(w1, P) ELSE w1
  BY DEF LeaveParty
<1>. HIDE DEF P, g
<1>5. /\ g1 \in Group /\ Sound(g1) /\ g1.invites = g.invites
      /\ \A q : In(g1, q) <=> In(g, q)
  <2>1. CASE g.leader = p /\ g.members # <<>>
    <3>1. g.members \in Seq(Players)
      BY <1>3 DEF Group
    <3>2. /\ Head(g.members) \in Players /\ Head(g.members) = g.members[1]
          /\ 1 \in 1..Len(g.members)
      BY <2>1, <3>1
    <3>3. InSeq(g.members, Head(g.members))
      BY <3>2 DEF InSeq
    <3>. QED
      BY <1>3, <2>1, <3>2, <3>3, PassLeadershipKeeps
  <2>2. CASE ~(g.leader = p /\ g.members # <<>>)
    BY <1>3, <2>2
  <2>. QED
    BY <2>1, <2>2
<1>. HIDE DEF g1
<1>6. /\ g2 \in Group /\ Sound(g2)
      /\ g2.leader = g1.leader /\ g2.invites = g.invites \ {p}
      /\ \A q : In(g2, q) <=> In(g, q) /\ (q # p \/ g1.leader = p)
  <2>1. g2 = Rest(g1, p)
    BY <1>5, RestOfGroup
  <2>2. /\ Rest(g1, p) \in Group /\ Sound(Rest(g1, p))
        /\ Rest(g1, p).leader = g1.leader
        /\ Rest(g1, p).invites = g1.invites \ {p}
        /\ \A q : In(Rest(g1, p), q) <=> In(g1, q) /\ (q # p \/ g1.leader = p)
    BY <1>5, RestOfGroup
  <2>. HIDE DEF g2
  <2>. QED
    BY <1>5, <2>1, <2>2
<1>. HIDE DEF g2
<1>7. /\ w1 = [group |-> w1.group, party |-> w1.party, invited |-> w1.invited]
      /\ w1.group = [w.group EXCEPT ![P] = g2]
      /\ w1.party = [w.party EXCEPT ![p] = NoParty]
      /\ w1.invited = w.invited
  <2>. DEFINE G == [w.group EXCEPT ![P] = g2]
              T == [w.party EXCEPT ![p] = NoParty]
  <2>1. w1 = [w EXCEPT !.group = G, !.party = T]
    BY Zenon
  <2>. HIDE DEF G, T, w1
  <2>2. w1 = [group |-> G, party |-> T, invited |-> w.invited]
    BY <1>1, <2>1
  <2>. QED
    BY <2>2 DEF G, T
<1>. HIDE DEF w1
<1>8. w1.group[P] = g2 /\ WorldType(w1)
  <2>1. /\ w1.group[P] = g2
        /\ w1.group \in [Parties -> Group \cup {NoGroup}]
    BY <1>1, <1>2, <1>6, <1>7
  <2>2. w1.party \in [Players -> Parties \cup {NoParty}]
    BY <1>1, <1>7
  <2>. QED
    BY <1>1, <1>7, <2>1, <2>2 DEF WorldType
<1>9. /\ \A q \in Players : w1.party[q] = P <=> w.party[q] = P /\ q # p
      /\ \A q \in Players, Q \in Parties \ {P} : w1.party[q] = Q <=> w.party[q] = Q
      /\ w1.party[p] = NoParty
  BY <1>1, <1>2, <1>7, PartyAssumption DEF P
<1>10. ASSUME NEW Q \in Parties \ {P} PROVE PartyInv(w1, Q, S)
  <2>1. w1.group[Q] = w.group[Q]
    BY <1>1, <1>7
  <2>. QED
    BY <1>1, <1>7, <1>9, <2>1 DEF PartyInv, Remembered
<1>11. \A q \in Players : In(g, q) <=> w.party[q] = P
  BY <1>1, <1>2 DEF PartyInv, g
<1>12. Remembered(w1, g2, P, S)
  <2>1. p \in g.invites => p \in S
    BY <1>2, <1>3 DEF NoInsider
  <2>. QED
    BY <1>3, <1>6, <1>7, <2>1 DEF Remembered
<1>13. Shrinks(w, w1)
  BY <1>1, <1>7 DEF Shrinks
<1>14. CASE g1.leader = p \/ Deserted(g2)
  <2>1. WorldInv(Disband(w1, P), S)
    <3>1. \A q \in Players : w1.party[q] = P => In(w1.group[P], q)
      BY <1>6, <1>8, <1>9, <1>11
    <3>2. \A q \in Players : In(w1.group[P], q) => w1.party[q] \in {P, NoParty}
      BY <1>6, <1>8, <1>9, <1>11
    <3>. QED
      BY <1>2, <1>8, <1>10, <1>12, <3>1, <3>2, DisbandKeeps
  <2>2. Shrinks(w1, Disband(w1, P))
    BY <1>2, <1>8, DisbandShrinks
  <2>. QED
    BY <1>4, <1>9, <1>13, <1>14, <2>1, <2>2 DEF Shrinks
<1>15. CASE ~(g1.leader = p \/ Deserted(g2))
  <2>1. \A q \in Players : w1.party[q] = P <=> In(g2, q)
    BY <1>6, <1>9, <1>11, <1>15
  <2>2. NoInsider(g2, S)
    BY <1>3, <1>6 DEF NoInsider
  <2>3. PartyInv(w1, P, S)
    BY <1>6, <1>8, <1>12, <1>15, <2>1, <2>2 DEF PartyInv
  <2>. QED
    BY <1>4, <1>8, <1>9, <1>10, <1>13, <1>15, <2>3 DEF WorldInv
<1>. QED
  BY <1>14, <1>15

-----------------------------------------------------------------------------
(* The handlers keep the invariant.                                        *)

LEMMA BecomesWorld ==
  ASSUME NEW w, NEW S, WorldInv(w, S), Becomes(w)
  PROVE  World' = w
BY DEF WorldInv, WorldType, Becomes, World

\* A handler that rewrites one party leaves the others in order.
LEMMA OneGroupChanges ==
  ASSUME NEW w, NEW S, WorldInv(w, S), NEW T, S \subseteq T,
         NEW v, WorldType(v), NEW P \in Parties,
         \A Q \in Parties \ {P} :
           /\ v.group[Q] = w.group[Q]
           /\ \A q \in Players : /\ v.party[q] = Q <=> w.party[q] = Q
                                 /\ Q \in v.invited[q] <=> Q \in w.invited[q],
         PartyInv(v, P, T)
  PROVE  WorldInv(v, T)
<1>1. ASSUME NEW Q \in Parties \ {P} PROVE PartyInv(v, Q, T)
  BY DEF WorldInv, PartyInv, Remembered, NoInsider
<1>. QED
  BY <1>1 DEF WorldInv

\* The invariant, unfolded for the variables themselves.
LEMMA IInvParts ==
  ASSUME IInv
  PROVE  /\ group \in [Parties -> Group \cup {NoGroup}]
         /\ party \in [Players -> Parties \cup {NoParty}]
         /\ invited \in [Players -> SUBSET Parties]
         /\ \A P \in Parties : PartyInv(World, P, selfInvited)
         /\ \A p \in Players, P \in Parties :
              /\ party[p] = P <=> In(group[P], p)
              /\ p \in group[P].invites => P \in invited[p]
              /\ P \in invited[p] /\ p \notin selfInvited => p \in group[P].invites
         /\ \A P \in Parties :
              /\ Sound(group[P]) /\ NoInsider(group[P], selfInvited)
              /\ group[P] # NoGroup => ~Deserted(group[P])
BY DEF IInv, WorldInv, WorldType, PartyInv, Remembered, World

LEMMA InitKeeps == Init => IInv
<1>. SUFFICES ASSUME Init PROVE IInv
  OBVIOUS
<1>1. ASSUME NEW P \in Parties PROVE PartyInv(World, P, selfInvited)
  BY NoGroupInv, PartyAssumption DEF Init, World
<1>2. WorldType(World)
  BY DEF Init, World, WorldType
<1>. QED
  BY <1>1, <1>2 DEF Init, IInv, WorldInv, GoneInv

\* Nobody is in a party that does not exist, and only who has invited itself
\* may remember it.
LEMMA FreePartyIsUnknown ==
  ASSUME IInv, NEW P \in Parties, group[P] = NoGroup
  PROVE  \A q \in Players : /\ party[q] # P
                            /\ q \notin selfInvited => P \notin invited[q]
<1>1. /\ NoGroup.members = <<>> /\ NoGroup.leader = NoPlayer
      /\ NoGroup.invites = {} /\ 1..Len(<<>>) = {}
  BY DEF NoGroup
<1>2. \A q \in Players : ~In(NoGroup, q)
  BY <1>1, PartyAssumption DEF In, InSeq
<1>. QED
  BY <1>1, <1>2, IInvParts

LEMMA InviteToPartyKeeps ==
  ASSUME IInv, NEW p \in Players, NEW q \in Players, InviteToParty(p, q)
  PROVE  IInv'
<1>1. /\ p \in online /\ q \in online /\ party[q] = NoParty
      /\ online' = online /\ broken' = broken
      /\ selfInvited' = selfInvited \cup ({p} \cap {q})
  BY DEF InviteToParty
<1>2. PICK P \in Parties :
        /\ \/ /\ party[p] = NoParty
              /\ group[P] = NoGroup
              /\ group' = [group EXCEPT ![P] =
                            [leader |-> p, members |-> <<>>, invites |-> {q}]]
           \/ /\ Leads(p)
              /\ P = party[p]
              /\ q \notin group[P].invites
              /\ group' = [group EXCEPT ![P].invites = @ \cup {q}]
        /\ party' = [party EXCEPT ![p] = P]
        /\ invited' = [invited EXCEPT ![q] = @ \cup {P}]
  BY DEF InviteToParty
<1>. DEFINE h == group'[P]
<1>3. /\ group' = [group EXCEPT ![P] = h]
      /\ h \in Group /\ Sound(h) /\ ~Deserted(h)
      /\ \A r \in Players : In(h, r) <=> party[r] = P \/ r = p
      /\ \A r \in Players :
           /\ r \in h.invites => P \in invited[r] \/ r = q
           /\ (P \in invited[r] /\ r \notin selfInvited) \/ r = q => r \in h.invites
      /\ NoInsider(h, selfInvited')
  <2>1. CASE party[p] = NoParty
    <3>1. /\ group[P] = NoGroup
          /\ group' = [group EXCEPT ![P] =
                        [leader |-> p, members |-> <<>>, invites |-> {q}]]
      BY <1>2, <2>1 DEF Leads
    <3>2. h = [leader |-> p, members |-> <<>>, invites |-> {q}]
      BY <3>1, IInvParts
    <3>3. h.leader = p /\ h.members = <<>> /\ h.invites = {q} /\ 1..Len(<<>>) = {}
      BY <3>2
    <3>4. \A r : In(h, r) <=> r = p
      BY <3>3 DEF In, InSeq
    <3>5. h \in Group
      BY <3>2 DEF Group
    <3>6. Sound(h) /\ ~Deserted(h)
      BY <3>3 DEF Sound, Distinct, InSeq, Deserted
    <3>7. NoInsider(h, selfInvited')
      BY <1>1, <3>3, <3>4 DEF NoInsider
    <3>. QED
      BY <3>1, <3>2, <3>3, <3>4, <3>5, <3>6, <3>7, FreePartyIsUnknown
  <2>2. CASE party[p] # NoParty
    <3>. DEFINE g == group[P]
    <3>1. /\ P = party[p] /\ q \notin g.invites
          /\ group' = [group EXCEPT ![P].invites = @ \cup {q}]
      BY <1>2, <2>2
    <3>2. g \in Group
      <4>1. /\ NoGroup.members = <<>> /\ NoGroup.leader = NoPlayer
            /\ 1..Len(<<>>) = {}
        BY DEF NoGroup
      <4>2. ~In(NoGroup, p)
        BY <4>1, PartyAssumption DEF In, InSeq
      <4>. QED
        BY <3>1, <4>2, IInvParts
    <3>3. g = [leader |-> g.leader, members |-> g.members, invites |-> g.invites]
      BY <3>2 DEF Group
    <3>4. h = [leader |-> g.leader, members |-> g.members,
               invites |-> g.invites \cup {q}]
      <4>. DEFINE j == g.invites \cup {q}
      <4>1. h = [g EXCEPT !.invites = j]
        BY <3>1, IInvParts
      <4>. HIDE DEF g, h, j
      <4>2. h = [leader |-> g.leader, members |-> g.members, invites |-> j]
        BY <3>3, <4>1
      <4>. QED
        BY <4>2 DEF j
    <3>5. group' = [group EXCEPT ![P] = h]
      BY <3>1, IInvParts
    <3>6. Sound(g) /\ NoInsider(g, selfInvited)
      BY IInvParts
    <3>7. \A r \in Players :
            /\ In(g, r) <=> party[r] = P
            /\ r \in g.invites => P \in invited[r]
            /\ P \in invited[r] /\ r \notin selfInvited => r \in g.invites
      BY IInvParts
    <3>. HIDE DEF g, h
    <3>8. /\ h.leader = g.leader /\ h.members = g.members
          /\ h.invites = g.invites \cup {q}
      BY <3>4
    <3>9. h \in Group
      BY <3>2, <3>4 DEF Group
    <3>10. \A r : In(h, r) <=> In(g, r)
      BY <3>8 DEF In
    <3>11. Sound(h) /\ ~Deserted(h)
      BY <3>6, <3>8 DEF Sound, Deserted
    <3>12. ~In(g, q)
      BY <1>1, <3>7, PartyAssumption
    <3>13. NoInsider(h, selfInvited')
      BY <1>1, <3>6, <3>8, <3>10, <3>12 DEF NoInsider
    <3>. QED
      BY <3>1, <3>5, <3>7, <3>8, <3>9, <3>10, <3>11, <3>13
  <2>. QED
    BY <2>1, <2>2
<1>. HIDE DEF h
<1>4. /\ party[p] \in {NoParty, P}
      /\ \A r \in Players : party'[r] = IF r = p THEN P ELSE party[r]
      /\ \A r \in Players : invited'[r] = IF r = q THEN invited[r] \cup {P}
                                                   ELSE invited[r]
  <2>1. party[p] \in {NoParty, P}
    BY <1>2 DEF Leads
  <2>2. /\ party \in [Players -> Parties \cup {NoParty}]
        /\ invited \in [Players -> SUBSET Parties]
    BY IInvParts
  <2>3. party' = [party EXCEPT ![p] = P] /\ invited' = [invited EXCEPT ![q] = @ \cup {P}]
    BY <1>2
  <2>4. \A r \in Players : party'[r] = IF r = p THEN P ELSE party[r]
    BY <2>2, <2>3
  <2>5. \A r \in Players : invited'[r] = IF r = q THEN invited[r] \cup {P}
                                                  ELSE invited[r]
    BY <2>2, <2>3
  <2>. QED
    BY <2>1, <2>4, <2>5
<1>5. WorldType(World')
  <2>1. /\ group' \in [Parties -> Group \cup {NoGroup}]
        /\ party' \in [Players -> Parties \cup {NoParty}]
        /\ invited' \in [Players -> SUBSET Parties]
    BY <1>2, <1>3, IInvParts
  <2>. QED
    BY <2>1 DEF WorldType, World
<1>6. PartyInv(World', P, selfInvited')
  <2>1. h = World'.group[P]
    BY DEF h, World
  <2>2. \A r \in Players : World'.party[r] = P <=> In(h, r)
    BY <1>3, <1>4 DEF World
  <2>3. \A r \in Players : World'.invited[r] = IF r = q THEN invited[r] \cup {P}
                                                        ELSE invited[r]
    BY <1>4 DEF World
  <2>4. Remembered(World', h, P, selfInvited')
    BY <1>1, <1>3, <2>3 DEF Remembered
  <2>. QED
    BY <1>3, <2>1, <2>2, <2>4 DEF PartyInv
<1>7. \A Q \in Parties \ {P} :
        /\ World'.group[Q] = World.group[Q]
        /\ \A r \in Players :
             /\ World'.party[r] = Q <=> World.party[r] = Q
             /\ Q \in World'.invited[r] <=> Q \in World.invited[r]
  BY <1>2, <1>3, <1>4, IInvParts, PartyAssumption DEF World
<1>8. WorldInv(World', selfInvited')
  BY <1>1, <1>5, <1>6, <1>7, OneGroupChanges DEF IInv
<1>9. GoneInv'
  BY <1>1, <1>4 DEF GoneInv, IInv
<1>. QED
  BY <1>1, <1>8, <1>9 DEF IInv

\* A player's party exists, and has the player in it.
LEMMA PartyOfPlayer ==
  ASSUME IInv, NEW p \in Players, party[p] # NoParty
  PROVE  party[p] \in Parties /\ group[party[p]] \in Group
<1>1. NoGroup.members = <<>> /\ NoGroup.leader = NoPlayer /\ 1..Len(<<>>) = {}
  BY DEF NoGroup
<1>2. ~In(NoGroup, p)
  BY <1>1, PartyAssumption DEF In, InSeq
<1>. QED
  BY <1>2, IInvParts

LEMMA JoinPartyKeeps ==
  ASSUME IInv, NEW p \in Players, NEW l \in Players, JoinParty(p, l)
  PROVE  IInv'
<1>. DEFINE P == party[l]
            g == group[P]
            h == [leader |-> g.leader, members |-> Append(g.members, p),
                  invites |-> g.invites \ {p}]
<1>0. group' = [group EXCEPT ![P].members = Append(@, p), ![P].invites = @ \ {p}]
  BY DEF JoinParty
<1>1. /\ p \in online /\ l \in online /\ party[p] = NoParty /\ online' = online
      /\ selfInvited' = selfInvited /\ broken' = broken
      /\ P # NoParty /\ p \in g.invites
      /\ party' = [party EXCEPT ![p] = P]
      /\ invited' = [invited EXCEPT ![p] = @ \ {P}]
  BY DEF JoinParty, IsInviting
<1>2. P \in Parties /\ g \in Group
  BY <1>1, PartyOfPlayer
<1>. HIDE DEF P
<1>3. /\ g = [leader |-> g.leader, members |-> g.members, invites |-> g.invites]
      /\ g.leader \in Players /\ g.members \in Seq(Players)
      /\ g.invites \in SUBSET Players
      /\ Sound(g) /\ NoInsider(g, selfInvited)
  BY <1>2, IInvParts DEF Group
<1>4. \A r \in Players :
        /\ In(g, r) <=> party[r] = P
        /\ r \in g.invites => P \in invited[r]
        /\ P \in invited[r] /\ r \notin selfInvited => r \in g.invites
  BY <1>2, IInvParts
<1>5. ~In(g, p)
  BY <1>1, <1>4
<1>6. group' = [group EXCEPT ![P] = h]
  <2>. DEFINE m == Append(g.members, p)
              j == g.invites \ {p}
  <2>1. group' = [group EXCEPT ![P].members = m, ![P].invites = j]
    BY <1>0, Zenon
  <2>. HIDE DEF m, j
  <2>2. group' = [group EXCEPT ![P] = [g EXCEPT !.members = m, !.invites = j]]
    BY <2>1, <1>2, IInvParts
  <2>. DEFINE x == [g EXCEPT !.members = m, !.invites = j]
  <2>3. x = [g EXCEPT !.members = m, !.invites = j]
    BY Zenon
  <2>4. group' = [group EXCEPT ![P] = x]
    BY <2>2, Zenon
  <2>. HIDE DEF x, g
  <2>5. x = [leader |-> g.leader, members |-> m, invites |-> j]
    BY <1>3, <2>3
  <2>. QED
    BY <2>4, <2>5 DEF m, j
<1>. DEFINE m == Append(g.members, p)
<1>7. /\ m \in Seq(Players) /\ Distinct(m) /\ m # <<>>
      /\ \A q : InSeq(m, q) <=> InSeq(g.members, q) \/ q = p
  BY <1>3, <1>5, AppendElements DEF Sound, In
<1>8. h.leader = g.leader /\ h.members = m /\ h.invites = g.invites \ {p}
  OBVIOUS
<1>9. h \in Group
  <2>. HIDE DEF m, g
  <2>1. h = [leader |-> g.leader, members |-> m, invites |-> g.invites \ {p}]
    BY DEF m
  <2>. HIDE DEF h
  <2>. QED
    BY <1>3, <1>7, <2>1 DEF Group
<1>. HIDE DEF h, m, g
<1>10. \A q : In(h, q) <=> In(g, q) \/ q = p
  BY <1>7, <1>8 DEF In
<1>11. Sound(h) /\ ~Deserted(h)
  BY <1>3, <1>5, <1>7, <1>8 DEF Sound, Deserted, In
<1>12. NoInsider(h, selfInvited)
  BY <1>3, <1>8, <1>10 DEF NoInsider
<1>13. /\ \A r \in Players : party'[r] = IF r = p THEN P ELSE party[r]
       /\ \A r \in Players : invited'[r] = IF r = p THEN invited[r] \ {P}
                                                    ELSE invited[r]
  BY <1>1, IInvParts
<1>14. WorldType(World')
  <2>1. /\ group' \in [Parties -> Group \cup {NoGroup}]
        /\ party' \in [Players -> Parties \cup {NoParty}]
        /\ invited' \in [Players -> SUBSET Parties]
    BY <1>1, <1>2, <1>6, <1>9, IInvParts
  <2>. QED
    BY <2>1 DEF WorldType, World
<1>15. PartyInv(World', P, selfInvited)
  <2>1. World'.group[P] = h
    BY <1>2, <1>6, IInvParts DEF World
  <2>2. \A r \in Players : World'.party[r] = P <=> In(h, r)
    BY <1>4, <1>10, <1>13 DEF World
  <2>3. \A r \in Players : World'.invited[r] = IF r = p THEN invited[r] \ {P}
                                                        ELSE invited[r]
    BY <1>13 DEF World
  <2>4. Remembered(World', h, P, selfInvited)
    BY <1>4, <1>8, <2>3 DEF Remembered
  <2>. QED
    BY <1>11, <1>12, <2>1, <2>2, <2>4 DEF PartyInv
<1>16. \A Q \in Parties \ {P} :
         /\ World'.group[Q] = World.group[Q]
         /\ \A r \in Players :
              /\ World'.party[r] = Q <=> World.party[r] = Q
              /\ Q \in World'.invited[r] <=> Q \in World.invited[r]
  <2>1. \A Q \in Parties \ {P} : Q # party[p]
    BY <1>1, PartyAssumption
  <2>2. \A Q \in Parties \ {P} : group'[Q] = group[Q]
    BY <1>6, IInvParts
  <2>3. ASSUME NEW Q \in Parties \ {P}, NEW r \in Players
        PROVE  /\ party'[r] = Q <=> party[r] = Q
               /\ Q \in invited'[r] <=> Q \in invited[r]
    <3>1. CASE r = p
      <4>1. party'[r] = P /\ invited'[r] = invited[r] \ {P}
        BY <1>13, <3>1
      <4>. QED
        BY <2>1, <3>1, <4>1
    <3>2. CASE r # p
      BY <1>13, <3>2
    <3>. QED
      BY <3>1, <3>2
  <2>. QED
    BY <2>2, <2>3 DEF World
<1>17. WorldInv(World', selfInvited)
  BY <1>2, <1>14, <1>15, <1>16, OneGroupChanges DEF IInv
<1>18. GoneInv'
  BY <1>1, <1>13 DEF GoneInv, IInv
<1>. QED
  BY <1>1, <1>17, <1>18 DEF IInv

LEMMA PassPartyLeadershipKeeps ==
  ASSUME IInv, NEW p \in Players, NEW q \in Players, PassPartyLeadership(p, q)
  PROVE  IInv'
<1>. DEFINE P == party[p]
            g == group[P]
            h == PassLeadership(g, q)
<1>1. /\ online' = online /\ party' = party /\ invited' = invited
      /\ selfInvited' = selfInvited /\ broken' = broken
      /\ P # NoParty /\ InSeq(g.members, q)
      /\ group' = [group EXCEPT ![P] = h]
  BY DEF PassPartyLeadership, Leads, IsMember, InSeq
<1>2. P \in Parties /\ g \in Group
  BY <1>1, PartyOfPlayer
<1>3. Sound(g) /\ NoInsider(g, selfInvited)
  BY <1>2, IInvParts
<1>4. /\ h \in Group /\ Sound(h) /\ h.invites = g.invites /\ h.members # <<>>
      /\ \A r : In(h, r) <=> In(g, r)
  BY <1>1, <1>2, <1>3, PassLeadershipKeeps
<1>. HIDE DEF P, h
<1>5. NoInsider(h, selfInvited) /\ ~Deserted(h)
  BY <1>3, <1>4 DEF NoInsider, Deserted
<1>6. WorldType(World')
  <2>1. group' \in [Parties -> Group \cup {NoGroup}]
    BY <1>1, <1>2, <1>4, IInvParts
  <2>. QED
    BY <1>1, <2>1, IInvParts DEF WorldType, World
<1>7. PartyInv(World', P, selfInvited)
  <2>1. World'.group[P] = h
    BY <1>1, <1>2, IInvParts DEF World
  <2>2. \A r \in Players : World'.party[r] = P <=> In(h, r)
    BY <1>1, <1>2, <1>4, IInvParts DEF World
  <2>3. World'.invited = invited
    BY <1>1 DEF World
  <2>4. Remembered(World', h, P, selfInvited)
    BY <1>2, <1>4, <2>3, IInvParts DEF Remembered
  <2>. QED
    BY <1>4, <1>5, <2>1, <2>2, <2>4 DEF PartyInv
<1>8. \A Q \in Parties \ {P} : World'.group[Q] = World.group[Q]
  BY <1>1, IInvParts DEF World
<1>9. World'.party = World.party /\ World'.invited = World.invited
  BY <1>1 DEF World
<1>10. WorldInv(World', selfInvited)
  BY <1>2, <1>6, <1>7, <1>8, <1>9, OneGroupChanges DEF IInv
<1>. QED
  BY <1>1, <1>10 DEF IInv, GoneInv

\* The handlers that leave to Party what happens to the lists.
LEMMA ShrinkingKeeps ==
  ASSUME IInv, NEW w, WorldInv(w, selfInvited), Shrinks(World, w), Becomes(w),
         UNCHANGED <<online, selfInvited, broken>>
  PROVE  IInv'
<1>1. World' = w
  BY BecomesWorld
<1>2. party' = w.party /\ invited' = w.invited
  BY DEF Becomes
<1>3. GoneInv'
  BY <1>2 DEF Shrinks, GoneInv, World, IInv
<1>. QED
  BY <1>1, <1>3 DEF IInv

LEMMA RevokeInvitationKeeps ==
  ASSUME IInv, NEW p \in Players, NEW q \in Players, RevokeInvitation(p, q)
  PROVE  IInv'
<1>1. /\ party[p] \in Parties /\ q \in World.group[party[p]].invites
      /\ UNCHANGED <<online, selfInvited, broken>>
      /\ Becomes(RemoveInvite(World, party[p], q))
  BY PartyOfPlayer DEF RevokeInvitation, IsInviting, World
<1>2. /\ WorldInv(RemoveInvite(World, party[p], q), selfInvited)
      /\ Shrinks(World, RemoveInvite(World, party[p], q))
  BY <1>1, RemoveInviteKeeps DEF IInv
<1>. QED
  BY <1>1, <1>2, ShrinkingKeeps

LEMMA LeaveKeeps ==
  ASSUME IInv, NEW p \in Players, Leave(p)
  PROVE  IInv'
<1>1. /\ World.party[p] # NoParty /\ Becomes(LeaveParty(World, p))
      /\ UNCHANGED <<online, selfInvited, broken>>
  BY DEF Leave, World
<1>2. WorldInv(LeaveParty(World, p), selfInvited) /\ Shrinks(World, LeaveParty(World, p))
  BY <1>1, LeavePartyKeeps DEF IInv
<1>. QED
  BY <1>1, <1>2, ShrinkingKeeps

\* Who is in no party and remembers none is like anybody who never invited
\* itself.
LEMMA ForgottenIsLike ==
  ASSUME NEW w, NEW S, WorldInv(w, S), NEW p \in Players,
         w.party[p] = NoParty, w.invited[p] = {}
  PROVE  WorldInv(w, S \ {p})
<1>1. ASSUME NEW P \in Parties PROVE PartyInv(w, P, S \ {p})
  <2>1. PartyInv(w, P, S)
    BY DEF WorldInv
  <2>2. Remembered(w, w.group[P], P, S \ {p})
    BY <2>1 DEF PartyInv, Remembered
  <2>3. p \notin w.group[P].invites
    BY <2>1 DEF PartyInv, Remembered
  <2>4. NoInsider(w.group[P], S \ {p})
    BY <2>1, <2>3 DEF PartyInv, NoInsider
  <2>. QED
    BY <2>1, <2>2, <2>4 DEF PartyInv
<1>. QED
  BY <1>1 DEF WorldInv

\* A player who goes leaves its party after its invitations are withdrawn, and
\* nothing points to it then.
LEMMA DisappearKeeps ==
  ASSUME IInv, ~broken, NEW p \in Players, Disappear(p)
  PROVE  IInv'
<1>. DEFINE c == ClearPartyInvitations(World, p)
            v == IF c.party[p] # NoParty THEN LeaveParty(c, p) ELSE c
<1>1. /\ p \in online /\ online' = online \ {p} /\ Becomes(v)
      /\ selfInvited' = selfInvited \ {p} /\ broken' = broken
  BY DEF Disappear
<1>2. WorldInv(c, selfInvited) /\ Shrinks(World, c) /\ c.invited[p] = {}
  BY ClearPartyInvitationsKeeps DEF IInv
<1>. HIDE DEF c
<1>3. WorldInv(v, selfInvited) /\ Shrinks(c, v) /\ v.party[p] = NoParty
  <2>1. CASE c.party[p] # NoParty
    BY <1>2, <2>1, LeavePartyKeeps
  <2>2. CASE c.party[p] = NoParty
    BY <1>2, <2>2 DEF Shrinks
  <2>. QED
    BY <2>1, <2>2
<1>. HIDE DEF v
<1>4. World' = v
  BY <1>1, <1>3, BecomesWorld
<1>5. party' = v.party /\ invited' = v.invited
  BY <1>1 DEF Becomes
<1>6. GoneInv'
  <2>1. party'[p] = NoParty /\ invited'[p] = {}
    BY <1>2, <1>3, <1>5 DEF Shrinks
  <2>2. ASSUME NEW q \in Players \ online
        PROVE  party'[q] = NoParty /\ invited'[q] = {}
    <3>1. World.party[q] = NoParty /\ World.invited[q] = {}
      BY DEF IInv, GoneInv, World
    <3>. QED
      BY <1>2, <1>3, <1>5, <3>1 DEF Shrinks
  <2>. QED
    BY <1>1, <2>1, <2>2 DEF GoneInv
<1>7. v.invited[p] = {}
  BY <1>2, <1>3 DEF Shrinks
<1>8. WorldInv(v, selfInvited \ {p})
  BY <1>3, <1>7, ForgottenIsLike
<1>9. broken' => selfInvited' # {}
  BY <1>1
<1>. QED
  BY <1>1, <1>4, <1>6, <1>8, <1>9 DEF IInv

\* With an invitation to a party that is deleted the model ends, and whoever has
\* one has invited itself.
LEMMA DisappearDanglingKeeps ==
  ASSUME IInv, NEW p \in Players, DisappearDangling(p)
  PROVE  IInv'
<1>1. /\ World' = World /\ broken' = TRUE
      /\ online' = online /\ selfInvited' = selfInvited
      /\ party' = party /\ invited' = invited
  BY DEF DisappearDangling, World
<1>2. PICK P \in invited[p] : group[P] = NoGroup
  BY DEF DisappearDangling, Dangles
<1>3. P \in Parties
  BY <1>2, IInvParts
<1>4. p \in selfInvited
  BY <1>2, <1>3, FreePartyIsUnknown
<1>5. GoneInv'
  BY <1>1 DEF GoneInv, IInv
<1>. QED
  BY <1>1, <1>4, <1>5 DEF IInv

LEMMA NextKeeps ==
  ASSUME IInv, [Next]_vars
  PROVE  IInv'
<1>1. ASSUME NEW p \in Players, Login(p) PROVE IInv'
  <2>1. World' = World
    BY <1>1 DEF Login, World
  <2>. QED
    BY <1>1, <2>1 DEF Login, IInv, GoneInv
<1>2. ASSUME UNCHANGED vars PROVE IInv'
  <2>1. World' = World
    BY <1>2 DEF vars, World
  <2>. QED
    BY <1>2, <2>1 DEF vars, IInv, GoneInv
<1>3. CASE Next
  <2>1. PICK p \in Players :
          \/ Login(p) \/ Disappear(p) \/ DisappearDangling(p) \/ Leave(p)
          \/ \E q \in Players : \/ InviteToParty(p, q) \/ JoinParty(p, q)
                                \/ RevokeInvitation(p, q) \/ PassPartyLeadership(p, q)
    BY <1>3 DEF Next
  <2>2. ~broken
    BY <1>3 DEF Next
  <2>. QED
    BY <1>1, <2>1, <2>2, DisappearKeeps, DisappearDanglingKeeps, LeaveKeeps, InviteToPartyKeeps,
       JoinPartyKeeps, RevokeInvitationKeeps, PassPartyLeadershipKeeps
<1>. QED
  BY <1>2, <1>3

-----------------------------------------------------------------------------
\* IInv is invariant whoever invites whom, itself included, until a departure
\* meets a party that is deleted, where the model ends.
THEOREM Inductive == Spec => []IInv
<1>1. Init => IInv
  BY InitKeeps
<1>2. IInv /\ [Next]_vars => IInv'
  BY NextKeeps
<1>. QED
  BY <1>1, <1>2, PTL DEF Spec

\* The lists hold players and parties of the game only.
THEOREM TypeCorrect == Spec => []TypeOK
<1>1. IInv => TypeOK
  BY IInvParts DEF IInv, TypeOK
<1>. QED
  BY <1>1, Inductive, PTL

\* A player's party pointer and the leader and memberList of the parties always
\* agree: disband, leaveParty and a departure leave no pointer behind.
THEOREM MembershipAgrees == Spec => []Membership
<1>1. IInv => Membership
  <2>. SUFFICES ASSUME IInv PROVE Membership
    OBVIOUS
  <2>1. \A g, q : IsMember(g, q) <=> InSeq(g.members, q)
    BY DEF IsMember, InSeq
  <2>2. \A p \in Players, P \in Parties :
          party[p] = P <=> group[P].leader = p \/ IsMember(group[P], p)
    BY <2>1, IInvParts DEF In
  <2>3. \A P \in Parties :
          /\ ~IsMember(group[P], group[P].leader)
          /\ \A i, j \in 1..Len(group[P].members) :
               group[P].members[i] = group[P].members[j] => i = j
    BY <2>1, IInvParts DEF Sound, Distinct
  <2>. QED
    BY <2>2, <2>3 DEF Membership
<1>. QED
  BY <1>1, Inductive, PTL

\* The walk over a player's invitations at logout finds every party that has it
\* on its inviteList, and a disbanded one only if somebody has invited itself;
\* for all others the two lists agree exactly.
THEOREM InvitationsAgree == Spec => []Invitations
<1>1. IInv => Invitations
  <2>. SUFFICES ASSUME IInv PROVE Invitations
    OBVIOUS
  <2>1. ASSUME NEW p \in Players, NEW P \in Parties, p \notin selfInvited
        PROVE  ~(party[p] = P /\ p \in group[P].invites)
    BY <2>1, IInvParts DEF NoInsider
  <2>2. broken => selfInvited # {}
    BY DEF IInv
  <2>. QED
    BY <2>1, <2>2, IInvParts DEF Invitations
<1>. QED
  BY <1>1, Inductive, PTL

\* No list of a party keeps a Player that was released.
THEOREM NobodyGone == Spec => []OnlyOnline
<1>1. IInv => OnlyOnline
  <2>. SUFFICES ASSUME IInv, NEW p \in Players \ online, NEW P \in Parties
                PROVE  ~In(group[P], p) /\ p \notin group[P].invites
    BY DEF OnlyOnline, In, InSeq, IsMember
  <2>1. party[p] = NoParty /\ invited[p] = {}
    BY DEF IInv, GoneInv
  <2>. QED
    BY <2>1, IInvParts, PartyAssumption
<1>. QED
  BY <1>1, Inductive, PTL

\* A party that has lost its last member and its last invitation is gone.
THEOREM DesertedPartiesEnd == Spec => []NoDesertedParty
<1>1. IInv => NoDesertedParty
  BY IInvParts DEF NoDesertedParty
<1>. QED
  BY <1>1, Inductive, PTL

\* All five together, as the run of the model checks them.
THEOREM ListsAlwaysAgree == Spec => []ListsAgree
  BY TypeCorrect, MembershipAgrees, InvitationsAgree, NobodyGone, DesertedPartiesEnd, PTL
     DEF ListsAgree
=============================================================================
