---------------------------- MODULE PeopleProofs ----------------------------
(***************************************************************************)
(* What players have with each other stays consistent, for any number of   *)
(* them: a house with its lists, its deed and its beds; the fights, their  *)
(* targets, skulls and kills; the chat channels and the reports.           *)
(***************************************************************************)
EXTENDS Houses, Fights, Chat, FiniteSetTheorems, TLAPS

-----------------------------------------------------------------------------
(* Houses.                                                                 *)

HouseSpec == HouseInit /\ [][HouseNext]_houseVars

HouseRecord ==
  [inside : SUBSET Tenants, owner : Tenants \cup {NoTenant}, access : [Lists -> SUBSET Tenants],
   rent : [paid : BOOLEAN, warnings : 0..MaxWarnings, warned : BOOLEAN],
   sleeper : [Beds -> Tenants \cup {NoTenant}], bedOf : [Tenants -> Beds \cup {NoBed}]]

\* The beds and the map of sleepers name each other.
BedsMatch(h) == \A b \in Beds, t \in Tenants : h.sleeper[b] = t <=> h.bedOf[t] = b

\* Nobody is inside uninvited, unless by lying down in a bed from outside.
Private(h) == BedsAtTheWall \/ h.inside \subseteq HouseInvited(h)

\* A house as a value: a handler makes one of another.
HouseOK(h) == h \in HouseRecord /\ BedsMatch(h) /\ Private(h)

\* The inductive invariant: of BedsAgree its second part, for the kick lies
\* outside the house.
HouseIInv ==
  /\ HouseTypeOK /\ HouseOK(House)
  /\ DocumentIsTraded /\ BedsAgree

LEMMA Invitation ==
  ASSUME NEW h, NEW t
  PROVE  t \in HouseInvited(h) <=>
           t \in Tenants /\ (t = h.owner \/ t \in h.access["subowners"] \/ t \in h.access["guests"])
BY DEF HouseInvited, AccessLevel

LEMMA HouseFields ==
  ASSUME NEW h, h \in HouseRecord
  PROVE  /\ h = [inside |-> h.inside, owner |-> h.owner, access |-> h.access,
                 rent |-> h.rent, sleeper |-> h.sleeper, bedOf |-> h.bedOf]
         /\ h.inside \in SUBSET Tenants /\ h.owner \in Tenants \cup {NoTenant}
         /\ h.access \in [Lists -> SUBSET Tenants]
         /\ h.rent \in [paid : BOOLEAN, warnings : 0..MaxWarnings, warned : BOOLEAN]
         /\ h.sleeper \in [Beds -> Tenants \cup {NoTenant}]
         /\ h.bedOf \in [Tenants -> Beds \cup {NoBed}]
BY DEF HouseRecord

\* A house put together from its parts.
HouseOf(i, o, a, r, s, d) ==
  [inside |-> i, owner |-> o, access |-> a, rent |-> r, sleeper |-> s, bedOf |-> d]

LEMMA HouseParts ==
  ASSUME NEW i, NEW o, NEW a, NEW r, NEW s, NEW d, NEW h, h = HouseOf(i, o, a, r, s, d)
  PROVE  h.inside = i /\ h.owner = o /\ h.access = a /\ h.rent = r /\ h.sleeper = s /\ h.bedOf = d
BY DEF HouseOf

LEMMA HouseOfOK ==
  ASSUME NEW i \in SUBSET Tenants, NEW o \in Tenants \cup {NoTenant},
         NEW a \in [Lists -> SUBSET Tenants],
         NEW r \in [paid : BOOLEAN, warnings : 0..MaxWarnings, warned : BOOLEAN],
         NEW s \in [Beds -> Tenants \cup {NoTenant}], NEW d \in [Tenants -> Beds \cup {NoBed}],
         NEW h, h = HouseOf(i, o, a, r, s, d)
  PROVE  h \in HouseRecord
BY DEF HouseOf, HouseRecord

\* No sleeper comes to lie in a bed.
Wakes(h, g) == \A b \in Beds : g.sleeper[b] \in {h.sleeper[b], NoTenant}

\* BedItem::wakeUp frees beds, and those who slept in them.
LEMMA WakeUpOK ==
  ASSUME NEW h \in HouseRecord, BedsMatch(h), NEW B \in SUBSET Beds, NEW g, g = WakeUp(h, B)
  PROVE  /\ g \in HouseRecord /\ BedsMatch(g) /\ Wakes(h, g)
         /\ g.inside = h.inside /\ g.owner = h.owner /\ g.access = h.access
         /\ g.rent = h.rent
         /\ \A b \in Beds : g.sleeper[b] = IF b \in B THEN NoTenant ELSE h.sleeper[b]
<1>. DEFINE S == [b \in Beds |-> IF b \in B THEN NoTenant ELSE h.sleeper[b]]
            O == [t \in Tenants |-> IF \E b \in B : h.sleeper[b] = t THEN NoBed ELSE h.bedOf[t]]
            r == HouseOf(h.inside, h.owner, h.access, h.rent, h.sleeper, h.bedOf)
<1>1. h = r
  BY HouseFields DEF HouseOf
<1>2. g = [h EXCEPT !.sleeper = S, !.bedOf = O]
  BY <1>1 DEF WakeUp, HouseOf
<1>3. S \in [Beds -> Tenants \cup {NoTenant}] /\ O \in [Tenants -> Beds \cup {NoBed}]
  BY HouseFields
<1>4. /\ \A b \in Beds : S[b] = IF b \in B THEN NoTenant ELSE h.sleeper[b]
      /\ \A t \in Tenants : O[t] = IF \E b \in B : h.sleeper[b] = t THEN NoBed ELSE h.bedOf[t]
  OBVIOUS
<1>. HIDE DEF S, O
<1>5. g = HouseOf(h.inside, h.owner, h.access, h.rent, S, O)
  BY <1>1, <1>2 DEF HouseOf
<1>6. /\ g.inside = h.inside /\ g.owner = h.owner /\ g.access = h.access
      /\ g.rent = h.rent /\ g.sleeper = S /\ g.bedOf = O
  BY <1>5, HouseParts
<1>7. g \in HouseRecord
  BY <1>3, <1>5, HouseFields, HouseOfOK
<1>8. BedsMatch(g)
  <2>1. ASSUME NEW b \in Beds, NEW t \in Tenants
        PROVE  S[b] = t <=> O[t] = b
    <3>1. t # NoTenant /\ b # NoBed
      BY HousesAssumption
    <3>2. \A c \in Beds : h.sleeper[c] = t <=> h.bedOf[t] = c
      BY DEF BedsMatch
    <3>. QED
      BY <1>4, <3>1, <3>2
  <2>. QED
    BY <1>6, <2>1 DEF BedsMatch
<1>. QED
  BY <1>4, <1>6, <1>7, <1>8 DEF Wakes

\* House::setAccessList: who loses the invitation is put out.
LEMMA SetAccessListOK ==
  ASSUME NEW h, HouseOK(h), NEW l \in Lists, NEW names \in SUBSET Tenants,
         NEW g, g = SetAccessList(h, l, names)
  PROVE  HouseOK(g) /\ Wakes(h, g) /\ g.inside \subseteq h.inside
<1>. DEFINE A == [h.access EXCEPT ![l] = names]
            h1 == HouseOf(h.inside, h.owner, A, h.rent, h.sleeper, h.bedOf)
            i == h.inside \cap HouseInvited(h1)
<1>0. h \in HouseRecord
  BY DEF HouseOK
<1>1. h = HouseOf(h.inside, h.owner, h.access, h.rent, h.sleeper, h.bedOf)
  BY <1>0, HouseFields DEF HouseOf
<1>2. A \in [Lists -> SUBSET Tenants]
  BY <1>0, HouseFields
<1>3. [h EXCEPT !.access[l] = names] = [h EXCEPT !.access = A]
  BY <1>1 DEF HouseOf
<1>. HIDE DEF A
<1>4. [h EXCEPT !.access = A] = h1
  BY <1>1 DEF HouseOf
<1>5. g = [h1 EXCEPT !.inside = i]
  <2>1. h1.inside = h.inside
    BY DEF HouseOf
  <2>. QED
    BY <1>3, <1>4, <2>1 DEF SetAccessList
<1>6. /\ h1.owner = h.owner /\ h1.access = A
  BY DEF HouseOf
<1>. DEFINE I == i
<1>7. I \in SUBSET Tenants /\ I \subseteq h.inside /\ I \subseteq HouseInvited(h1)
  BY <1>0, HouseFields
<1>8. g = [h1 EXCEPT !.inside = I]
  BY <1>5
<1>. HIDE DEF I
<1>9. g = HouseOf(I, h.owner, A, h.rent, h.sleeper, h.bedOf)
  BY <1>8 DEF HouseOf
<1>10. /\ g.inside = I /\ g.owner = h.owner /\ g.access = A
       /\ g.sleeper = h.sleeper /\ g.bedOf = h.bedOf
  BY <1>9, HouseParts
<1>11. g \in HouseRecord
  BY <1>0, <1>2, <1>7, <1>9, HouseFields, HouseOfOK
<1>12. g.inside \subseteq HouseInvited(g)
  BY <1>6, <1>7, <1>10, Invitation
<1>. QED
  BY <1>7, <1>10, <1>11, <1>12 DEF HouseOK, BedsMatch, Private, Wakes

\* House::setHouseOwner: an owned house is emptied, an unowned one gains an
\* owner who may enter.
LEMMA SetHouseOwnerOK ==
  ASSUME NEW h, HouseOK(h), NEW t \in Tenants \cup {NoTenant}, NEW g, g = SetHouseOwner(h, t)
  PROVE  HouseOK(g) /\ Wakes(h, g) /\ g.inside \subseteq h.inside
<1>0. h \in HouseRecord /\ BedsMatch(h) /\ Private(h)
  BY DEF HouseOK
<1>1. CASE h.owner = t
  BY <1>1 DEF SetHouseOwner, Wakes
<1>2. ASSUME NEW f, f \in HouseRecord, BedsMatch(f), Wakes(h, f), f.inside \subseteq h.inside,
             NEW e, e = [f EXCEPT !.owner = t, !.rent.warned = TRUE]
      PROVE  /\ e \in HouseRecord /\ BedsMatch(e) /\ Wakes(h, e)
             /\ e.inside = f.inside /\ e.owner = t /\ e.access = f.access
  <2>. DEFINE R == [f.rent EXCEPT !.warned = TRUE]
  <2>1. f = HouseOf(f.inside, f.owner, f.access, f.rent, f.sleeper, f.bedOf)
    BY <1>2, HouseFields DEF HouseOf
  <2>2. R \in [paid : BOOLEAN, warnings : 0..MaxWarnings, warned : BOOLEAN]
    BY <1>2, HouseFields
  <2>3. e = [f EXCEPT !.owner = t, !.rent = R]
    BY <1>2, <2>1 DEF HouseOf
  <2>. HIDE DEF R
  <2>4. e = HouseOf(f.inside, t, f.access, R, f.sleeper, f.bedOf)
    BY <2>1, <2>3 DEF HouseOf
  <2>5. /\ e.inside = f.inside /\ e.owner = t /\ e.access = f.access
        /\ e.sleeper = f.sleeper /\ e.bedOf = f.bedOf
    BY <2>4, HouseParts
  <2>6. e \in HouseRecord
    BY <1>2, <2>2, <2>4, HouseFields, HouseOfOK
  <2>. QED
    BY <1>2, <2>5, <2>6 DEF BedsMatch, Wakes
<1>3. CASE h.owner # t /\ h.owner = NoTenant
  <2>1. g = [h EXCEPT !.owner = t, !.rent.warned = TRUE]
    BY <1>3 DEF SetHouseOwner
  <2>2. Wakes(h, h)
    BY DEF Wakes
  <2>3. /\ g \in HouseRecord /\ BedsMatch(g) /\ Wakes(h, g)
        /\ g.inside = h.inside /\ g.owner = t /\ g.access = h.access
    BY <1>0, <1>2, <2>1, <2>2
  <2>4. HouseInvited(h) \subseteq HouseInvited(g)
    BY <1>3, <2>3, Invitation, HousesAssumption
  <2>. QED
    BY <1>0, <2>3, <2>4 DEF HouseOK, Private
<1>4. CASE h.owner # t /\ h.owner # NoTenant
  <2>. DEFINE w == WakeUp(h, Beds)
              A == [l \in Lists |-> {}]
              f == [w EXCEPT !.inside = {}, !.access = A, !.rent = NewRent]
  <2>1. w \in HouseRecord /\ BedsMatch(w) /\ Wakes(h, w)
    BY <1>0, WakeUpOK
  <2>2. g = [f EXCEPT !.owner = t, !.rent.warned = TRUE]
    BY <1>4 DEF SetHouseOwner
  <2>3. A \in [Lists -> SUBSET Tenants]
    OBVIOUS
  <2>4. NewRent \in [paid : BOOLEAN, warnings : 0..MaxWarnings, warned : BOOLEAN]
    BY HousesAssumption DEF NewRent
  <2>. HIDE DEF A, w
  <2>5. w = HouseOf(w.inside, w.owner, w.access, w.rent, w.sleeper, w.bedOf)
    BY <2>1, HouseFields DEF HouseOf
  <2>. DEFINE N == NewRent
              no == {}
  <2>6. no \in SUBSET Tenants /\ no \subseteq h.inside /\ f = [w EXCEPT !.inside = no, !.access = A, !.rent = N]
    OBVIOUS
  <2>. HIDE DEF N, f
  <2>7. f = HouseOf(no, w.owner, A, N, w.sleeper, w.bedOf)
    BY <2>5, <2>6 DEF HouseOf
  <2>8. f.inside = no /\ f.access = A /\ f.sleeper = w.sleeper /\ f.bedOf = w.bedOf
    BY <2>7, HouseParts
  <2>9. f \in HouseRecord
    BY <2>1, <2>3, <2>4, <2>6, <2>7, HouseFields, HouseOfOK DEF N
  <2>10. BedsMatch(f) /\ Wakes(h, f) /\ f.inside \subseteq h.inside
    BY <2>1, <2>6, <2>8 DEF BedsMatch, Wakes
  <2>11. /\ g \in HouseRecord /\ BedsMatch(g) /\ Wakes(h, g)
         /\ g.inside = f.inside
    BY <1>2, <2>2, <2>9, <2>10
  <2>. QED
    BY <2>8, <2>11 DEF HouseOK, Private
<1>. QED
  BY <1>1, <1>3, <1>4

\* BedItem::sleep: a player who lies in no bed takes a free one.
LEMMA SleepOK ==
  ASSUME NEW h, HouseOK(h), NEW t \in Tenants, NEW b \in Beds,
         h.sleeper[b] = NoTenant, h.bedOf[t] = NoBed, t \in h.inside \/ BedsAtTheWall,
         NEW g, g = Sleep(h, t, b)
  PROVE  /\ HouseOK(g)
         /\ \A c \in Beds : g.sleeper[c] \in {h.sleeper[c], t}
         /\ g.inside \subseteq h.inside \cup {t}
<1>. DEFINE S == [h.sleeper EXCEPT ![b] = t]
            D == [h.bedOf EXCEPT ![t] = b]
            I == h.inside \cup {t}
<1>0. h \in HouseRecord /\ BedsMatch(h)
  BY DEF HouseOK
<1>1. h = HouseOf(h.inside, h.owner, h.access, h.rent, h.sleeper, h.bedOf)
  BY <1>0, HouseFields DEF HouseOf
<1>2. S \in [Beds -> Tenants \cup {NoTenant}] /\ D \in [Tenants -> Beds \cup {NoBed}] /\ I \in SUBSET Tenants
  BY <1>0, HouseFields
<1>3. g = [h EXCEPT !.sleeper = S, !.bedOf = D, !.inside = I]
  BY <1>1 DEF HouseOf, Sleep
<1>4. /\ \A c \in Beds : S[c] = IF c = b THEN t ELSE h.sleeper[c]
      /\ \A u \in Tenants : D[u] = IF u = t THEN b ELSE h.bedOf[u]
  BY <1>0, HouseFields
<1>. HIDE DEF S, D, I
<1>5. g = HouseOf(I, h.owner, h.access, h.rent, S, D)
  BY <1>1, <1>3 DEF HouseOf
<1>6. g.inside = I /\ g.owner = h.owner /\ g.access = h.access /\ g.sleeper = S /\ g.bedOf = D
  BY <1>5, HouseParts
<1>7. g \in HouseRecord
  BY <1>0, <1>2, <1>5, HouseFields, HouseOfOK
<1>8. BedsMatch(g)
  <2>1. ASSUME NEW c \in Beds, NEW u \in Tenants
        PROVE  S[c] = u <=> D[u] = c
    <3>1. (h.sleeper[c] = u <=> h.bedOf[u] = c) /\ (h.sleeper[c] = t <=> h.bedOf[t] = c)
          /\ (h.sleeper[b] = u <=> h.bedOf[u] = b)
      BY <1>0 DEF BedsMatch
    <3>2. u # NoTenant /\ c # NoBed
      BY HousesAssumption
    <3>. QED
      BY <1>4, <3>1, <3>2
  <2>. QED
    BY <1>6, <2>1 DEF BedsMatch
<1>9. Private(g)
  BY <1>6, Invitation DEF HouseOK, Private, I
<1>. QED
  BY <1>4, <1>6, <1>7, <1>8, <1>9 DEF HouseOK, I

\* The house after HouseBecomes is the record.
LEMMA BecomesOK ==
  ASSUME NEW g, g \in HouseRecord, HouseBecomes(g)
  PROVE  House' = g
BY HouseFields DEF HouseBecomes, House

\* The invariant holds after a step when the house is in order and the rest is.
LEMMA HouseTogether ==
  ASSUME HouseOK(House'), awake' \subseteq Tenants, inside' \subseteq awake', kicked' \subseteq awake',
         window' \in [Tenants -> Lists \cup {"none"}], transferItem' \in BOOLEAN,
         sale' \in [seller : Tenants \cup {NoTenant}, buyer : Tenants \cup {NoTenant}],
         DocumentIsTraded',
         \A b \in Beds : sleeper'[b] \in awake' => sleeper'[b] \in kicked'
  PROVE  HouseIInv'
<1>1. House' \in HouseRecord /\ BedsMatch(House')
  BY DEF HouseOK
<1>2. /\ houseOwner' \in Tenants \cup {NoTenant} /\ access' \in [Lists -> SUBSET Tenants]
      /\ rent' \in [paid : BOOLEAN, warnings : 0..MaxWarnings, warned : BOOLEAN]
      /\ sleeper' \in [Beds -> Tenants \cup {NoTenant}] /\ bedOf' \in [Tenants -> Beds \cup {NoBed}]
  <2>1. /\ House'.owner = houseOwner' /\ House'.access = access' /\ House'.rent = rent'
        /\ House'.sleeper = sleeper' /\ House'.bedOf = bedOf'
    BY DEF House
  <2>. QED
    BY <1>1, <2>1, HouseFields
<1>3. \A b \in Beds, t \in Tenants : sleeper'[b] = t <=> bedOf'[t] = b
  BY <1>1 DEF BedsMatch, House
<1>4. HouseOK(House)'
  OBVIOUS
<1>. QED
  BY <1>2, <1>3, <1>4 DEF HouseIInv, HouseTypeOK, BedsAgree

LEMMA HouseParted ==
  ASSUME HouseIInv
  PROVE  /\ HouseOK(House) /\ House \in HouseRecord
         /\ House.inside = inside /\ House.owner = houseOwner /\ House.access = access
         /\ House.rent = rent /\ House.sleeper = sleeper /\ House.bedOf = bedOf
         /\ awake \subseteq Tenants /\ inside \subseteq awake /\ kicked \subseteq awake
         /\ window \in [Tenants -> Lists \cup {"none"}] /\ transferItem \in BOOLEAN
         /\ sale \in [seller : Tenants \cup {NoTenant}, buyer : Tenants \cup {NoTenant}]
         /\ \A b \in Beds : sleeper[b] \in awake => sleeper[b] \in kicked
BY DEF HouseIInv, HouseTypeOK, BedsAgree, HouseOK, House

\* A handler that makes another house of it, frees beds or leaves them, and
\* keeps everybody else outside.
LEMMA HandlerKeeps ==
  ASSUME HouseIInv, NEW g, HouseOK(g), Wakes(House, g), g.inside \subseteq inside, HouseBecomes(g),
         UNCHANGED <<awake, kicked>>, window' \in [Tenants -> Lists \cup {"none"}],
         \/ UNCHANGED <<transferItem, sale>>
         \/ sale' = NoSale /\ transferItem' = FALSE
  PROVE  HouseIInv'
<1>1. House' = g
  BY BecomesOK DEF HouseOK
<1>2. HouseOK(House')
  BY <1>1
<1>3. inside' \subseteq awake'
  BY HouseParted DEF HouseBecomes
<1>4. \A b \in Beds : sleeper'[b] \in awake' => sleeper'[b] \in kicked'
  BY HouseParted, HousesAssumption DEF HouseBecomes, Wakes
<1>5. DocumentIsTraded'
  BY DEF HouseIInv, DocumentIsTraded
<1>6. /\ transferItem' \in BOOLEAN
      /\ sale' \in [seller : Tenants \cup {NoTenant}, buyer : Tenants \cup {NoTenant}]
  <2>1. CASE UNCHANGED <<transferItem, sale>>
    BY <2>1, HouseParted
  <2>2. CASE sale' = NoSale /\ transferItem' = FALSE
    BY <2>2 DEF NoSale
  <2>. QED
    BY <2>1, <2>2
<1>7. awake' \subseteq Tenants /\ kicked' \subseteq awake'
  BY HouseParted
<1>. QED
  BY <1>2, <1>3, <1>4, <1>5, <1>6, <1>7, HouseTogether

\* The house itself stays; somebody comes out of it or is invited in.
LEMMA MoveKeeps ==
  ASSUME HouseIInv,
         UNCHANGED <<houseOwner, access, rent, sleeper, bedOf>>,
         \/ inside' \subseteq inside
         \/ inside' \subseteq Tenants /\ inside' \ inside \subseteq HouseInvited(House)
  PROVE  HouseOK(House')
<1>1. /\ House'.inside = inside' /\ House'.owner = houseOwner /\ House'.access = access
      /\ House'.sleeper = sleeper /\ House'.bedOf = bedOf
  BY DEF House
<1>2. House' \in HouseRecord
  BY HouseParted, HouseFields DEF House, HouseRecord
<1>3. BedsMatch(House')
  BY <1>1, HouseParted DEF BedsMatch, HouseOK
<1>4. Private(House')
  BY <1>1, HouseParted, Invitation DEF Private, HouseOK
<1>. QED
  BY <1>2, <1>3, <1>4 DEF HouseOK

LEMMA WakesItself == ASSUME NEW h PROVE Wakes(h, h)
BY DEF Wakes

\* A login: the bed is left, and who is not invited stays out.
LEMMA TenantLoginKeeps ==
  ASSUME HouseIInv, NEW t \in Tenants, TenantLogin(t)
  PROVE  HouseIInv'
<1>1. PICK indoors \in BOOLEAN :
        LET h == [House EXCEPT !.inside = IF indoors /\ t \in HouseInvited(House)
                                            THEN @ \cup {t} ELSE @]
            b == bedOf[t]
        IN HouseBecomes(IF b # NoBed /\ h.sleeper[b] # NoTenant THEN WakeUp(h, {b}) ELSE h)
  BY DEF TenantLogin
<1>. DEFINE I == IF indoors /\ t \in HouseInvited(House) THEN inside \cup {t} ELSE inside
            h == [House EXCEPT !.inside = I]
            b == bedOf[t]
<1>2. House.inside = inside
  BY HouseParted
<1>3. HouseBecomes(IF b # NoBed /\ h.sleeper[b] # NoTenant THEN WakeUp(h, {b}) ELSE h)
  BY <1>1, <1>2
<1>4. /\ I \subseteq inside \cup {t}
      /\ I \ inside \subseteq HouseInvited(House)
      /\ inside \subseteq Tenants
  <2>1. CASE indoors /\ t \in HouseInvited(House)
    <3>1. I = inside \cup {t}
      BY <2>1
    <3>. QED
      BY <2>1, <3>1, HouseParted
  <2>2. CASE ~(indoors /\ t \in HouseInvited(House))
    <3>1. I = inside
      BY <2>2
    <3>. QED
      BY <3>1, HouseParted
  <2>. QED
    BY <2>1, <2>2
<1>. HIDE DEF I
<1>5. h = HouseOf(I, houseOwner, access, rent, sleeper, bedOf)
  BY DEF House, HouseOf
<1>6. /\ h.inside = I /\ h.owner = houseOwner /\ h.access = access
      /\ h.rent = rent /\ h.sleeper = sleeper /\ h.bedOf = bedOf
  BY DEF House
<1>. HIDE DEF h
<1>7. HouseOK(h)
  <2>1. h \in HouseRecord
    <3>1. I \in SUBSET Tenants
      BY <1>4
    <3>. QED
      BY <1>5, <3>1, HouseParted, HouseFields, HouseOfOK
  <2>2. BedsMatch(h)
    BY <1>6, HouseParted DEF BedsMatch, HouseOK
  <2>3. Private(h)
    BY <1>4, <1>6, HouseParted, Invitation DEF Private, HouseOK
  <2>. QED
    BY <2>1, <2>2, <2>3 DEF HouseOK
<1>8. bedOf[t] \in Beds \cup {NoBed} /\ \A c \in Beds : sleeper[c] = t <=> bedOf[t] = c
  BY HouseParted, HouseFields DEF HouseOK, BedsMatch
<1>9. PICK g : /\ HouseOK(g) /\ HouseBecomes(g) /\ g.inside = I
               /\ \A c \in Beds : /\ g.sleeper[c] \in {sleeper[c], NoTenant}
                                  /\ g.sleeper[c] # t
  <2>1. CASE b # NoBed /\ h.sleeper[b] # NoTenant
    <3>1. /\ WakeUp(h, {b}) \in HouseRecord /\ BedsMatch(WakeUp(h, {b}))
          /\ WakeUp(h, {b}).inside = h.inside /\ WakeUp(h, {b}).owner = h.owner
          /\ WakeUp(h, {b}).access = h.access
          /\ \A c \in Beds : WakeUp(h, {b}).sleeper[c] = IF c \in {b} THEN NoTenant ELSE h.sleeper[c]
      <4>1. {b} \in SUBSET Beds
        BY <1>8, <2>1
      <4>2. h \in HouseRecord /\ BedsMatch(h)
        BY <1>7 DEF HouseOK
      <4>. QED
        BY <4>1, <4>2, WakeUpOK
    <3>2. Private(WakeUp(h, {b}))
      BY <1>7, <3>1, Invitation DEF HouseOK, Private
    <3>3. HouseOK(WakeUp(h, {b}))
      BY <3>1, <3>2 DEF HouseOK
    <3>4. HouseBecomes(WakeUp(h, {b}))
      BY <1>3, <2>1
    <3>5. NoTenant # t
      BY HousesAssumption
    <3>. QED
      BY <1>6, <1>8, <3>1, <3>3, <3>4, <3>5
  <2>2. CASE ~(b # NoBed /\ h.sleeper[b] # NoTenant)
    <3>1. \A c \in Beds : sleeper[c] # t
      BY <1>6, <1>8, <2>2, HousesAssumption
    <3>2. HouseBecomes(h)
      BY <1>3, <2>2
    <3>. QED
      BY <1>6, <1>7, <3>1, <3>2
  <2>. QED
    BY <2>1, <2>2
<1>10. /\ awake' = awake \cup {t} /\ UNCHANGED <<window, transferItem, sale, kicked>>
  BY DEF TenantLogin
<1>11. House' = g
  BY <1>9, BecomesOK DEF HouseOK
<1>12. HouseOK(House')
  BY <1>9, <1>11
<1>13. inside' \subseteq awake' /\ awake' \subseteq Tenants /\ kicked' \subseteq awake'
  BY <1>4, <1>9, <1>10, HouseParted DEF HouseBecomes
<1>14. \A c \in Beds : sleeper'[c] \in awake' => sleeper'[c] \in kicked'
  BY <1>9, <1>10, HouseParted, HousesAssumption DEF HouseBecomes
<1>15. DocumentIsTraded'
  BY <1>10 DEF HouseIInv, DocumentIsTraded
<1>16. /\ window' \in [Tenants -> Lists \cup {"none"}] /\ transferItem' \in BOOLEAN
       /\ sale' \in [seller : Tenants \cup {NoTenant}, buyer : Tenants \cup {NoTenant}]
  BY <1>10, HouseParted
<1>. QED
  BY <1>12, <1>13, <1>14, <1>15, <1>16, HouseTogether

\* Players that come out of the house, leave the game or are invited in.
LEMMA WalkersKeep ==
  ASSUME HouseIInv, NEW t \in Tenants,
         \/ TenantLeave(t) \/ Enter(t) \/ GoOut(t) \/ \E v \in Tenants : HouseKick(t, v)
  PROVE  HouseIInv'
<1>1. CASE TenantLeave(t)
  <2>1. inside' \subseteq inside /\ UNCHANGED <<houseOwner, access, rent, sleeper, bedOf>>
    BY <1>1 DEF TenantLeave
  <2>2. HouseOK(House')
    BY <2>1, MoveKeeps
  <2>3. /\ awake' \subseteq Tenants /\ inside' \subseteq awake' /\ kicked' \subseteq awake'
        /\ window' \in [Tenants -> Lists \cup {"none"}]
        /\ \A b \in Beds : sleeper'[b] \in awake' => sleeper'[b] \in kicked'
    BY <1>1, HouseParted DEF TenantLeave
  <2>4. transferItem' \in BOOLEAN /\ DocumentIsTraded'
        /\ sale' \in [seller : Tenants \cup {NoTenant}, buyer : Tenants \cup {NoTenant}]
    <3>1. CASE t \in {sale.seller, sale.buyer}
      <4>1. transferItem' = FALSE /\ sale' = NoSale
        BY <1>1, <3>1 DEF TenantLeave, CancelSale
      <4>2. DocumentIsTraded'
        BY <4>1 DEF DocumentIsTraded
      <4>. QED
        BY <4>1, <4>2 DEF NoSale
    <3>2. CASE t \notin {sale.seller, sale.buyer}
      BY <1>1, <3>2, HouseParted DEF TenantLeave, CancelSale, DocumentIsTraded, HouseIInv
    <3>. QED
      BY <3>1, <3>2
  <2>. QED
    BY <2>2, <2>3, <2>4, HouseTogether
<1>2. ASSUME UNCHANGED <<awake, houseOwner, access, window, transferItem, sale, rent, sleeper, bedOf, kicked>>,
             \/ inside' \subseteq inside
             \/ t \in HouseInvited(House) /\ t \in awake /\ inside' = inside \cup {t}
      PROVE  HouseIInv'
  <2>1. HouseOK(House')
    BY <1>2, MoveKeeps, HouseParted
  <2>2. inside' \subseteq awake'
    BY <1>2, HouseParted
  <2>3. DocumentIsTraded'
    BY <1>2 DEF HouseIInv, DocumentIsTraded
  <2>4. \A b \in Beds : sleeper'[b] \in awake' => sleeper'[b] \in kicked'
    BY <1>2, HouseParted
  <2>5. /\ awake' \subseteq Tenants /\ kicked' \subseteq awake'
        /\ window' \in [Tenants -> Lists \cup {"none"}] /\ transferItem' \in BOOLEAN
        /\ sale' \in [seller : Tenants \cup {NoTenant}, buyer : Tenants \cup {NoTenant}]
    BY <1>2, HouseParted
  <2>. QED
    BY <2>1, <2>2, <2>3, <2>4, <2>5, HouseTogether
<1>3. CASE Enter(t)
  BY <1>2, <1>3 DEF Enter
<1>4. CASE GoOut(t)
  BY <1>2, <1>4 DEF GoOut
<1>5. CASE \E v \in Tenants : HouseKick(t, v)
  BY <1>2, <1>5 DEF HouseKick
<1>. QED
  BY <1>1, <1>3, <1>4, <1>5

\* Lists, owners and the deed.
LEMMA DeedsKeep ==
  ASSUME HouseIInv,
         \/ \E t \in Tenants : \/ BuyHouse(t)
                               \/ \E v \in Tenants : SellHouse(t, v)
                               \/ \E l \in Lists : OpenWindow(t, l)
                               \/ \E names \in SUBSET Tenants : UpdateHouseWindow(t, names)
         \/ \E t \in Tenants \cup {NoTenant} : GiveHouse(t)
         \/ SaleFails \/ SaleDone
  PROVE  HouseIInv'
<1>1. ASSUME NEW t \in Tenants \cup {NoTenant}, HouseBecomes(SetHouseOwner(House, t)),
             UNCHANGED <<awake, kicked, window>>,
             \/ UNCHANGED <<transferItem, sale>>
             \/ sale' = NoSale /\ transferItem' = FALSE
      PROVE  HouseIInv'
  <2>1. /\ HouseOK(SetHouseOwner(House, t)) /\ Wakes(House, SetHouseOwner(House, t))
        /\ SetHouseOwner(House, t).inside \subseteq inside
    BY HouseParted, SetHouseOwnerOK
  <2>2. window' \in [Tenants -> Lists \cup {"none"}]
    BY <1>1, HouseParted
  <2>3. PICK g : g = SetHouseOwner(House, t)
    OBVIOUS
  <2>. QED
    BY <1>1, <2>1, <2>2, <2>3, HandlerKeeps
<1>2. CASE \E t \in Tenants : BuyHouse(t)
  BY <1>1, <1>2 DEF BuyHouse
<1>3. CASE \E t \in Tenants \cup {NoTenant} : GiveHouse(t)
  BY <1>1, <1>3 DEF GiveHouse
<1>4. CASE SaleDone
  <2>1. sale.buyer \in Tenants \cup {NoTenant}
    BY HouseParted
  <2>. QED
    BY <1>1, <1>4, <2>1 DEF SaleDone
<1>5. ASSUME NEW t \in Tenants, NEW names \in SUBSET Tenants, UpdateHouseWindow(t, names)
      PROVE  HouseIInv'
  <2>1. window[t] \in Lists
    BY <1>5, HouseParted DEF UpdateHouseWindow
  <2>2. PICK g : g = SetAccessList(House, window[t], names)
    OBVIOUS
  <2>3. HouseOK(g) /\ Wakes(House, g) /\ g.inside \subseteq inside
    BY <2>1, <2>2, HouseParted, SetAccessListOK
  <2>4. window' \in [Tenants -> Lists \cup {"none"}]
    BY <1>5, HouseParted DEF UpdateHouseWindow
  <2>. QED
    BY <1>5, <2>2, <2>3, <2>4, HandlerKeeps DEF UpdateHouseWindow
<1>6. ASSUME UNCHANGED <<awake, inside, houseOwner, access, rent, sleeper, bedOf, kicked>>,
             window' \in [Tenants -> Lists \cup {"none"}], transferItem' \in BOOLEAN,
             sale' \in [seller : Tenants \cup {NoTenant}, buyer : Tenants \cup {NoTenant}],
             DocumentIsTraded'
      PROVE  HouseIInv'
  <2>1. HouseOK(House')
    BY <1>6, MoveKeeps
  <2>2. /\ awake' \subseteq Tenants /\ inside' \subseteq awake' /\ kicked' \subseteq awake'
        /\ \A b \in Beds : sleeper'[b] \in awake' => sleeper'[b] \in kicked'
    BY <1>6, HouseParted
  <2>. QED
    BY <1>6, <2>1, <2>2, HouseTogether
<1>7. ASSUME NEW t \in Tenants, NEW l \in Lists, OpenWindow(t, l)
      PROVE  HouseIInv'
  <2>1. window' \in [Tenants -> Lists \cup {"none"}] /\ UNCHANGED <<transferItem, sale>>
    BY <1>7, HouseParted DEF OpenWindow
  <2>2. DocumentIsTraded'
    BY <2>1 DEF HouseIInv, DocumentIsTraded
  <2>3. UNCHANGED <<awake, inside, houseOwner, access, rent, sleeper, bedOf, kicked>>
    BY <1>7 DEF OpenWindow
  <2>. QED
    BY <1>6, <2>1, <2>2, <2>3, HouseParted
<1>8. ASSUME NEW t \in Tenants, NEW v \in Tenants, SellHouse(t, v)
      PROVE  HouseIInv'
  <2>1. /\ UNCHANGED <<awake, inside, houseOwner, access, rent, sleeper, bedOf, kicked, window>>
        /\ transferItem' = TRUE
    BY <1>8 DEF SellHouse
  <2>2. sale' \in [seller : Tenants \cup {NoTenant}, buyer : Tenants \cup {NoTenant}]
    BY <1>8 DEF SellHouse
  <2>3. sale'.seller = t /\ NoSale.seller = NoTenant /\ t # NoTenant
    BY <1>8, HousesAssumption DEF SellHouse, NoSale
  <2>4. DocumentIsTraded'
    BY <2>1, <2>3 DEF DocumentIsTraded
  <2>. QED
    BY <1>6, <2>1, <2>2, <2>4, HouseParted
<1>9. CASE SaleFails
  <2>1. /\ UNCHANGED <<awake, inside, houseOwner, access, rent, sleeper, bedOf, kicked, window>>
        /\ transferItem' = FALSE /\ sale' = NoSale
    BY <1>9 DEF SaleFails, CancelSale
  <2>2. DocumentIsTraded'
    BY <2>1 DEF DocumentIsTraded
  <2>3. sale' \in [seller : Tenants \cup {NoTenant}, buyer : Tenants \cup {NoTenant}]
    BY <2>1 DEF NoSale
  <2>. QED
    BY <1>6, <2>1, <2>2, <2>3, HouseParted
<1>. QED
  BY <1>2, <1>3, <1>4, <1>5, <1>7, <1>8, <1>9

\* Another rent makes a house as good as before.
LEMMA RentOK ==
  ASSUME HouseIInv, NEW r \in [paid : BOOLEAN, warnings : 0..MaxWarnings, warned : BOOLEAN],
         NEW g, g = [House EXCEPT !.rent = r]
  PROVE  HouseOK(g) /\ Wakes(House, g) /\ g.inside \subseteq inside
<1>1. g = HouseOf(inside, houseOwner, access, r, sleeper, bedOf)
  BY DEF House, HouseOf
<1>2. /\ g.inside = inside /\ g.owner = houseOwner /\ g.access = access
      /\ g.sleeper = sleeper /\ g.bedOf = bedOf
  BY <1>1 DEF HouseOf
<1>3. g \in HouseRecord
  <2>1. /\ inside \in SUBSET Tenants /\ houseOwner \in Tenants \cup {NoTenant}
        /\ access \in [Lists -> SUBSET Tenants]
        /\ sleeper \in [Beds -> Tenants \cup {NoTenant}]
        /\ bedOf \in [Tenants -> Beds \cup {NoBed}]
    BY HouseParted, HouseFields
  <2>. QED
    BY <1>1, <2>1, HouseOfOK
<1>4. BedsMatch(g)
  <2>1. \A b \in Beds, t \in Tenants : sleeper[b] = t <=> bedOf[t] = b
    BY DEF HouseIInv, BedsAgree
  <2>. QED
    BY <1>2, <2>1 DEF BedsMatch
<1>5. Private(g)
  <2>1. /\ House.inside = inside /\ House.owner = houseOwner /\ House.access = access
        /\ BedsAtTheWall \/ House.inside \subseteq HouseInvited(House)
    BY DEF HouseIInv, HouseOK, House, Private
  <2>. QED
    BY <1>2, <2>1, Invitation DEF Private
<1>. QED
  BY <1>2, <1>3, <1>4, <1>5, HouseParted DEF HouseOK, Wakes

\* The rent and its warnings; the house that is lost.
LEMMA RentKeeps ==
  ASSUME HouseIInv, RentFallsDue \/ DayGoesBy \/ \E enough \in BOOLEAN : PayHouse(enough)
  PROVE  HouseIInv'
<1>0. rent \in [paid : BOOLEAN, warnings : 0..MaxWarnings, warned : BOOLEAN]
  BY DEF HouseIInv, HouseTypeOK
<1>1. ASSUME NEW r \in [paid : BOOLEAN, warnings : 0..MaxWarnings, warned : BOOLEAN],
             HouseBecomes([House EXCEPT !.rent = r]),
             UNCHANGED <<awake, window, transferItem, sale, kicked>>
      PROVE  HouseIInv'
  <2>1. PICK g : g = [House EXCEPT !.rent = r]
    OBVIOUS
  <2>2. HouseOK(g) /\ Wakes(House, g) /\ g.inside \subseteq inside
    BY <2>1, RentOK
  <2>. QED
    BY <1>1, <2>1, <2>2, HandlerKeeps, HouseParted
<1>2. CASE RentFallsDue
  <2>. DEFINE r == [rent EXCEPT !.paid = FALSE]
  <2>1. r \in [paid : BOOLEAN, warnings : 0..MaxWarnings, warned : BOOLEAN]
    BY <1>0
  <2>2. /\ rent' = r
        /\ UNCHANGED <<awake, inside, houseOwner, access, window, transferItem, sale, sleeper, bedOf, kicked>>
    BY <1>2 DEF RentFallsDue
  <2>. HIDE DEF r
  <2>3. HouseBecomes([House EXCEPT !.rent = r])
    BY <2>2 DEF HouseBecomes, House
  <2>. QED
    BY <1>1, <2>1, <2>2, <2>3
<1>3. CASE DayGoesBy
  <2>. DEFINE r == [rent EXCEPT !.warned = FALSE]
  <2>1. r \in [paid : BOOLEAN, warnings : 0..MaxWarnings, warned : BOOLEAN]
    BY <1>0
  <2>2. /\ rent' = r
        /\ UNCHANGED <<awake, inside, houseOwner, access, window, transferItem, sale, sleeper, bedOf, kicked>>
    BY <1>3 DEF DayGoesBy
  <2>. HIDE DEF r
  <2>3. HouseBecomes([House EXCEPT !.rent = r])
    BY <2>2 DEF HouseBecomes, House
  <2>. QED
    BY <1>1, <2>1, <2>2, <2>3
<1>4. CASE \E enough \in BOOLEAN : PayHouse(enough)
  <2>. DEFINE yes == TRUE
              p == [rent EXCEPT !.paid = yes]
              s == [rent EXCEPT !.warnings = @ + 1, !.warned = yes]
  <2>1. yes \in BOOLEAN
    OBVIOUS
  <2>2. /\ UNCHANGED <<awake, window, transferItem, sale, kicked>>
        /\ \/ HouseBecomes([House EXCEPT !.rent.paid = yes])
           \/ rent.warnings >= MaxWarnings /\ HouseBecomes(SetHouseOwner(House, NoTenant))
           \/ /\ ~(rent.warnings >= MaxWarnings)
              /\ HouseBecomes([House EXCEPT !.rent.warnings = @ + 1, !.rent.warned = yes])
    BY <1>4 DEF PayHouse
  <2>. HIDE DEF yes
  <2>3. /\ [House EXCEPT !.rent.paid = yes] = [House EXCEPT !.rent = p]
        /\ [House EXCEPT !.rent.warnings = @ + 1, !.rent.warned = yes] = [House EXCEPT !.rent = s]
    BY DEF House
  <2>4. CASE HouseBecomes([House EXCEPT !.rent.paid = yes])
    <3>1. p \in [paid : BOOLEAN, warnings : 0..MaxWarnings, warned : BOOLEAN]
      BY <1>0, <2>1
    <3>. QED
      BY <1>1, <2>2, <2>3, <2>4, <3>1
  <2>5. CASE HouseBecomes(SetHouseOwner(House, NoTenant))
    <3>1. PICK g : g = SetHouseOwner(House, NoTenant)
      OBVIOUS
    <3>2. HouseOK(g) /\ Wakes(House, g) /\ g.inside \subseteq inside
      BY <3>1, HouseParted, SetHouseOwnerOK
    <3>. QED
      BY <2>2, <2>5, <3>1, <3>2, HandlerKeeps, HouseParted
  <2>6. CASE /\ ~(rent.warnings >= MaxWarnings)
             /\ HouseBecomes([House EXCEPT !.rent.warnings = @ + 1, !.rent.warned = yes])
    <3>1. s \in [paid : BOOLEAN, warnings : 0..MaxWarnings, warned : BOOLEAN]
      <4>1. rent.warnings + 1 \in 0..MaxWarnings
        BY <1>0, <2>6, HousesAssumption
      <4>2. \A n \in 0..MaxWarnings :
              [rent EXCEPT !.warnings = n, !.warned = yes]
                \in [paid : BOOLEAN, warnings : 0..MaxWarnings, warned : BOOLEAN]
        BY <1>0, <2>1
      <4>. QED
        BY <4>1, <4>2
    <3>. QED
      BY <1>1, <2>2, <2>3, <2>6, <3>1
  <2>. QED
    BY <2>2, <2>4, <2>5, <2>6
<1>. QED
  BY <1>2, <1>3, <1>4

\* A bed is freed, or taken by a player whom the kick awaits.
LEMMA UseBedKeeps ==
  ASSUME HouseIInv, NEW t \in Tenants, NEW b \in Beds, UseBed(t, b)
  PROVE  HouseIInv'
<1>1. CASE sleeper[b] # NoTenant
  <2>1. PICK g : g = WakeUp(House, {b})
    OBVIOUS
  <2>2. HouseBecomes(g) /\ UNCHANGED <<awake, window, transferItem, sale, kicked>>
    BY <1>1, <2>1 DEF UseBed
  <2>3. /\ g \in HouseRecord /\ BedsMatch(g) /\ Wakes(House, g)
        /\ g.inside = inside /\ g.owner = houseOwner /\ g.access = access
    BY <2>1, HouseParted, WakeUpOK DEF HouseOK
  <2>4. Private(g)
    BY <2>3, HouseParted, Invitation DEF HouseOK, Private
  <2>5. HouseOK(g) /\ g.inside \subseteq inside
    BY <2>3, <2>4 DEF HouseOK
  <2>. QED
    BY <2>2, <2>3, <2>5, HandlerKeeps, HouseParted
<1>2. CASE sleeper[b] = NoTenant
  <2>1. PICK g : g = Sleep(House, t, b)
    OBVIOUS
  <2>2. /\ HouseBecomes(g) /\ UNCHANGED <<awake, window, transferItem, sale>>
        /\ t \in awake /\ t \notin kicked /\ kicked' = kicked \cup {t}
        /\ t \in inside \/ BedsAtTheWall
    BY <1>2, <2>1 DEF UseBed
  <2>3. bedOf[t] = NoBed
    BY <2>2, HouseParted, HouseFields DEF HouseOK, BedsMatch
  <2>4. /\ HouseOK(g) /\ \A c \in Beds : g.sleeper[c] \in {sleeper[c], t}
        /\ g.inside \subseteq inside \cup {t}
    BY <1>2, <2>1, <2>2, <2>3, HouseParted, SleepOK
  <2>5. HouseOK(House')
    BY <2>2, <2>4, BecomesOK DEF HouseOK
  <2>6. /\ awake' \subseteq Tenants /\ inside' \subseteq awake' /\ kicked' \subseteq awake'
        /\ \A c \in Beds : sleeper'[c] \in awake' => sleeper'[c] \in kicked'
    BY <2>2, <2>4, HouseParted DEF HouseBecomes
  <2>7. DocumentIsTraded'
    BY <2>2 DEF HouseIInv, DocumentIsTraded
  <2>. QED
    BY <2>2, <2>5, <2>6, <2>7, HouseTogether, HouseParted
<1>. QED
  BY <1>1, <1>2

\* Every step of the house keeps the invariant.
LEMMA HouseStep ==
  ASSUME HouseIInv, [HouseNext]_houseVars
  PROVE  HouseIInv'
<1>1. CASE HouseNext
  BY <1>1, TenantLoginKeeps, WalkersKeep, DeedsKeep, RentKeeps, UseBedKeeps DEF HouseNext
<1>2. CASE UNCHANGED houseVars
  BY <1>2 DEF houseVars, HouseIInv, HouseTypeOK, HouseOK, HouseRecord, House, BedsMatch, Private,
     HouseInvited, AccessLevel, DocumentIsTraded, BedsAgree
<1>. QED
  BY <1>1, <1>2

LEMMA HouseStart ==
  ASSUME HouseInit
  PROVE  HouseIInv
<1>1. /\ awake = {} /\ inside = {} /\ houseOwner = NoTenant /\ access = [l \in Lists |-> {}]
      /\ window = [t \in Tenants |-> "none"] /\ transferItem = FALSE /\ sale = NoSale /\ kicked = {}
      /\ sleeper = [b \in Beds |-> NoTenant] /\ bedOf = [t \in Tenants |-> NoBed] /\ rent = NewRent
  BY DEF HouseInit
<1>2. NewRent \in [paid : BOOLEAN, warnings : 0..MaxWarnings, warned : BOOLEAN]
  BY HousesAssumption DEF NewRent
<1>3. NoSale \in [seller : Tenants \cup {NoTenant}, buyer : Tenants \cup {NoTenant}]
  BY DEF NoSale
<1>4. HouseTypeOK /\ DocumentIsTraded
  <2>1. transferItem \in BOOLEAN
    BY <1>1
  <2>2. DocumentIsTraded
    BY <1>1 DEF DocumentIsTraded
  <2>. QED
    BY <1>1, <1>2, <1>3, <2>1, <2>2 DEF HouseTypeOK
<1>5. BedsAgree
  BY <1>1, HousesAssumption DEF BedsAgree
<1>6. House \in HouseRecord
  <2>1. House = HouseOf(inside, houseOwner, access, rent, sleeper, bedOf)
    BY DEF House, HouseOf
  <2>2. /\ inside \in SUBSET Tenants /\ houseOwner \in Tenants \cup {NoTenant}
        /\ access \in [Lists -> SUBSET Tenants] /\ sleeper \in [Beds -> Tenants \cup {NoTenant}]
        /\ rent \in [paid : BOOLEAN, warnings : 0..MaxWarnings, warned : BOOLEAN]
        /\ bedOf \in [Tenants -> Beds \cup {NoBed}]
    BY <1>1, <1>4 DEF HouseTypeOK
  <2>. QED
    BY <2>1, <2>2, HouseOfOK
<1>7. BedsMatch(House) /\ Private(House)
  BY <1>1, <1>5 DEF BedsAgree, BedsMatch, Private, House
<1>. QED
  BY <1>4, <1>5, <1>6, <1>7 DEF HouseIInv, HouseOK

\* Every way a house, its owner, lists, rent and beds change keeps the house in
\* order: who loses the invitation is out, a deed is on the table or not there,
\* a sleeper lies in one bed and the bed knows it.
THEOREM HouseInvariant == HouseSpec => []HouseIInv
BY HouseStart, HouseStep, PTL DEF HouseSpec

\* The map of sleepers agrees with the beds, and the deed is never left behind,
\* even where a bed can be used from outside the house (beds.cpp:120).
THEOREM DeedsAndBedsAgree == HouseSpec => [](HouseTypeOK /\ DocumentIsTraded /\ BedsAgree)
<1>1. HouseIInv => HouseTypeOK /\ DocumentIsTraded /\ BedsAgree
  BY DEF HouseIInv
<1>. QED
  BY <1>1, HouseInvariant, PTL

\* Where no bed can be reached from outside, nobody is ever inside uninvited.
THEOREM HouseAlwaysConsistent ==
  ASSUME ~BedsAtTheWall
  PROVE  HouseSpec => []HouseConsistent
<1>1. HouseIInv => HouseConsistent
  <2>1. ASSUME HouseIInv PROVE NoIntruder
    BY <2>1 DEF HouseIInv, HouseOK, Private, NoIntruder, House
  <2>. QED
    BY <2>1 DEF HouseIInv, HouseConsistent
<1>. QED
  BY <1>1, HouseInvariant, PTL

-----------------------------------------------------------------------------
(* Fights.                                                                 *)

FightsSpec == FightsInit /\ [][FightsNext]_fightVars

Skulls == {"none", "white", "red"}

FighterRec ==
  [online : BOOLEAN, zone : Zones, health : 0..1, fight : 0..FightTime, pzLocked : BOOLEAN,
   skull : Skulls, attacked : SUBSET Fighters, redTicks : 0..MaxRedTicks,
   target : Fighters \cup {NoFighter}, hurtBy : SUBSET Hitters, lastHit : Hitters \cup {NoHit},
   dying : BOOLEAN]

Peaceful == {"protection", "nopvp"}

\* The fight of the player f: its marks and its target.
Sound(f, x) ==
  /\ x.attacked \subseteq Fighters \ {f}
  /\ x.target # NoFighter => x.online /\ x.target # f /\ x.zone \notin Peaceful
  /\ x.online /\ x.fight = 0 =>
       /\ ~x.pzLocked /\ x.skull # "white"
       /\ x.skull # "red" => x.attacked = {}
  /\ x.online /\ x.skull = "red" => x.redTicks > 0

\* Who is aimed at is in the game, and where there is fighting.
Aims(w) ==
  \A f \in Fighters : w[f].target # NoFighter =>
    w[w[f].target].online /\ w[w[f].target].zone \notin Peaceful

Fighting(w) ==
  /\ w \in [Fighters -> FighterRec]
  /\ \A f \in Fighters : Sound(f, w[f])
  /\ Aims(w)

FightsInv ==
  /\ Fighting(fighter) /\ partners \in BOOLEAN
  /\ charges \in [Fighters -> Nat] /\ ChargedOnce

-----------------------------------------------------------------------------
(* What the fields of a fighter are after an update of some.               *)

\* The fields that say where a player is and whom it aims at.
Placed(x, y) == y.online = x.online /\ y.zone = x.zone /\ y.target = x.target
\* The marks of its fight.
Marked(x, y) ==
  /\ y.fight = x.fight /\ y.pzLocked = x.pzLocked /\ y.skull = x.skull
  /\ y.attacked = x.attacked /\ y.redTicks = x.redTicks
\* Only the fighter f has changed.
OnlyOf(w, v, f) ==
  v \in [Fighters -> FighterRec] /\ \A g \in Fighters : g # f => v[g] = w[g]

Attacked(x, A, s) == [x EXCEPT !.attacked = A, !.skull = s]
Reddened(x, t, s) == [x EXCEPT !.redTicks = t, !.skull = s]
Hurt(x, H, h, n) == [x EXCEPT !.hurtBy = H, !.lastHit = h, !.health = n]

WithLock(w, f, p) == [w EXCEPT ![f].pzLocked = p]
WithMarks(w, f, A, s) == [w EXCEPT ![f].attacked = A, ![f].skull = s]
WithTarget(w, f, g) == [w EXCEPT ![f].target = g]
WithRed(w, f, t, s) == [w EXCEPT ![f].redTicks = t, ![f].skull = s]
WithHurt(w, f, H, h, n) == [[w EXCEPT ![f].hurtBy = H, ![f].lastHit = h] EXCEPT ![f].health = n]

LEMMA FightUpdate ==
  ASSUME NEW w \in [Fighters -> FighterRec], NEW f \in Fighters, NEW v, v = AddInFight(w, f)
  PROVE  /\ OnlyOf(w, v, f) /\ Placed(w[f], v[f])
         /\ v[f].fight = FightTime /\ v[f].pzLocked = w[f].pzLocked /\ v[f].skull = w[f].skull
         /\ v[f].attacked = w[f].attacked /\ v[f].redTicks = w[f].redTicks
BY FightsAssumption DEF FighterRec, AddInFight, OnlyOf, Placed

LEMMA LockUpdate ==
  ASSUME NEW w \in [Fighters -> FighterRec], NEW f \in Fighters,
         NEW p \in BOOLEAN, NEW v, v = WithLock(w, f, p)
  PROVE  /\ OnlyOf(w, v, f) /\ Placed(w[f], v[f])
         /\ v[f].fight = w[f].fight /\ v[f].pzLocked = p /\ v[f].skull = w[f].skull
         /\ v[f].attacked = w[f].attacked /\ v[f].redTicks = w[f].redTicks
BY FightsAssumption DEF FighterRec, WithLock, OnlyOf, Placed

LEMMA AttackedRecord ==
  ASSUME NEW x \in FighterRec, NEW A \in SUBSET Fighters, NEW s \in Skulls,
         NEW y, y = Attacked(x, A, s)
  PROVE  y \in FighterRec /\ Placed(x, y) /\ y.fight = x.fight
         /\ y.pzLocked = x.pzLocked /\ y.skull = s /\ y.attacked = A /\ y.redTicks = x.redTicks
<1>1. y \in FighterRec
  BY DEF FighterRec, Attacked
<1>. QED
  BY <1>1 DEF FighterRec, Placed, Marked, Attacked

LEMMA AttackedUpdate ==
  ASSUME NEW w \in [Fighters -> FighterRec], NEW f \in Fighters, NEW A \in SUBSET Fighters, NEW s \in Skulls,
         NEW v, v = WithMarks(w, f, A, s)
  PROVE  OnlyOf(w, v, f) /\ Placed(w[f], v[f]) /\ v[f].fight = w[f].fight
         /\ v[f].pzLocked = w[f].pzLocked /\ v[f].skull = s /\ v[f].attacked = A /\ v[f].redTicks = w[f].redTicks
<1>1. PICK x : x = Attacked(w[f], A, s)
  OBVIOUS
<1>2. v = [w EXCEPT ![f] = x]
  <2>. DEFINE y == [w[f] EXCEPT !.attacked = A]
              w1 == [w EXCEPT ![f] = y]
  <2>1. w1[f] = y
    OBVIOUS
  <2>2. x = [y EXCEPT !.skull = s]
    BY <1>1 DEF Attacked, Reddened, Hurt
  <2>3. v = [w1 EXCEPT ![f] = x]
    BY <2>1, <2>2 DEF WithMarks
  <2>. HIDE DEF y
  <2>. QED
    BY <2>3
<1>3. x \in FighterRec /\ v[f] = x /\ Placed(w[f], x)
  BY <1>1, <1>2, AttackedRecord
<1>4. OnlyOf(w, v, f)
  BY <1>2, <1>3 DEF OnlyOf
<1>. QED
  BY <1>1, <1>3, <1>4, AttackedRecord

LEMMA TargetUpdate ==
  ASSUME NEW w \in [Fighters -> FighterRec], NEW f \in Fighters, NEW g \in Fighters \cup {NoFighter},
         NEW v, v = WithTarget(w, f, g)
  PROVE  /\ OnlyOf(w, v, f) /\ Marked(w[f], v[f])
         /\ v[f].online = w[f].online /\ v[f].zone = w[f].zone /\ v[f].target = g
BY FightsAssumption DEF FighterRec, WithTarget, OnlyOf, Marked

LEMMA RedRecord ==
  ASSUME NEW x \in FighterRec, NEW t \in 0..MaxRedTicks, NEW s \in Skulls,
         NEW y, y = Reddened(x, t, s)
  PROVE  y \in FighterRec /\ Placed(x, y) /\ y.fight = x.fight
         /\ y.pzLocked = x.pzLocked /\ y.skull = s /\ y.attacked = x.attacked /\ y.redTicks = t
<1>1. y \in FighterRec
  BY DEF FighterRec, Reddened
<1>. QED
  BY <1>1 DEF FighterRec, Placed, Marked, Reddened

LEMMA RedUpdate ==
  ASSUME NEW w \in [Fighters -> FighterRec], NEW f \in Fighters, NEW t \in 0..MaxRedTicks, NEW s \in Skulls,
         NEW v, v = WithRed(w, f, t, s)
  PROVE  OnlyOf(w, v, f) /\ Placed(w[f], v[f]) /\ v[f].fight = w[f].fight
         /\ v[f].pzLocked = w[f].pzLocked /\ v[f].skull = s /\ v[f].attacked = w[f].attacked /\ v[f].redTicks = t
<1>1. PICK x : x = Reddened(w[f], t, s)
  OBVIOUS
<1>2. v = [w EXCEPT ![f] = x]
  <2>. DEFINE y == [w[f] EXCEPT !.redTicks = t]
              w1 == [w EXCEPT ![f] = y]
  <2>1. w1[f] = y
    OBVIOUS
  <2>2. x = [y EXCEPT !.skull = s]
    BY <1>1 DEF Attacked, Reddened, Hurt
  <2>3. v = [w1 EXCEPT ![f] = x]
    BY <2>1, <2>2 DEF WithRed
  <2>. HIDE DEF y
  <2>. QED
    BY <2>3
<1>3. x \in FighterRec /\ v[f] = x /\ Placed(w[f], x)
  BY <1>1, <1>2, RedRecord
<1>4. OnlyOf(w, v, f)
  BY <1>2, <1>3 DEF OnlyOf
<1>. QED
  BY <1>1, <1>3, <1>4, RedRecord

LEMMA HurtRecord ==
  ASSUME NEW x \in FighterRec, NEW H \in SUBSET Hitters, NEW h \in Hitters, NEW n \in 0..1,
         NEW y, y = Hurt(x, H, h, n)
  PROVE  y \in FighterRec /\ Placed(x, y) /\ Marked(x, y)
<1>1. y \in FighterRec
  BY DEF FighterRec, Hurt
<1>. QED
  BY <1>1 DEF FighterRec, Placed, Marked, Hurt

LEMMA HurtUpdate ==
  ASSUME NEW w \in [Fighters -> FighterRec], NEW f \in Fighters, NEW H \in SUBSET Hitters, NEW h \in Hitters, NEW n \in 0..1,
         NEW v, v = WithHurt(w, f, H, h, n)
  PROVE  OnlyOf(w, v, f) /\ Placed(w[f], v[f]) /\ Marked(w[f], v[f])
<1>1. PICK x : x = Hurt(w[f], H, h, n)
  OBVIOUS
<1>2. v = [w EXCEPT ![f] = x]
  <2>. DEFINE y == [w[f] EXCEPT !.hurtBy = H, !.lastHit = h]
              w1 == [w EXCEPT ![f] = y]
  <2>1. w1[f] = y
    OBVIOUS
  <2>2. x = [y EXCEPT !.health = n]
    BY <1>1 DEF Attacked, Reddened, Hurt
  <2>3. v = [w1 EXCEPT ![f] = x]
    BY <2>1, <2>2 DEF WithHurt
  <2>. HIDE DEF y
  <2>. QED
    BY <2>3
<1>3. x \in FighterRec /\ v[f] = x /\ Placed(w[f], x)
  BY <1>1, <1>2, HurtRecord
<1>4. OnlyOf(w, v, f)
  BY <1>2, <1>3 DEF OnlyOf
<1>. QED
  BY <1>1, <1>3, <1>4, HurtRecord

\* A player whose marks change where it is, and stay sound.
LEMMA SoundUpdate ==
  ASSUME NEW w, Fighting(w), NEW f \in Fighters, NEW v, OnlyOf(w, v, f), Placed(w[f], v[f]),
         Sound(f, v[f])
  PROVE  Fighting(v)
<1>1. \A g \in Fighters : Sound(g, v[g])
  BY DEF Fighting, OnlyOf
<1>2. \A g \in Fighters : /\ v[g].online = w[g].online /\ v[g].zone = w[g].zone
                          /\ v[g].target = w[g].target
  BY DEF OnlyOf, Placed
<1>3. \A g \in Fighters : w[g].target \in Fighters \cup {NoFighter}
  BY DEF Fighting, FighterRec
<1>. QED
  BY <1>1, <1>2, <1>3 DEF Fighting, OnlyOf, Aims

LEMMA FighterFields ==
  ASSUME NEW x \in FighterRec
  PROVE  /\ x.online \in BOOLEAN /\ x.zone \in Zones /\ x.health \in 0..1 /\ x.fight \in 0..FightTime
         /\ x.pzLocked \in BOOLEAN /\ x.skull \in Skulls /\ x.attacked \subseteq Fighters
         /\ x.redTicks \in 0..MaxRedTicks /\ x.target \in Fighters \cup {NoFighter}
         /\ x.hurtBy \subseteq Hitters /\ x.lastHit \in Hitters \cup {NoHit} /\ x.dying \in BOOLEAN
BY DEF FighterRec

\* Player::addInFightTicks lengthens a fight.
LEMMA AddInFightOK ==
  ASSUME NEW w, Fighting(w), NEW f \in Fighters, NEW v, v = AddInFight(w, f)
  PROVE  Fighting(v) /\ OnlyOf(w, v, f) /\ Placed(w[f], v[f]) /\ v[f].fight = FightTime
<1>1. w \in [Fighters -> FighterRec] /\ Sound(f, w[f])
  BY DEF Fighting
<1>2. /\ OnlyOf(w, v, f) /\ Placed(w[f], v[f])
      /\ v[f].fight = FightTime /\ v[f].pzLocked = w[f].pzLocked /\ v[f].skull = w[f].skull
      /\ v[f].attacked = w[f].attacked /\ v[f].redTicks = w[f].redTicks
  BY <1>1, FightUpdate
<1>3. Sound(f, v[f])
  BY <1>1, <1>2, FightsAssumption DEF Sound, Placed
<1>. QED
  BY <1>2, <1>3, SoundUpdate

\* Player::onAttackedCreature: the lock, the fight and the marks come together.
LEMMA OnAttackedOK ==
  ASSUME NEW w, Fighting(w), NEW f \in Fighters, NEW g \in Fighters, f # g,
         NEW v, v = OnAttackedCreature(w, f, g)
  PROVE  Fighting(v) /\ OnlyOf(w, v, f) /\ Placed(w[f], v[f])
<1>. DEFINE yes == TRUE
<1>0. w \in [Fighters -> FighterRec] /\ Sound(f, w[f]) /\ yes \in BOOLEAN
  BY DEF Fighting
<1>1. PICK l : l = WithLock(w, f, yes)
  OBVIOUS
<1>2. PICK u : u = AddInFight(l, f)
  OBVIOUS
<1>3. v \in {u, Attacks(u, f, g)}
  BY <1>1, <1>2 DEF OnAttackedCreature, WithLock
<1>. HIDE DEF yes
<1>4. /\ OnlyOf(w, l, f) /\ Placed(w[f], l[f]) /\ l[f].skull = w[f].skull
      /\ l[f].attacked = w[f].attacked /\ l[f].redTicks = w[f].redTicks
  BY <1>0, <1>1, LockUpdate
<1>5. /\ OnlyOf(l, u, f) /\ Placed(l[f], u[f]) /\ u[f].fight = FightTime /\ u[f].skull = l[f].skull
      /\ u[f].attacked = l[f].attacked /\ u[f].redTicks = l[f].redTicks
  BY <1>2, <1>4, FightUpdate DEF OnlyOf
<1>6. /\ OnlyOf(w, u, f) /\ Placed(w[f], u[f]) /\ Sound(f, u[f])
  BY <1>0, <1>4, <1>5, FightsAssumption DEF OnlyOf, Placed, Sound
<1>7. CASE v = u
  BY <1>6, <1>7, SoundUpdate
<1>8. CASE v = Attacks(u, f, g)
  <2>. DEFINE A == u[f].attacked \cup {g}
              s == IF u[g].skull = "none" /\ u[f].skull = "none" THEN "white" ELSE u[f].skull
  <2>0. u \in [Fighters -> FighterRec] /\ u[f] \in FighterRec
    BY <1>6 DEF OnlyOf
  <2>1. A \in SUBSET Fighters /\ s \in Skulls /\ s \in {"white", u[f].skull}
    BY <2>0, FighterFields DEF Skulls
  <2>2. v = WithMarks(u, f, A, s)
    BY <1>8, <2>0 DEF Attacks, WithMarks
  <2>3. A \subseteq Fighters \ {f}
    BY <1>6 DEF Sound
  <2>. HIDE DEF A, s
  <2>4. /\ OnlyOf(u, v, f) /\ Placed(u[f], v[f]) /\ v[f].fight = u[f].fight
        /\ v[f].skull = s /\ v[f].attacked = A /\ v[f].redTicks = u[f].redTicks
    BY <2>0, <2>1, <2>2, AttackedUpdate
  <2>5. Sound(f, v[f])
    BY <1>5, <1>6, <2>1, <2>3, <2>4, FightsAssumption DEF Sound, Placed
  <2>6. OnlyOf(w, v, f) /\ Placed(w[f], v[f])
    BY <1>6, <2>4 DEF OnlyOf, Placed
  <2>. QED
    BY <2>5, <2>6, SoundUpdate
<1>. QED
  BY <1>3, <1>7, <1>8

\* Creature::setAttackedCreature, of somebody who may be aimed at.
MayAim(w, f, g) ==
  /\ w[f].online
  /\ g # NoFighter => /\ w[g].online /\ f # g
                      /\ w[f].zone \notin Peaceful /\ w[g].zone \notin Peaceful

LEMMA SetAttackedOK ==
  ASSUME NEW w, Fighting(w), NEW f \in Fighters, NEW g \in Fighters \cup {NoFighter},
         MayAim(w, f, g), NEW v, v = SetAttacked(w, f, g)
  PROVE  Fighting(v)
<1>0. w \in [Fighters -> FighterRec] /\ Sound(f, w[f]) /\ Aims(w)
  BY DEF Fighting
<1>1. PICK a : a = WithTarget(w, f, g)
  OBVIOUS
<1>2. /\ OnlyOf(w, a, f) /\ Marked(w[f], a[f])
      /\ a[f].online = w[f].online /\ a[f].zone = w[f].zone /\ a[f].target = g
  BY <1>0, <1>1, TargetUpdate
<1>3. Fighting(a)
  <2>1. Sound(f, a[f])
    BY <1>0, <1>2 DEF Sound, Marked, MayAim
  <2>2. \A h \in Fighters : Sound(h, a[h])
    BY <1>2, <2>1 DEF OnlyOf, Fighting
  <2>3. \A h \in Fighters : a[h].online = w[h].online /\ a[h].zone = w[h].zone
    BY <1>2 DEF OnlyOf
  <2>4. \A h \in Fighters : h # f => a[h].target = w[h].target /\ w[h].target \in Fighters \cup {NoFighter}
    BY <1>0, <1>2 DEF OnlyOf, FighterRec
  <2>5. Aims(a)
    BY <1>0, <1>2, <2>3, <2>4 DEF Aims, MayAim
  <2>. QED
    BY <1>2, <2>2, <2>5 DEF Fighting, OnlyOf
<1>4. CASE g = NoFighter
  BY <1>1, <1>3, <1>4 DEF SetAttacked, WithTarget
<1>5. CASE g # NoFighter
  <2>1. PICK o : o = OnAttackedCreature(a, f, g)
    OBVIOUS
  <2>2. Fighting(o)
    BY <1>3, <1>5, <2>1, OnAttackedOK DEF MayAim
  <2>3. v = AddInFight(o, g)
    BY <1>1, <1>5, <2>1 DEF SetAttacked, WithTarget
  <2>. QED
    BY <1>5, <2>2, <2>3, AddInFightOK
<1>. QED
  BY <1>4, <1>5

\* Creature::blockHit and Game::combatChangeHealth.
LEMMA HitOK ==
  ASSUME NEW w, Fighting(w), NEW h \in Hitters, NEW g \in Fighters, h.player # g,
         NEW fatal \in BOOLEAN, NEW v, v = ChangeHealth(BlockHit(w, h, g), h, g, fatal)
  PROVE  Fighting(v)
<1>0. h.player \in Fighters
  BY FightsAssumption DEF Hitters
<1>1. PICK b : b = BlockHit(w, h, g)
  OBVIOUS
<1>2. Fighting(b)
  <2>1. CASE h.summon
    <3>1. b = AddInFight(w, g)
      BY <1>1, <2>1 DEF BlockHit
    <3>. QED
      BY <3>1, AddInFightOK
  <2>2. CASE ~h.summon
    <3>1. PICK o : o = OnAttackedCreature(w, h.player, g)
      OBVIOUS
    <3>2. Fighting(o)
      BY <1>0, <3>1, OnAttackedOK
    <3>3. b = AddInFight(o, g)
      BY <1>1, <2>2, <3>1 DEF BlockHit
    <3>. QED
      BY <3>2, <3>3, AddInFightOK
  <2>. QED
    BY <2>1, <2>2
<1>3. CASE v = b
  BY <1>2, <1>3
<1>4. CASE v # b
  <2>. DEFINE H == b[g].hurtBy \cup {h}
              n == IF fatal THEN 0 ELSE 1
  <2>0. b \in [Fighters -> FighterRec] /\ b[g] \in FighterRec /\ Sound(g, b[g])
    BY <1>2 DEF Fighting
  <2>1. H \in SUBSET Hitters /\ n \in 0..1
    BY <2>0, FighterFields
  <2>2. v = WithHurt(b, g, H, h, n)
    <3>1. v = [AddDamagePoints(b, g, h) EXCEPT ![g].health = IF fatal THEN 0 ELSE 1]
      BY <1>1, <1>4 DEF ChangeHealth
    <3>. QED
      BY <3>1 DEF AddDamagePoints, WithHurt
  <2>. HIDE DEF H, n
  <2>3. OnlyOf(b, v, g) /\ Placed(b[g], v[g]) /\ Marked(b[g], v[g])
    BY <2>0, <2>1, <2>2, HurtUpdate
  <2>4. Sound(g, v[g])
    BY <2>0, <2>3 DEF Sound, Placed, Marked
  <2>. QED
    BY <1>2, <2>3, <2>4, SoundUpdate
<1>. QED
  BY <1>3, <1>4

\* The time of red skulls, capped, is above zero once something was added.
LEMMA RedTime ==
  ASSUME NEW r \in 0..MaxRedTicks, NEW m, m = Min({r + FragTime, MaxRedTicks})
  PROVE  m \in 1..MaxRedTicks
<1>. DEFINE a == r + FragTime
            b == MaxRedTicks
<1>1. a \in Nat /\ b \in Nat /\ a >= 1 /\ b >= 1
  BY FightsAssumption
<1>. HIDE DEF a, b
<1>2. \E x \in {a, b} : \A y \in {a, b} : x <= y
  <2>1. CASE a <= b
    BY <1>1, <2>1
  <2>2. CASE ~(a <= b)
    BY <1>1, <2>2
  <2>. QED
    BY <2>1, <2>2
<1>3. Min({a, b}) \in {a, b} /\ \A y \in {a, b} : Min({a, b}) <= y
  BY <1>2 DEF Min
<1>4. m = Min({a, b})
  BY DEF a, b
<1>5. m >= 1 /\ m <= b /\ m \in Nat
  BY <1>1, <1>3, <1>4
<1>. QED
  BY <1>1, <1>5 DEF b

\* Player::addUnjustifiedDead: a red skull has its time.
LEMMA UnjustifiedOK ==
  ASSUME NEW w, Fighting(w), NEW f \in Fighters, NEW v, v = AddUnjustifiedDead(w, f)
  PROVE  Fighting(v) /\ OnlyOf(w, v, f) /\ v[f].fight = w[f].fight
<1>. DEFINE t == Min({w[f].redTicks + FragTime, MaxRedTicks})
            s == IF t >= (KillsToRed - 1) * FragTime THEN "red" ELSE w[f].skull
<1>0. w \in [Fighters -> FighterRec] /\ w[f] \in FighterRec /\ Sound(f, w[f])
  BY DEF Fighting
<1>1. t \in 1..MaxRedTicks
  BY <1>0, FighterFields, RedTime
<1>2. s \in {"red", w[f].skull} /\ s \in Skulls /\ t \in 0..MaxRedTicks
  <2>1. w[f].skull \in Skulls
    BY <1>0, FighterFields
  <2>. QED
    BY <1>1, <2>1 DEF Skulls
<1>3. v = WithRed(w, f, t, s)
  <2>1. w[f].skull = w[f].skull
    OBVIOUS
  <2>2. v = [w EXCEPT ![f].redTicks = t,
                      ![f].skull = IF t >= (KillsToRed - 1) * FragTime THEN "red" ELSE @]
    BY DEF AddUnjustifiedDead
  <2>. HIDE DEF t
  <2>. QED
    BY <1>0, <2>2 DEF WithRed
<1>. HIDE DEF t, s
<1>4. /\ OnlyOf(w, v, f) /\ Placed(w[f], v[f]) /\ v[f].fight = w[f].fight
      /\ v[f].pzLocked = w[f].pzLocked /\ v[f].skull = s
      /\ v[f].attacked = w[f].attacked /\ v[f].redTicks = t
  BY <1>0, <1>2, <1>3, RedUpdate
<1>5. Sound(f, v[f])
  BY <1>0, <1>1, <1>2, <1>4 DEF Sound, Placed
<1>. QED
  BY <1>4, <1>5, SoundUpdate

\* Player::onKilledCreature.
LEMMA OnKilledOK ==
  ASSUME NEW w, Fighting(w), NEW f \in Fighters, NEW g \in Fighters, NEW v, v = OnKilled(w, f, g)
  PROVE  Fighting(v)
<1>. DEFINE yes == TRUE
<1>1. PICK c : c = IF Unjustified(w, f, g) THEN AddUnjustifiedDead(w, f) ELSE w
  OBVIOUS
<1>2. Fighting(c)
  BY <1>1, UnjustifiedOK
<1>3. v \in {c, AddInFight(WithLock(c, f, yes), f)} /\ yes \in BOOLEAN
  BY <1>1 DEF OnKilled, WithLock
<1>. HIDE DEF yes
<1>4. CASE v = AddInFight(WithLock(c, f, yes), f)
  <2>0. c \in [Fighters -> FighterRec] /\ Sound(f, c[f])
    BY <1>2 DEF Fighting
  <2>1. PICK l : l = WithLock(c, f, yes)
    OBVIOUS
  <2>2. /\ OnlyOf(c, l, f) /\ Placed(c[f], l[f]) /\ l[f].skull = c[f].skull
        /\ l[f].attacked = c[f].attacked /\ l[f].redTicks = c[f].redTicks
    BY <1>3, <2>0, <2>1, LockUpdate
  <2>3. /\ OnlyOf(l, v, f) /\ Placed(l[f], v[f]) /\ v[f].fight = FightTime /\ v[f].skull = l[f].skull
        /\ v[f].attacked = l[f].attacked /\ v[f].redTicks = l[f].redTicks
    BY <1>4, <2>1, <2>2, FightUpdate DEF OnlyOf
  <2>4. OnlyOf(c, v, f) /\ Placed(c[f], v[f]) /\ Sound(f, v[f])
    BY <2>0, <2>2, <2>3, FightsAssumption DEF OnlyOf, Placed, Sound
  <2>. QED
    BY <1>2, <2>4, SoundUpdate
<1>. QED
  BY <1>2, <1>3, <1>4

LEMMA NewFighterOK == NewFighter \in FighterRec
<1>. DEFINE no == FALSE
<1>1. no \in BOOLEAN
  OBVIOUS
<1>2. NewFighter = [online |-> no, zone |-> "normal", health |-> 1, fight |-> 0, pzLocked |-> no,
                    skull |-> "none", attacked |-> {}, redTicks |-> 0, target |-> NoFighter,
                    hurtBy |-> {}, lastHit |-> NoHit, dying |-> no]
  BY DEF NewFighter
<1>. HIDE DEF no
<1>. QED
  BY <1>1, <1>2, FightsAssumption DEF FighterRec, Skulls

\* A player as it is saved, and as it comes back.
Stored(fi, r, s)      == [NewFighter EXCEPT !.fight = fi, !.redTicks = r, !.skull = s]
Entered(o, z, fi, r, s) ==
  [NewFighter EXCEPT !.online = o, !.zone = z, !.fight = fi, !.redTicks = r, !.skull = s]

LEMMA StoredOK ==
  ASSUME NEW fi \in 0..FightTime, NEW r \in 0..MaxRedTicks, NEW s \in Skulls,
         NEW y, y = Stored(fi, r, s)
  PROVE  y \in FighterRec /\ ~y.online /\ y.target = NoFighter /\ y.attacked = {}
<1>1. y \in FighterRec
  BY NewFighterOK DEF FighterRec, Stored
<1>2. y.online = NewFighter.online /\ y.target = NewFighter.target /\ y.attacked = NewFighter.attacked
  BY NewFighterOK DEF FighterRec, Stored
<1>3. ~NewFighter.online /\ NewFighter.target = NoFighter /\ NewFighter.attacked = {}
  BY DEF NewFighter
<1>. QED
  BY <1>1, <1>2, <1>3

LEMMA EnteredOK ==
  ASSUME NEW o \in BOOLEAN, NEW z \in Zones, NEW fi \in 0..FightTime, NEW r \in 0..MaxRedTicks,
         NEW s \in Skulls, NEW y, y = Entered(o, z, fi, r, s)
  PROVE  /\ y \in FighterRec /\ y.online = o /\ y.target = NoFighter /\ y.attacked = {}
         /\ ~y.pzLocked /\ y.redTicks = r /\ y.skull = s
<1>1. y \in FighterRec
  BY NewFighterOK DEF FighterRec, Entered
<1>2. /\ y.online = o /\ y.target = NewFighter.target /\ y.attacked = NewFighter.attacked
      /\ y.pzLocked = NewFighter.pzLocked /\ y.redTicks = r /\ y.skull = s
  BY NewFighterOK DEF FighterRec, Entered
<1>3. ~NewFighter.pzLocked /\ NewFighter.target = NoFighter /\ NewFighter.attacked = {}
  BY DEF NewFighter
<1>. QED
  BY <1>1, <1>2, <1>3

\* Who has to do with somebody who is gone.
Parted(x, t, A, H, l) == [x EXCEPT !.target = t, !.attacked = A, !.hurtBy = H, !.lastHit = l]

Less(x, t, A, H, l) ==
  /\ t \in {x.target, NoFighter} /\ A \subseteq x.attacked
  /\ H \subseteq x.hurtBy /\ l \in {x.lastHit, NoHit}

LEMMA PartedOK ==
  ASSUME NEW x \in FighterRec, NEW t, NEW A, NEW H, NEW l, Less(x, t, A, H, l),
         NEW y, y = Parted(x, t, A, H, l)
  PROVE  /\ y \in FighterRec /\ y.online = x.online /\ y.zone = x.zone /\ y.target = t
         /\ y.fight = x.fight /\ y.pzLocked = x.pzLocked /\ y.skull = x.skull
         /\ y.attacked = A /\ y.redTicks = x.redTicks
<1>1. /\ t \in Fighters \cup {NoFighter} /\ A \in SUBSET Fighters /\ H \in SUBSET Hitters
      /\ l \in Hitters \cup {NoHit}
  BY FighterFields DEF Less
<1>2. y \in FighterRec
  BY <1>1 DEF FighterRec, Parted
<1>3. /\ y.online = x.online /\ y.zone = x.zone /\ y.target = t /\ y.fight = x.fight
      /\ y.pzLocked = x.pzLocked
  BY DEF FighterRec, Parted
<1>4. y.skull = x.skull /\ y.attacked = A /\ y.redTicks = x.redTicks
  BY DEF FighterRec, Parted
<1>. QED
  BY <1>2, <1>3, <1>4

\* Map::removeCreature: nobody aims at who is gone.
LEMMA DepartedOK ==
  ASSUME NEW w, Fighting(w), NEW g \in Fighters, NEW v, v = Departed(w, g)
  PROVE  Fighting(v)
<1>0. w \in [Fighters -> FighterRec] /\ \A f \in Fighters : Sound(f, w[f])
  BY DEF Fighting
<1>1. /\ v[g] \in FighterRec /\ ~v[g].online /\ v[g].target = NoFighter
      /\ v[g].attacked = {}
  <2>. DEFINE s == IF w[g].skull = "red" THEN "red" ELSE "none"
  <2>1. s \in Skulls
    BY DEF Skulls
  <2>2. v[g] = Stored(w[g].fight, w[g].redTicks, s)
    BY DEF Departed, Stored
  <2>. HIDE DEF s
  <2>3. w[g].fight \in 0..FightTime /\ w[g].redTicks \in 0..MaxRedTicks
    BY <1>0, FighterFields
  <2>4. PICK y : y = v[g]
    OBVIOUS
  <2>5. y \in FighterRec /\ ~y.online /\ y.target = NoFighter /\ y.attacked = {}
    BY <2>1, <2>2, <2>3, <2>4, StoredOK
  <2>. QED
    BY <2>4, <2>5
<1>2. ASSUME NEW f \in Fighters, f # g
      PROVE  /\ v[f] \in FighterRec /\ v[f].online = w[f].online /\ v[f].zone = w[f].zone
             /\ v[f].target = IF w[f].target = g THEN NoFighter ELSE w[f].target
             /\ v[f].fight = w[f].fight /\ v[f].pzLocked = w[f].pzLocked /\ v[f].skull = w[f].skull
             /\ v[f].attacked \subseteq w[f].attacked /\ v[f].redTicks = w[f].redTicks
  <2>. DEFINE t == IF w[f].target = g THEN NoFighter ELSE w[f].target
              A == w[f].attacked \ {g}
              H == {h \in w[f].hurtBy : h.player # g}
              l == IF w[f].lastHit.player = g THEN NoHit ELSE w[f].lastHit
  <2>1. Less(w[f], t, A, H, l) /\ A \subseteq w[f].attacked
    BY DEF Less
  <2>2. v[f] = Parted(w[f], t, A, H, l)
    BY <1>0, <1>2 DEF Departed, Parted
  <2>3. v[f].target = t => v[f].target = IF w[f].target = g THEN NoFighter ELSE w[f].target
    OBVIOUS
  <2>. HIDE DEF t, A, H, l
  <2>4. w[f] \in FighterRec
    BY <1>0
  <2>5. /\ v[f] \in FighterRec /\ v[f].online = w[f].online /\ v[f].zone = w[f].zone /\ v[f].target = t
        /\ v[f].fight = w[f].fight /\ v[f].pzLocked = w[f].pzLocked /\ v[f].skull = w[f].skull
        /\ v[f].attacked = A /\ v[f].redTicks = w[f].redTicks
    <3>1. PICK y : y = v[f]
      OBVIOUS
    <3>2. PICK x : x = w[f]
      OBVIOUS
    <3>3. /\ y \in FighterRec /\ y.online = x.online /\ y.zone = x.zone /\ y.target = t
          /\ y.fight = x.fight /\ y.pzLocked = x.pzLocked /\ y.skull = x.skull
          /\ y.attacked = A /\ y.redTicks = x.redTicks
      BY <2>1, <2>2, <2>4, <3>1, <3>2, PartedOK
    <3>. QED
      BY <3>1, <3>2, <3>3
  <2>. QED
    BY <2>1, <2>3, <2>5
<1>3. v \in [Fighters -> FighterRec]
  <2>1. \A f \in Fighters : v[f] \in FighterRec
    BY <1>1, <1>2
  <2>2. v = [f \in Fighters |-> v[f]]
    BY DEF Departed
  <2>. QED
    BY <2>1, <2>2
<1>4. \A f \in Fighters : Sound(f, v[f])
  <2>1. Sound(g, v[g])
    BY <1>1 DEF Sound
  <2>2. ASSUME NEW f \in Fighters, f # g
        PROVE  Sound(f, v[f])
    BY <1>0, <1>2, <2>2 DEF Sound
  <2>. QED
    BY <2>1, <2>2
<1>5. Aims(v)
  <2>1. \A f \in Fighters : w[f].target \in Fighters \cup {NoFighter}
    BY <1>0, FighterFields
  <2>. QED
    BY <1>1, <1>2, <2>1 DEF Aims, Fighting
<1>. QED
  BY <1>3, <1>4, <1>5 DEF Fighting

\* One player changes, where it is.
LEMMA ReplaceOK ==
  ASSUME NEW w, Fighting(w), NEW f \in Fighters, NEW y \in FighterRec, Sound(f, y),
         y.target \in {w[f].target, NoFighter},
         ~w[f].online \/ (y.online = w[f].online /\ y.zone = w[f].zone),
         NEW v, v = [w EXCEPT ![f] = y]
  PROVE  Fighting(v)
<1>0. w \in [Fighters -> FighterRec]
  BY DEF Fighting
<1>1. v \in [Fighters -> FighterRec] /\ v[f] = y /\ \A g \in Fighters : g # f => v[g] = w[g]
  BY <1>0
<1>2. \A g \in Fighters : Sound(g, v[g])
  BY <1>1 DEF Fighting
<1>3. Aims(v)
  <2>1. \A g \in Fighters : w[g].target \in Fighters \cup {NoFighter}
    BY <1>0, FighterFields
  <2>2. \A g \in Fighters : w[g].target = f => w[f].online
    BY FightsAssumption DEF Fighting, Aims
  <2>. QED
    BY <1>1, <2>1, <2>2 DEF Aims, Fighting
<1>. QED
  BY <1>1, <1>2, <1>3 DEF Fighting

\* Creature::onIdleStatus, and the end of a fight.
LEMMA EndOfFightOK ==
  ASSUME NEW f \in Fighters, NEW x \in FighterRec, Sound(f, x),
         NEW y, y = EndOfFight([x EXCEPT !.fight = 0])
  PROVE  y \in FighterRec /\ Sound(f, y) /\ Placed(x, y)
<1>. DEFINE no == FALSE
<1>1. PICK a : a = [x EXCEPT !.fight = 0]
  OBVIOUS
<1>2. PICK b : b = OnIdleStatus(a)
  OBVIOUS
<1>3. PICK c : c = [b EXCEPT !.pzLocked = no]
  OBVIOUS
<1>4. y = IF a.skull = "red" THEN c ELSE [c EXCEPT !.attacked = {}, !.skull = "none"]
  BY <1>1, <1>2, <1>3 DEF EndOfFight
<1>5. no \in BOOLEAN /\ ~no
  OBVIOUS
<1>. HIDE DEF no
<1>6. a \in FighterRec /\ Placed(x, a) /\ a.skull = x.skull /\ a.attacked = x.attacked
      /\ a.redTicks = x.redTicks
  BY <1>1, FightsAssumption DEF FighterRec, Placed
<1>7. b \in FighterRec /\ Placed(a, b) /\ b.skull = a.skull /\ b.attacked = a.attacked
      /\ b.redTicks = a.redTicks
  BY <1>2, <1>6 DEF FighterRec, Placed, OnIdleStatus
<1>8. c \in FighterRec /\ Placed(b, c) /\ c.skull = b.skull /\ c.attacked = b.attacked
      /\ c.redTicks = b.redTicks /\ ~c.pzLocked
  BY <1>3, <1>5, <1>7 DEF FighterRec, Placed
<1>9. CASE a.skull = "red"
  BY <1>4, <1>6, <1>7, <1>8, <1>9, ZenonT(60) DEF Placed, Sound
<1>10. CASE a.skull # "red"
  <2>. DEFINE A == {}
              s == "none"
  <2>1. A \in SUBSET Fighters /\ s \in Skulls /\ A = {} /\ s # "white" /\ s # "red"
    BY DEF Skulls
  <2>2. y = Attacked(c, A, s)
    BY <1>4, <1>10 DEF Attacked
  <2>. HIDE DEF A, s
  <2>3. /\ y \in FighterRec /\ Placed(c, y) /\ y.pzLocked = c.pzLocked /\ y.skull = s
        /\ y.attacked = A
    <3>1. c \in FighterRec /\ A \in SUBSET Fighters /\ s \in Skulls
      BY <1>8, <2>1
    <3>. QED
      BY <2>2, <3>1, AttackedRecord
  <2>. QED
    BY <1>6, <1>7, <1>8, <2>1, <2>3 DEF Placed, Sound
<1>. QED
  BY <1>9, <1>10

\* Player::onThink and the fight's condition.
LEMMA ThinkOK ==
  ASSUME NEW f \in Fighters, NEW x \in FighterRec, Sound(f, x), x.online,
         NEW y, y = ExecuteFight(CheckRedSkullTicks(x))
  PROVE  y \in FighterRec /\ Sound(f, y) /\ Placed(x, y)
<1>. DEFINE r == IF x.redTicks - 1 > 0 THEN x.redTicks - 1 ELSE x.redTicks
<1>1. PICK a : a = [x EXCEPT !.redTicks = r]
  OBVIOUS
<1>2. PICK c : c = CheckRedSkullTicks(x)
  OBVIOUS
<1>3. r \in 0..MaxRedTicks /\ (x.redTicks > 0 => r > 0)
  BY FighterFields, FightsAssumption
<1>4. c = IF a.redTicks < 1 /\ x.fight = 0 THEN [a EXCEPT !.skull = "none"] ELSE a
  BY <1>1, <1>2 DEF CheckRedSkullTicks
<1>. HIDE DEF r
<1>5. a \in FighterRec /\ Placed(x, a) /\ a.fight = x.fight /\ a.skull = x.skull
      /\ a.attacked = x.attacked /\ a.pzLocked = x.pzLocked /\ a.redTicks = r
  BY <1>1, <1>3 DEF FighterRec, Placed
<1>6. c \in FighterRec /\ Sound(f, c) /\ Placed(x, c)
  <2>1. CASE a.redTicks < 1 /\ x.fight = 0
    <3>1. c = [a EXCEPT !.skull = "none"]
      BY <1>4, <2>1
    <3>2. c \in FighterRec /\ Placed(a, c) /\ c.fight = a.fight /\ c.skull = "none"
          /\ c.attacked = a.attacked /\ c.pzLocked = a.pzLocked
      BY <1>5, <3>1 DEF FighterRec, Placed, Skulls
    <3>3. x.skull # "red"
      BY <1>3, <1>5, <2>1, FighterFields DEF Sound
    <3>. QED
      BY <1>5, <2>1, <3>2, <3>3 DEF Placed, Sound
  <2>2. CASE ~(a.redTicks < 1 /\ x.fight = 0)
    <3>1. Sound(f, a)
      BY <1>3, <1>5 DEF Placed, Sound
    <3>. QED
      BY <1>4, <1>5, <2>2, <3>1
  <2>. QED
    BY <2>1, <2>2
<1>7. c.fight \in 0..FightTime
  BY <1>6, FighterFields
<1>8. CASE c.fight = 0
  BY <1>2, <1>6, <1>8 DEF ExecuteFight
<1>9. CASE c.fight = 1
  <2>1. y = EndOfFight([c EXCEPT !.fight = 0])
    BY <1>2, <1>9 DEF ExecuteFight
  <2>2. y \in FighterRec /\ Sound(f, y) /\ Placed(c, y)
    BY <1>6, <2>1, EndOfFightOK
  <2>. QED
    BY <1>6, <2>2 DEF Placed
<1>10. CASE c.fight # 0 /\ c.fight # 1
  <2>. DEFINE n == c.fight - 1
  <2>1. y = [c EXCEPT !.fight = n]
    BY <1>2, <1>10 DEF ExecuteFight
  <2>2. n \in 0..FightTime /\ n # 0
    BY <1>7, <1>10, FightsAssumption
  <2>. HIDE DEF n
  <2>3. y \in FighterRec /\ Placed(c, y) /\ y.fight = n /\ y.skull = c.skull
        /\ y.attacked = c.attacked /\ y.redTicks = c.redTicks
    BY <1>6, <2>1, <2>2 DEF FighterRec, Placed
  <2>. QED
    BY <1>6, <2>2, <2>3 DEF Placed, Sound
<1>. QED
  BY <1>8, <1>9, <1>10

\* Player::onChangeZone and onAttackedCreatureChangeZone: nobody aims out of a
\* zone of peace or into it.
LEMMA ChangeZoneOK ==
  ASSUME NEW w, Fighting(w), NEW f \in Fighters, NEW z \in Zones, NEW v, v = ChangeZone(w, f, z)
  PROVE  Fighting(v)
<1>0. w \in [Fighters -> FighterRec] /\ \A g \in Fighters : Sound(g, w[g])
  BY DEF Fighting
<1>1. PICK m : m = [w[f] EXCEPT !.zone = z]
  OBVIOUS
<1>2. m \in FighterRec /\ Marked(w[f], m) /\ m.online = w[f].online /\ m.zone = z
      /\ m.target = w[f].target
  BY <1>0, <1>1 DEF FighterRec, Marked
<1>3. ASSUME NEW g \in Fighters
      PROVE  /\ v[g] \in FighterRec /\ Marked(w[g], v[g]) /\ v[g].online = w[g].online
             /\ v[g].zone = IF g = f THEN z ELSE w[g].zone
             /\ v[g].target = IF z \in Peaceful /\ (g = f \/ w[g].target = f) THEN NoFighter
                              ELSE w[g].target
  <2>1. PICK x : x = IF g = f THEN m ELSE w[g]
    OBVIOUS
  <2>2. /\ x \in FighterRec /\ Marked(w[g], x) /\ x.online = w[g].online
        /\ x.zone = IF g = f THEN z ELSE w[g].zone
        /\ x.target = w[g].target
    BY <1>0, <1>2, <2>1 DEF Marked
  <2>3. v[g] = IF z \in Peaceful /\ (g = f \/ x.target = f) THEN [x EXCEPT !.target = NoFighter] ELSE x
    BY <1>1, <2>1 DEF ChangeZone, Peaceful
  <2>4. ASSUME NEW y, y = [x EXCEPT !.target = NoFighter]
        PROVE  /\ y \in FighterRec /\ Marked(x, y) /\ y.online = x.online /\ y.zone = x.zone
               /\ y.target = NoFighter
    BY <2>2, <2>4 DEF FighterRec, Marked
  <2>. QED
    BY <2>2, <2>3, <2>4 DEF Marked
<1>4. v \in [Fighters -> FighterRec]
  <2>1. v = [g \in Fighters |-> v[g]]
    BY DEF ChangeZone
  <2>. QED
    BY <1>3, <2>1
<1>5. ASSUME NEW g \in Fighters
      PROVE  Sound(g, v[g])
  BY <1>0, <1>3 DEF Sound, Marked
<1>6. Aims(v)
  <2>1. \A g \in Fighters : w[g].target \in Fighters \cup {NoFighter}
    BY <1>0, FighterFields
  <2>. QED
    BY <1>3, <2>1 DEF Aims, Fighting
<1>. QED
  BY <1>4, <1>5, <1>6 DEF Fighting

\* One death is charged once to each of two different players.
LEMMA KillersOnce ==
  ASSUME NEW last \in Hitters \cup {NoHit}, NEW most \in Hitters \cup {NoHit},
         NEW told, told = Killers(last, most)
  PROVE  /\ told \in Seq(Fighters) /\ Len(told) \in 0..2
         /\ Len(told) = 2 => told[1] # told[2]
<1>1. last # NoHit => last.player \in Fighters
  BY FightsAssumption DEF Hitters
<1>2. most # NoHit => most.player \in Fighters
  BY FightsAssumption DEF Hitters
<1>3. NoHit.player = NoFighter
  BY DEF NoHit
<1>. DEFINE p == last.player
            q == most.player
<1>4. CASE last = NoHit /\ most # NoHit /\ q # p
  <2>1. told = <<>> \o <<q>>
    BY <1>4 DEF Killers
  <2>2. q \in Fighters
    BY <1>2, <1>4
  <2>. HIDE DEF q
  <2>. QED
    BY <2>1, <2>2
<1>5. CASE last = NoHit /\ ~(most # NoHit /\ q # p)
  <2>1. told = <<>> \o <<>>
    BY <1>5 DEF Killers
  <2>. QED
    BY <2>1
<1>6. CASE last # NoHit /\ most # NoHit /\ q # p
  <2>1. told = <<p>> \o <<q>>
    BY <1>6 DEF Killers
  <2>2. p \in Fighters /\ q \in Fighters /\ q # p
    BY <1>1, <1>2, <1>6
  <2>. HIDE DEF p, q
  <2>. QED
    BY <2>1, <2>2
<1>7. CASE last # NoHit /\ ~(most # NoHit /\ q # p)
  <2>1. told = <<p>> \o <<>>
    BY <1>7 DEF Killers
  <2>2. p \in Fighters
    BY <1>1, <1>7
  <2>. HIDE DEF p
  <2>. QED
    BY <2>1, <2>2
<1>. QED
  BY <1>4, <1>5, <1>6, <1>7

\* A sequence of at most two different players names each at most once.
Times(told, k) == Cardinality({i \in DOMAIN told : told[i] = k})

LEMMA NamedOnce ==
  ASSUME NEW told \in Seq(Fighters), Len(told) \in 0..2, Len(told) = 2 => told[1] # told[2],
         NEW k, NEW n, n = Times(told, k)
  PROVE  n \in Nat /\ n <= 1
<1>. DEFINE S == {i \in DOMAIN told : told[i] = k}
<1>1. DOMAIN told = 1..Len(told)
  OBVIOUS
<1>2. \A i, j \in S : i = j
  BY <1>1
<1>3. S = {} \/ \E i : S = {i}
  BY <1>2
<1>. HIDE DEF S
<1>4. Cardinality(S) \in {0, 1}
  BY <1>3, FS_EmptySet, FS_Singleton
<1>5. n = Cardinality(S)
  BY DEF S, Times
<1>. QED
  BY <1>4, <1>5

LEMMA DoDeathOK ==
  ASSUME FightsInv, NEW f \in Fighters, DoDeath(f)
  PROVE  FightsInv'
<1>1. PICK most \in MostDamage(fighter, f) :
       LET told == Killers(fighter[f].lastHit, most)
           w    == CASE told = <<>>      -> fighter
                     [] Len(told) = 1    -> OnKilled(fighter, told[1], f)
                     [] OTHER            -> OnKilled(OnKilled(fighter, told[1], f), told[2], f)
           Charged(k) == IF told # <<>> /\ Unjustified(fighter, k, f)
                           THEN Cardinality({i \in DOMAIN told : told[i] = k}) ELSE 0
       IN fighter' = Departed(w, f) /\ charges' = [k \in Fighters |-> Charged(k)]
  BY DEF DoDeath
<1>2. PICK told : told = Killers(fighter[f].lastHit, most)
  OBVIOUS
<1>3. PICK w : w = CASE told = <<>>      -> fighter
                     [] Len(told) = 1    -> OnKilled(fighter, told[1], f)
                     [] OTHER            -> OnKilled(OnKilled(fighter, told[1], f), told[2], f)
  OBVIOUS
<1>. DEFINE N(k) == IF told # <<>> /\ Unjustified(fighter, k, f)
                      THEN Cardinality({i \in DOMAIN told : told[i] = k}) ELSE 0
<1>4. fighter' = Departed(w, f) /\ charges' = [k \in Fighters |-> N(k)]
  BY <1>1, <1>2, <1>3
<1>5. Fighting(fighter) /\ fighter \in [Fighters -> FighterRec] /\ fighter[f] \in FighterRec
  BY DEF FightsInv, Fighting
<1>6. fighter[f].lastHit \in Hitters \cup {NoHit} /\ most \in Hitters \cup {NoHit}
  BY <1>5, FighterFields DEF MostDamage
<1>7. /\ told \in Seq(Fighters) /\ Len(told) \in 0..2
      /\ Len(told) = 2 => told[1] # told[2]
  BY <1>2, <1>6, KillersOnce
<1>8. Fighting(w)
  <2>1. CASE Len(told) = 0
    <3>1. told = <<>>
      BY <1>7, <2>1
    <3>. QED
      BY <1>3, <1>5, <3>1
  <2>2. CASE Len(told) = 1
    <3>1. told # <<>> /\ told[1] \in Fighters
      BY <1>7, <2>2
    <3>. QED
      BY <1>3, <1>5, <2>2, <3>1, OnKilledOK
  <2>3. CASE Len(told) = 2
    <3>1. told # <<>> /\ told[1] \in Fighters /\ told[2] \in Fighters
      BY <1>7, <2>3, SMTT(30)
    <3>2. PICK u : u = OnKilled(fighter, told[1], f)
      OBVIOUS
    <3>3. Fighting(u)
      BY <1>5, <3>1, <3>2, OnKilledOK
    <3>4. w = OnKilled(u, told[2], f)
      BY <1>3, <2>3, <3>1, <3>2
    <3>. QED
      BY <3>1, <3>3, <3>4, OnKilledOK
  <2>. QED
    BY <1>7, <2>1, <2>2, <2>3
<1>9. Fighting(fighter')
  BY <1>4, <1>8, DepartedOK
<1>10. \A k \in Fighters : N(k) \in Nat /\ N(k) <= 1
  <2>1. \A k \in Fighters : Times(told, k) \in Nat /\ Times(told, k) <= 1
    BY <1>7, NamedOnce
  <2>2. \A k \in Fighters : N(k) \in {Times(told, k), 0}
    BY DEF Times
  <2>. HIDE DEF N
  <2>. QED
    BY <2>1, <2>2
<1>. HIDE DEF N
<1>11. charges' \in [Fighters -> Nat] /\ ChargedOnce'
  BY <1>4, <1>10 DEF ChargedOnce
<1>12. partners' \in BOOLEAN
  BY DEF DoDeath
<1>. QED
  BY <1>9, <1>11, <1>12 DEF FightsInv, Fighting, Aims

\* A login brings back what was saved; nobody aims at who is not in the game.
LEMMA LoginOK ==
  ASSUME FightsInv, NEW f \in Fighters, FighterLogin(f)
  PROVE  Fighting(fighter')
<1>1. Fighting(fighter) /\ fighter[f] \in FighterRec /\ ~fighter[f].online
  BY DEF FightsInv, Fighting, FighterLogin
<1>2. PICK z \in Zones :
       fighter' = [fighter EXCEPT ![f] =
         [NewFighter EXCEPT !.online = TRUE, !.zone = z, !.fight = fighter[f].fight,
            !.redTicks = fighter[f].redTicks,
            !.skull = IF fighter[f].skull = "red" /\ fighter[f].redTicks > 0 THEN "red" ELSE "none"]]
  BY DEF FighterLogin
<1>. DEFINE s == IF fighter[f].skull = "red" /\ fighter[f].redTicks > 0 THEN "red" ELSE "none"
            yes == TRUE
<1>3. PICK y : y = Entered(yes, z, fighter[f].fight, fighter[f].redTicks, s)
  OBVIOUS
<1>4. fighter' = [fighter EXCEPT ![f] = y]
  BY <1>2, <1>3 DEF Entered
<1>5. s \in Skulls /\ yes \in BOOLEAN /\ s # "white" /\ (s = "red" => fighter[f].redTicks > 0)
  BY DEF Skulls
<1>. HIDE DEF s, yes
<1>6. fighter[f].fight \in 0..FightTime /\ fighter[f].redTicks \in 0..MaxRedTicks
  BY <1>1, FighterFields
<1>7. /\ y \in FighterRec /\ y.target = NoFighter /\ y.attacked = {}
      /\ ~y.pzLocked /\ y.redTicks = fighter[f].redTicks /\ y.skull = s
  <2>1. s \in Skulls /\ yes \in BOOLEAN
    BY <1>5
  <2>. QED
    BY <1>3, <1>6, <2>1, EnteredOK
<1>8. Sound(f, y)
  BY <1>5, <1>7 DEF Sound
<1>. QED
  BY <1>1, <1>4, <1>7, <1>8, ReplaceOK

\* Time, in the game and out of it.
LEMMA TimeOK ==
  ASSUME FightsInv, NEW f \in Fighters, TimeGoesBy(f) \/ ThinkOf(f)
  PROVE  Fighting(fighter')
<1>0. Fighting(fighter) /\ fighter[f] \in FighterRec /\ Sound(f, fighter[f])
  BY DEF FightsInv, Fighting
<1>1. PICK x : x = fighter[f]
  OBVIOUS
<1>2. CASE TimeGoesBy(f)
  <2>1. PICK y : y = [x EXCEPT !.redTicks = 0]
    OBVIOUS
  <2>2. ~x.online /\ fighter' = [fighter EXCEPT ![f] = y]
    BY <1>1, <1>2, <2>1 DEF TimeGoesBy
  <2>3. y \in FighterRec /\ Placed(x, y) /\ y.attacked = x.attacked
    BY <1>0, <1>1, <2>1, FightsAssumption DEF FighterRec, Placed
  <2>4. Sound(f, y) /\ y.target \in {x.target, NoFighter}
    BY <1>0, <1>1, <2>2, <2>3 DEF Sound, Placed
  <2>. QED
    BY <1>0, <1>1, <2>2, <2>3, <2>4, ReplaceOK
<1>3. CASE ThinkOf(f) /\ fighter[f].health > 0
  <2>1. PICK y : y = ExecuteFight(CheckRedSkullTicks(x))
    OBVIOUS
  <2>2. x.online /\ fighter' = [fighter EXCEPT ![f] = y]
    BY <1>1, <1>3, <2>1 DEF ThinkOf
  <2>3. y \in FighterRec /\ Sound(f, y) /\ Placed(x, y)
    BY <1>0, <1>1, <2>1, <2>2, ThinkOK
  <2>. QED
    BY <1>0, <1>1, <2>2, <2>3, ReplaceOK DEF Placed
<1>4. CASE ThinkOf(f) /\ ~(fighter[f].health > 0)
  <2>. DEFINE yes == TRUE
  <2>1. PICK y : y = [x EXCEPT !.dying = yes]
    OBVIOUS
  <2>2. fighter' = [fighter EXCEPT ![f] = y]
    BY <1>1, <1>4, <2>1 DEF ThinkOf
  <2>3. yes \in BOOLEAN
    OBVIOUS
  <2>. HIDE DEF yes
  <2>4. y \in FighterRec /\ Placed(x, y) /\ Marked(x, y)
    BY <1>0, <1>1, <2>1, <2>3 DEF FighterRec, Placed, Marked
  <2>5. Sound(f, y)
    BY <1>0, <1>1, <2>4 DEF Sound, Placed, Marked
  <2>. QED
    BY <1>0, <1>1, <2>2, <2>4, <2>5, ReplaceOK DEF Placed
<1>. QED
  BY <1>2, <1>3, <1>4

\* Player::preSave touches no fight.
LEMMA SaveOK ==
  ASSUME FightsInv, Save
  PROVE  Fighting(fighter')
<1>0. fighter \in [Fighters -> FighterRec]
  BY DEF FightsInv, Fighting
<1>1. ASSUME NEW f \in Fighters
      PROVE  /\ fighter'[f] \in FighterRec /\ Placed(fighter[f], fighter'[f])
             /\ Marked(fighter[f], fighter'[f])
  <2>1. PICK x : x = fighter[f]
    OBVIOUS
  <2>2. PICK y : y = [x EXCEPT !.health = 1]
    OBVIOUS
  <2>3. fighter'[f] = y
    BY <2>1, <2>2 DEF Save
  <2>4. x \in FighterRec
    BY <1>0, <2>1
  <2>5. y \in FighterRec /\ Placed(x, y) /\ Marked(x, y)
    BY <2>2, <2>4 DEF FighterRec, Placed, Marked
  <2>. QED
    BY <2>1, <2>3, <2>5
<1>2. fighter' \in [Fighters -> FighterRec]
  <2>1. fighter' = [f \in Fighters |-> fighter'[f]]
    BY DEF Save
  <2>. QED
    BY <1>1, <2>1
<1>3. \A f \in Fighters : Sound(f, fighter'[f])
  <2>1. ASSUME NEW f \in Fighters PROVE Sound(f, fighter'[f])
    <3>1. Sound(f, fighter[f])
      BY DEF FightsInv, Fighting
    <3>. QED
      BY <1>1, <3>1 DEF Sound, Placed, Marked
  <2>. QED
    BY <2>1
<1>4. Aims(fighter')
  <2>1. \A g \in Fighters : fighter[g].target \in Fighters \cup {NoFighter}
    BY <1>0, FighterFields
  <2>. QED
    BY <1>1, <2>1 DEF Aims, Placed, FightsInv, Fighting
<1>. QED
  BY <1>2, <1>3, <1>4 DEF Fighting

\* Every step of the fights keeps the invariant.
LEMMA FightsStep ==
  ASSUME FightsInv, [FightsNext]_fightVars
  PROVE  FightsInv'
<1>0. /\ Fighting(fighter) /\ fighter \in [Fighters -> FighterRec] /\ partners \in BOOLEAN
      /\ charges \in [Fighters -> Nat] /\ ChargedOnce
  BY DEF FightsInv, Fighting
<1>1. ASSUME Fighting(fighter'), partners' \in BOOLEAN, UNCHANGED charges
      PROVE  FightsInv'
  BY <1>0, <1>1 DEF FightsInv, ChargedOnce, Fighting, Aims
<1>2. ASSUME NEW f \in Fighters, FighterLogin(f) PROVE FightsInv'
  BY <1>0, <1>1, <1>2, LoginOK DEF FighterLogin
<1>3. ASSUME NEW f \in Fighters, TimeGoesBy(f) \/ ThinkOf(f) PROVE FightsInv'
  BY <1>0, <1>1, <1>3, TimeOK DEF TimeGoesBy, ThinkOf
<1>4. ASSUME NEW f \in Fighters, NEW forced \in BOOLEAN, FighterLeaves(f, forced) PROVE FightsInv'
  BY <1>0, <1>1, <1>4, DepartedOK DEF FighterLeaves
<1>5. ASSUME NEW f \in Fighters, NEW g \in Fighters \cup {NoFighter}, NEW safe \in BOOLEAN,
             SetTarget(f, g, safe)
      PROVE  FightsInv'
  <2>. DEFINE t == IF g # NoFighter /\ CanTarget(fighter, f, g, safe) THEN g ELSE NoFighter
  <2>1. /\ fighter[f].online /\ fighter' = SetAttacked(fighter, f, t)
        /\ UNCHANGED <<partners, charges>>
    BY <1>5 DEF SetTarget
  <2>2. t \in Fighters \cup {NoFighter} /\ MayAim(fighter, f, t)
    BY <1>5 DEF SetTarget, CanTarget, Peaceful, MayAim
  <2>. HIDE DEF t
  <2>3. Fighting(fighter')
    BY <1>0, <2>1, <2>2, SetAttackedOK
  <2>. QED
    BY <1>0, <1>1, <2>1, <2>3
<1>6. ASSUME NEW f \in Fighters, NEW h \in Hitters, NEW fatal \in BOOLEAN, Hit(h, f, fatal)
      PROVE  FightsInv'
  BY <1>0, <1>1, <1>6, HitOK DEF Hit
<1>7. ASSUME NEW f \in Fighters, NEW z \in Zones, NEW teleport \in BOOLEAN, Walks(f, z, teleport)
      PROVE  FightsInv'
  BY <1>0, <1>1, <1>7, ChangeZoneOK DEF Walks
<1>8. CASE Save
  BY <1>0, <1>1, <1>8, SaveOK DEF Save
<1>9. CASE ChangeParty
  BY <1>0, <1>1, <1>9 DEF ChangeParty
<1>10. CASE UNCHANGED fightVars
  BY <1>0, <1>1, <1>10 DEF fightVars
<1>. QED
  BY <1>2, <1>3, <1>4, <1>5, <1>6, <1>7, <1>8, <1>9, <1>10, DoDeathOK DEF FightsNext

LEMMA FightsStart ==
  ASSUME FightsInit
  PROVE  FightsInv
<1>1. \A f \in Fighters : fighter[f] = NewFighter
  BY DEF FightsInit
<1>2. ~NewFighter.online /\ NewFighter.target = NoFighter /\ NewFighter.attacked = {}
  BY DEF NewFighter
<1>3. fighter \in [Fighters -> FighterRec]
  BY NewFighterOK DEF FightsInit
<1>4. \A f \in Fighters : Sound(f, NewFighter)
  BY <1>2 DEF Sound
<1>5. Aims(fighter)
  BY <1>1, <1>2 DEF Aims
<1>6. partners \in BOOLEAN /\ charges = [f \in Fighters |-> 0]
  BY DEF FightsInit, NoCharges
<1>7. charges \in [Fighters -> Nat] /\ ChargedOnce
  BY <1>6 DEF ChargedOnce
<1>. QED
  BY <1>1, <1>3, <1>4, <1>5, <1>6, <1>7 DEF FightsInv, Fighting

\* What the fights' invariant says, in the terms of the component.
LEMMA FightsInvSays ==
  ASSUME FightsInv
  PROVE  FightsConsistent
<1>0. /\ \A f \in Fighters : fighter[f] \in FighterRec /\ Sound(f, fighter[f])
      /\ Aims(fighter) /\ partners \in BOOLEAN /\ charges \in [Fighters -> Nat] /\ ChargedOnce
  BY DEF FightsInv, Fighting
<1>1. FightsTypeOK
  <2>1. ASSUME NEW f \in Fighters, NEW x, x = fighter[f]
        PROVE  /\ x.zone \in Zones /\ x.health \in 0..1 /\ x.fight \in 0..FightTime
               /\ x.skull \in {"none", "white", "red"} /\ x.attacked \subseteq Fighters \ {f}
               /\ x.redTicks \in 0..MaxRedTicks /\ x.target \in Fighters \cup {NoFighter}
               /\ x.hurtBy \subseteq Hitters /\ x.lastHit \in Hitters \cup {NoHit}
               /\ {x.online, x.pzLocked, x.dying} \subseteq BOOLEAN
    <3>1. /\ x.zone \in Zones /\ x.health \in 0..1 /\ x.fight \in 0..FightTime
          /\ x.skull \in {"none", "white", "red"}
          /\ x.redTicks \in 0..MaxRedTicks /\ x.target \in Fighters \cup {NoFighter}
          /\ x.hurtBy \subseteq Hitters /\ x.lastHit \in Hitters \cup {NoHit}
      BY <1>0, <2>1, FighterFields DEF Skulls
    <3>2. x.online \in BOOLEAN /\ x.pzLocked \in BOOLEAN /\ x.dying \in BOOLEAN
      BY <1>0, <2>1, FighterFields
    <3>3. {x.online, x.pzLocked, x.dying} \subseteq BOOLEAN
      BY <3>2
    <3>4. x.attacked \subseteq Fighters \ {f}
      BY <1>0, <2>1 DEF Sound
    <3>. QED
      BY <3>1, <3>3, <3>4
  <2>. QED
    BY <1>0, <2>1 DEF FightsTypeOK
<1>2. FightLeavesNothing
  BY <1>0 DEF FightLeavesNothing, Sound
<1>3. TargetLegal
  BY <1>0 DEF TargetLegal, Sound, Aims, Peaceful
<1>4. RedIsTimed
  BY <1>0 DEF RedIsTimed, Sound
<1>. QED
  BY <1>0, <1>1, <1>2, <1>3, <1>4 DEF FightsConsistent

\* What every step of the fights keeps: the marks of a fight are only there
\* while it lasts, who is aimed at may be, and a death is charged once.
THEOREM FightsInvariant == FightsSpec => []FightsInv
BY FightsStart, FightsStep, PTL DEF FightsSpec

\* However many players fight, and however the skulls and the thinks are
\* configured: marks go with the fight, targets are legal, kills are paid once.
THEOREM FightsAlwaysConsistent == FightsSpec => []FightsConsistent
BY FightsInvariant, FightsInvSays, PTL

-----------------------------------------------------------------------------
(* Chat.                                                                   *)

ChatSpec == ChatInit /\ [][ChatNext]_chatVars

ChannelRecord ==
  [owner : Users \cup {NoUser}, users : SUBSET Users, invites : SUBSET Users,
   ghosts : SUBSET Users, uninvited : SUBSET Users, exists : BOOLEAN]
ReportRecord == [state : {"none", "open", "taken"}, gamemaster : Users \cup {NoUser}]

\* What holds of each channel: its users are in the game, those of the reports
\* are gamemasters, those of a private channel are its owner, its guests and
\* those who opened it uninvited, and no others stay behind as ghosts.
SoundAt(c, x, P) ==
  /\ x.ghosts \subseteq x.uninvited /\ x.users \subseteq P
  /\ ~x.exists => x.users = {} /\ x.owner = NoUser /\ x.uninvited = {}
  /\ c = Reports => x.users \subseteq Gamemasters
  /\ c \in Slots => /\ x.exists => x.owner \in x.users
                    /\ x.users \subseteq {x.owner} \cup x.invites \cup x.uninvited
  /\ c \notin Slots => x.owner = NoUser /\ x.uninvited = {}

\* Channels C of the users P.
ChannelsSound(C, P) ==
  /\ C \in [Channels -> ChannelRecord]
  /\ \A c \in Channels : SoundAt(c, C[c], P)
  /\ \A c, d \in Slots : C[c].owner = C[d].owner /\ C[c].owner # NoUser => c = d

\* The clients of S show tabs T: the channels they are users of, of those they
\* opened uninvited perhaps fewer.
Tabbed(C, T, S) ==
  /\ T \in [Users -> SUBSET Channels]
  /\ \A u \in S, c \in Channels :
       /\ c \in T[u] => u \in C[c].users
       /\ u \in C[c].users => c \in T[u] \/ u \in C[c].uninvited

\* The users of the reports are shown those that are open.
Listed(C, R, L) ==
  /\ L \in [Users -> SUBSET Users]
  /\ \A u \in C[Reports].users, r \in Users : r \in L[u] <=> R[r] = Open

\* A report is of a user in the game, and so is the gamemaster who took it.
Reported(R, P) ==
  /\ R \in [Users -> ReportRecord]
  /\ \A r \in Users :
       \/ R[r] = NoReport
       \/ r \in P /\ R[r] = Open
       \/ r \in P /\ R[r].state = "taken" /\ R[r].gamemaster \in P \cap Gamemasters

\* A world put together from its parts, and in order but for the tabs of some.
Chats(C, T, R, L) == [channel |-> C, tabs |-> T, report |-> R, listed |-> L]

ChatOK(w, P, S) ==
  /\ w = Chats(w.channel, w.tabs, w.report, w.listed)
  /\ ChannelsSound(w.channel, P) /\ Tabbed(w.channel, w.tabs, S)
  /\ Reported(w.report, P) /\ Listed(w.channel, w.report, w.listed)

\* The inductive invariant.
ChatIInv == present \subseteq Users /\ ChatOK(ChatWorld, present, Users)

\* A player who is gone is called only because somebody opened a channel
\* uninvited.
StruckInv ==
  struck \in BOOLEAN /\ (struck => \E c \in Channels : channel[c].uninvited # {})

LEMMA ChatsParts ==
  ASSUME NEW C, NEW T, NEW R, NEW L, NEW w, w = Chats(C, T, R, L)
  PROVE  /\ w.channel = C /\ w.tabs = T /\ w.report = R /\ w.listed = L
         /\ w = Chats(w.channel, w.tabs, w.report, w.listed)
BY DEF Chats

LEMMA ChatsOK ==
  ASSUME NEW C, NEW T, NEW R, NEW L, NEW P, NEW S, NEW w, w = Chats(C, T, R, L),
         ChannelsSound(C, P), Tabbed(C, T, S), Reported(R, P), Listed(C, R, L)
  PROVE  ChatOK(w, P, S)
BY ChatsParts DEF ChatOK

LEMMA ReportKinds ==
  /\ Open # NoReport /\ Open \in ReportRecord /\ NoReport \in ReportRecord
  /\ Open.state = "open" /\ NoReport.state = "none"
  /\ Open.gamemaster = NoUser /\ NoReport.gamemaster = NoUser
  /\ \A g \in Gamemasters : \A x : x.gamemaster = g => x # Open /\ x # NoReport
BY ChatAssumption DEF Open, NoReport, ReportRecord

LEMMA ChannelFields ==
  ASSUME NEW x \in ChannelRecord
  PROVE  /\ x.owner \in Users \cup {NoUser} /\ x.users \in SUBSET Users
         /\ x.invites \in SUBSET Users /\ x.ghosts \in SUBSET Users
         /\ x.uninvited \in SUBSET Users
BY DEF ChannelRecord

LEMMA ChannelKinds ==
  /\ Reports \in Channels /\ Guild \in Channels /\ Slots \subseteq Channels
  /\ Reports \notin Slots /\ Guild \notin Slots /\ Reports # Guild
BY ChatAssumption, Zenon DEF Channels

-----------------------------------------------------------------------------
(* Reports.                                                                *)

\* A report is changed and taken off the lists.
LEMMA UnlistOK ==
  ASSUME NEW w, NEW P, NEW S, ChatOK(w, P, S), NEW r \in Users, NEW x \in ReportRecord, x # Open,
         x = NoReport \/ (r \in P /\ x.state = "taken" /\ x.gamemaster \in P \cap Gamemasters),
         NEW v, v = Unlist([w EXCEPT !.report[r] = x], r)
  PROVE  ChatOK(v, P, S) /\ v.channel = w.channel /\ v.tabs = w.tabs /\ v.report[r] = x
<1>1. PICK C, T, R, L : w = Chats(C, T, R, L) /\ C = w.channel /\ T = w.tabs /\ R = w.report /\ L = w.listed
  BY DEF ChatOK
<1>2. PICK Q : Q = [R EXCEPT ![r] = x]
  OBVIOUS
<1>3. PICK M : M = [u \in Users |-> IF u \in C[Reports].users THEN L[u] \ {r} ELSE L[u]]
  OBVIOUS
<1>4. [w EXCEPT !.report[r] = x] = Chats(C, T, Q, L)
  BY <1>1, <1>2 DEF Chats
<1>5. v = Chats(C, T, Q, M)
  BY <1>3, <1>4, Zenon DEF Unlist, Chats
<1>6. ChannelsSound(C, P) /\ Tabbed(C, T, S) /\ Reported(R, P) /\ Listed(C, R, L)
  BY <1>1, Zenon DEF ChatOK
<1>7. /\ \A s \in Users : Q[s] = IF s = r THEN x ELSE R[s]
      /\ Q \in [Users -> ReportRecord]
  BY <1>2, <1>6 DEF Reported
<1>8. Reported(Q, P)
  BY <1>6, <1>7 DEF Reported
<1>9. Listed(C, Q, M)
  <2>1. M \in [Users -> SUBSET Users]
    BY <1>3, <1>6 DEF Listed
  <2>2. C[Reports].users \subseteq Users
    BY <1>6, ChannelKinds, ChannelFields DEF ChannelsSound
  <2>3. \A u \in C[Reports].users : M[u] = L[u] \ {r}
    BY <1>3, <2>2
  <2>. QED
    BY <1>6, <1>7, <2>1, <2>3 DEF Listed
<1>10. Q[r] = x
  BY <1>7
<1>11. ChatOK(v, P, S)
  BY <1>5, <1>6, <1>8, <1>9, ChatsOK
<1>12. v.channel = C /\ v.tabs = T /\ v.report = Q
  BY <1>5, ChatsParts
<1>. QED
  BY <1>1, <1>10, <1>11, <1>12, Zenon

\* Game::cancelRuleViolation
LEMMA CancelReportOK ==
  ASSUME NEW w, NEW P, NEW S, ChatOK(w, P, S), NEW r \in Users, NEW v, v = CancelReport(w, r)
  PROVE  ChatOK(v, P, S) /\ v.channel = w.channel /\ v.tabs = w.tabs /\ v.report[r] = NoReport
<1>1. PICK C, T, R, L : w = Chats(C, T, R, L) /\ C = w.channel /\ T = w.tabs /\ R = w.report /\ L = w.listed
  BY Zenon DEF ChatOK
<1>2. ChannelsSound(C, P) /\ Tabbed(C, T, S) /\ Reported(R, P) /\ Listed(C, R, L)
  BY <1>1, Zenon DEF ChatOK
<1>3. PICK x : x = NoReport
  OBVIOUS
<1>4. x \in ReportRecord /\ x # Open /\ x.state = "none"
  BY <1>3, ReportKinds, Zenon
<1>5. CASE R[r].state = "none"
  <2>1. R[r] = x
    BY <1>2, <1>3, <1>5, ReportKinds, Zenon DEF Reported
  <2>2. v = w
    BY <1>1, <1>5, Zenon DEF CancelReport
  <2>. QED
    BY <1>1, <1>3, <2>1, <2>2, Zenon
<1>6. CASE R[r].state = "taken"
  <2>1. PICK Q : Q = [R EXCEPT ![r] = x]
    OBVIOUS
  <2>2. /\ \A s \in Users : Q[s] = IF s = r THEN x ELSE R[s]
        /\ Q \in [Users -> ReportRecord]
    BY <1>2, <1>4, <2>1 DEF Reported
  <2>3. v = Chats(C, T, Q, L)
    BY <1>1, <1>3, <1>6, <2>1 DEF CancelReport, Chats
  <2>4. Reported(Q, P)
    BY <1>2, <1>3, <2>2 DEF Reported
  <2>5. Listed(C, Q, L)
    BY <1>2, <1>4, <1>6, <2>2, ReportKinds DEF Listed
  <2>6. ChatOK(v, P, S)
    BY <1>2, <2>3, <2>4, <2>5, ChatsOK
  <2>7. v.channel = C /\ v.tabs = T /\ v.report = Q
    BY <2>3, ChatsParts
  <2>8. Q[r] = x
    BY <2>2
  <2>. QED
    BY <1>1, <1>3, <2>6, <2>7, <2>8, Zenon
<1>7. CASE R[r].state \notin {"none", "taken"}
  <2>1. v = Unlist([w EXCEPT !.report[r] = x], r)
    BY <1>1, <1>3, <1>7, Zenon DEF CancelReport
  <2>. QED
    BY <1>3, <1>4, <2>1, UnlistOK, SMTT(30)
<1>. QED
  BY <1>5, <1>6, <1>7

\* Game::closeRuleViolation
LEMMA CloseReportOK ==
  ASSUME NEW w, NEW P, NEW S, ChatOK(w, P, S), NEW r \in Users, NEW v, v = CloseReport(w, r)
  PROVE  ChatOK(v, P, S)
<1>1. PICK x : x = NoReport
  OBVIOUS
<1>2. x \in ReportRecord /\ x # Open
  BY <1>1, ReportKinds
<1>3. CASE w.report[r].state = "none"
  BY <1>3 DEF CloseReport
<1>4. CASE w.report[r].state # "none"
  <2>1. v = Unlist([w EXCEPT !.report[r] = x], r)
    BY <1>1, <1>4 DEF CloseReport
  <2>. QED
    BY <1>1, <1>2, <2>1, UnlistOK
<1>. QED
  BY <1>3, <1>4

\* The reports of a gamemaster who leaves are closed: nobody's report is its.
LEMMA CloseReportsOfOK ==
  ASSUME NEW w, NEW P, NEW S, ChatOK(w, P, S), NEW g \in Users, w.report[g] = NoReport,
         NEW v, v = CloseReportsOf(w, g)
  PROVE  ChatOK(v, P, S) /\ v.channel = w.channel /\ Reported(v.report, P \ {g})
<1>1. PICK C, T, R, L : w = Chats(C, T, R, L) /\ C = w.channel /\ T = w.tabs /\ R = w.report /\ L = w.listed
  BY Zenon DEF ChatOK
<1>2. ChannelsSound(C, P) /\ Tabbed(C, T, S) /\ Reported(R, P) /\ Listed(C, R, L)
  BY <1>1, Zenon DEF ChatOK
<1>3. PICK x : x = NoReport
  OBVIOUS
<1>4. x \in ReportRecord /\ x # Open /\ x.state = "none"
  BY <1>3, ReportKinds, Zenon
<1>5. CASE g \notin Gamemasters
  <2>1. v = w
    BY <1>5, Zenon DEF CloseReportsOf
  <2>2. Reported(R, P \ {g})
    BY <1>1, <1>2, <1>5, ReportKinds, Zenon DEF Reported
  <2>. QED
    BY <1>1, <2>1, <2>2, Zenon
<1>6. CASE g \in Gamemasters
  <2>1. PICK mine : mine = {r \in Users : R[r].gamemaster = g}
    OBVIOUS
  <2>2. PICK Q : Q = [r \in Users |-> IF r \in mine THEN x ELSE R[r]]
    OBVIOUS
  <2>3. PICK M : M = [u \in Users |-> IF u \in C[Reports].users THEN L[u] \ mine ELSE L[u]]
    OBVIOUS
  <2>4. v = Chats(C, T, Q, M)
    BY <1>1, <1>3, <1>6, <2>1, <2>2, <2>3 DEF CloseReportsOf, Chats
  <2>5. \A r \in mine : R[r] # Open /\ R[r] # x
    BY <1>3, <1>6, <2>1, ReportKinds
  <2>6. /\ \A r \in Users : Q[r] = IF r \in mine THEN x ELSE R[r]
        /\ Q \in [Users -> ReportRecord]
    BY <1>2, <1>4, <2>2 DEF Reported
  <2>7. Reported(Q, P)
    BY <1>2, <1>3, <2>6 DEF Reported
  <2>8. Reported(Q, P \ {g})
    <3>1. \A r \in Users : R[r].gamemaster = g => r \in mine
      BY <2>1, Zenon
    <3>2. ReportRecord = ReportRecord /\ R[g] = x
      BY <1>1, <1>3, Zenon
    <3>3. \A r \in Users : Q[r] # x => r # g /\ Q[r] = R[r] /\ R[r].gamemaster # g
      BY <2>6, <3>1, <3>2
    <3>. QED
      BY <1>3, <2>6, <2>7, <3>3 DEF Reported
  <2>9. Listed(C, Q, M)
    <3>1. M \in [Users -> SUBSET Users]
      BY <1>2, <2>3 DEF Listed
    <3>2. C[Reports].users \subseteq Users
      BY <1>2, ChannelKinds, ChannelFields DEF ChannelsSound
    <3>3. \A u \in C[Reports].users : M[u] = L[u] \ mine
      BY <2>3, <3>2
    <3>. QED
      BY <1>2, <1>4, <2>5, <2>6, <3>1, <3>3 DEF Listed
  <2>10. ChatOK(v, P, S)
    BY <1>2, <2>4, <2>7, <2>9, ChatsOK
  <2>11. v.channel = C /\ v.report = Q
    BY <2>4, ChatsParts
  <2>. QED
    BY <1>1, <2>8, <2>10, <2>11, Zenon
<1>. QED
  BY <1>5, <1>6, Zenon

-----------------------------------------------------------------------------
(* Channels.                                                               *)

LEMMA NoChannelSound ==
  /\ NoChannel \in ChannelRecord /\ NoChannel.users = {} /\ NoChannel.owner = NoUser
  /\ \A c, P : SoundAt(c, NoChannel, P)
<1>1. NoChannel \in ChannelRecord
  BY DEF NoChannel, ChannelRecord
<1>2. /\ NoChannel.users = {} /\ NoChannel.owner = NoUser /\ NoChannel.ghosts = {}
      /\ NoChannel.invites = {} /\ NoChannel.uninvited = {} /\ ~NoChannel.exists
  BY DEF NoChannel
<1>3. ASSUME NEW c, NEW P PROVE SoundAt(c, NoChannel, P)
  BY <1>2 DEF SoundAt
<1>. QED
  BY <1>1, <1>2, <1>3

\* The owner of channel x has no other.
Alone(C, c, x) == x.owner # NoUser => \A d \in Slots : C[d].owner = x.owner => d = c

Replaced(C, c, x) == [C EXCEPT ![c] = x]

\* One channel is changed.
LEMMA OneChannel ==
  ASSUME NEW C, NEW P, ChannelsSound(C, P), NEW c \in Channels, NEW y \in ChannelRecord, SoundAt(c, y, P),
         Alone(C, c, y), NEW B, B = Replaced(C, c, y)
  PROVE  ChannelsSound(B, P) /\ \A d \in Channels : B[d] = IF d = c THEN y ELSE C[d]
<1>1. C \in [Channels -> ChannelRecord]
  BY DEF ChannelsSound
<1>2. B \in [Channels -> ChannelRecord] /\ \A d \in Channels : B[d] = IF d = c THEN y ELSE C[d]
  BY <1>1 DEF Replaced
<1>3. \A d \in Channels : SoundAt(d, B[d], P)
  BY <1>2 DEF ChannelsSound
<1>4. ASSUME NEW d \in Slots, NEW e \in Slots, B[d].owner = B[e].owner, B[d].owner # NoUser
      PROVE  d = e
  <2>1. d \in Channels /\ e \in Channels
    BY ChannelKinds, Zenon
  <2>. QED
    BY <1>2, <1>4, <2>1 DEF ChannelsSound, Alone
<1>. QED
  BY <1>2, <1>3, <1>4 DEF ChannelsSound

\* Chat::getChannelList founds the guild channel; nobody is in it for that.
LEMMA WithGuildOK ==
  ASSUME NEW w, NEW P, NEW S, ChatOK(w, P, S), NEW v, v = WithGuild(w)
  PROVE  /\ ChatOK(v, P, S) /\ v.tabs = w.tabs /\ v.report = w.report /\ v.listed = w.listed
         /\ \A c \in Channels : /\ v.channel[c].users = w.channel[c].users
                                /\ v.channel[c].owner = w.channel[c].owner
                                /\ v.channel[c].uninvited = w.channel[c].uninvited
<1>1. PICK C, T, R, L : w = Chats(C, T, R, L) /\ C = w.channel /\ T = w.tabs /\ R = w.report /\ L = w.listed
  BY Zenon DEF ChatOK
<1>2. ChannelsSound(C, P) /\ Tabbed(C, T, S) /\ Reported(R, P) /\ Listed(C, R, L)
  BY <1>1, Zenon DEF ChatOK
<1>3. PICK x : x = C[Guild]
  OBVIOUS
<1>4. PICK y : y = [x EXCEPT !.exists = TRUE]
  OBVIOUS
<1>5. x \in ChannelRecord /\ SoundAt(Guild, x, P)
  BY <1>2, <1>3, ChannelKinds DEF ChannelsSound
<1>6. /\ y \in ChannelRecord /\ y.users = x.users /\ y.owner = x.owner
      /\ y.ghosts = x.ghosts /\ y.invites = x.invites /\ y.uninvited = x.uninvited
  BY <1>4, <1>5 DEF ChannelRecord
<1>7. x.owner = NoUser
  BY <1>5, ChannelKinds DEF SoundAt
<1>8. SoundAt(Guild, y, P)
  <2>1. y.exists
    BY <1>4, <1>5 DEF ChannelRecord
  <2>. QED
    BY <1>5, <1>6, <2>1, ChannelKinds DEF SoundAt
<1>9. PICK B : B = Replaced(C, Guild, y)
  OBVIOUS
<1>10. ChannelsSound(B, P) /\ \A d \in Channels : B[d] = IF d = Guild THEN y ELSE C[d]
  <2>1. ChannelsSound(C, P) /\ Guild \in Channels /\ y \in ChannelRecord /\ Alone(C, Guild, y)
    BY <1>2, <1>6, <1>7, ChannelKinds DEF Alone
  <2>. QED
    BY <1>8, <1>9, <2>1, OneChannel
<1>11. v = Chats(B, T, R, L)
  BY <1>1, <1>3, <1>4, <1>9 DEF WithGuild, Chats, Replaced
<1>12. \A c \in Channels : /\ B[c].users = C[c].users /\ B[c].owner = C[c].owner
                           /\ B[c].uninvited = C[c].uninvited
  BY <1>3, <1>6, <1>10
<1>13. Tabbed(B, T, S) /\ Listed(B, R, L)
  BY <1>2, <1>12, ChannelKinds DEF Tabbed, Listed
<1>14. ChatOK(v, P, S)
  BY <1>2, <1>10, <1>11, <1>13, ChatsOK
<1>15. v.channel = B /\ v.tabs = T /\ v.report = R /\ v.listed = L
  BY <1>11, ChatsParts
<1>. QED
  BY <1>1, <1>12, <1>14, <1>15, Zenon

\* Every channel a player is in is in the list of Chat::getChannelList, but what
\* it opened uninvited.
LEMMA ListIsComplete ==
  ASSUME NEW w, NEW P, ChannelsSound(w.channel, P), NEW u \in Users, NEW c \in Channels,
         u \in w.channel[c].users, u \notin w.channel[c].uninvited
  PROVE  c \in ChannelList(w, u)
<1>1. PICK x : x = w.channel[c]
  OBVIOUS
<1>2. SoundAt(c, x, P) /\ u \in x.users /\ u \notin x.uninvited
  BY <1>1 DEF ChannelsSound
<1>3. x.exists
  BY <1>2 DEF SoundAt
<1>4. c = Reports => u \in Gamemasters
  BY <1>2 DEF SoundAt
<1>5. c \in Slots => x.owner = u \/ u \in x.invites
  BY <1>2 DEF SoundAt
<1>6. c \in Slots => IsInvited(w.channel[c], u)
  BY <1>1, <1>5 DEF IsInvited
<1>7. Reachable(w, u, c)
  BY <1>1, <1>3, <1>4 DEF Reachable
<1>. QED
  BY <1>6, <1>7 DEF ChannelList

\* The channels after player u has left those of K, which are all it was in but
\* what it opened uninvited.
LeftBy(C, K, u) ==
  [c \in Channels |-> [C[c] EXCEPT !.users = IF c \in K THEN @ \ {u} ELSE @]]

AllOf(C, K, u) == \A c \in Channels : u \in C[c].users => c \in K \/ u \in C[c].uninvited

\* Where player u stays behind it was uninvited.
OnlyUninvited(C, u) == \A c \in Channels : u \in C[c].users => u \in C[c].uninvited

\* Player u has no channel.
OwnsNone(C, u) == \A c \in Channels : C[c].owner # u

HasLeft(C, B, P, u) ==
  /\ B \in [Channels -> ChannelRecord]
  /\ \A c \in Channels : /\ B[c].users \ {u} = C[c].users \ {u}
                         /\ B[c].owner = C[c].owner /\ B[c].uninvited = C[c].uninvited
                         /\ C[c].owner # u => SoundAt(c, B[c], P)
  /\ OnlyUninvited(B, u)

LEMMA LeftUsers ==
  ASSUME NEW C, NEW P, ChannelsSound(C, P), NEW u, NEW K, AllOf(C, K, u), NEW B, B = LeftBy(C, K, u)
  PROVE  HasLeft(C, B, P, u)
<1>1. ASSUME NEW c \in Channels
      PROVE  /\ B[c] \in ChannelRecord /\ B[c].users \ {u} = C[c].users \ {u}
             /\ B[c].owner = C[c].owner /\ B[c].uninvited = C[c].uninvited
             /\ C[c].owner # u => SoundAt(c, B[c], P)
             /\ u \in B[c].users => u \in B[c].uninvited
  <2>1. PICK x : x = C[c]
    OBVIOUS
  <2>2. PICK y : y = B[c]
    OBVIOUS
  <2>3. x \in ChannelRecord /\ SoundAt(c, x, P)
    BY <2>1 DEF ChannelsSound
  <2>4. PICK U : U = IF c \in K THEN x.users \ {u} ELSE x.users
    OBVIOUS
  <2>5. y = [x EXCEPT !.users = U]
    BY <2>1, <2>2, <2>4 DEF LeftBy
  <2>6. /\ U \subseteq x.users /\ U \ {u} = x.users \ {u} /\ U \in SUBSET Users
        /\ u \in U => u \in x.uninvited
    BY <2>1, <2>3, <2>4, ChannelFields DEF AllOf
  <2>7. /\ y \in ChannelRecord /\ y.owner = x.owner /\ y.invites = x.invites /\ y.ghosts = x.ghosts
        /\ y.exists = x.exists /\ y.users = U /\ y.uninvited = x.uninvited
    BY <2>3, <2>5, <2>6 DEF ChannelRecord
  <2>8. x.owner # u => SoundAt(c, y, P)
    BY <2>3, <2>6, <2>7 DEF SoundAt
  <2>. QED
    BY <2>1, <2>2, <2>6, <2>7, <2>8
<1>2. B = [c \in Channels |-> B[c]]
  BY DEF LeftBy
<1>. QED
  BY <1>1, <1>2 DEF HasLeft, OnlyUninvited

\* Chat::removeUserFromAllChannels: nobody is left in a channel of the player's,
\* and it is in none but what it opened uninvited.
LEMMA RemoveFromAllOK ==
  ASSUME NEW w, NEW P, NEW S \in SUBSET Users, ChatOK(w, P, S), NEW u \in Users,
         NEW v, v = RemoveFromAllChannels(w, u)
  PROVE  /\ ChatOK(v, P, S \ {u}) /\ v.report = w.report
         /\ OnlyUninvited(v.channel, u) /\ OwnsNone(v.channel, u)
<1>1. PICK g : g = WithGuild(w)
  OBVIOUS
<1>2. /\ ChatOK(g, P, S) /\ g.report = w.report
      /\ \A c \in Channels : /\ g.channel[c].users = w.channel[c].users
                             /\ g.channel[c].owner = w.channel[c].owner
                             /\ g.channel[c].uninvited = w.channel[c].uninvited
  BY <1>1, WithGuildOK
<1>3. PICK C, T, R, L : g = Chats(C, T, R, L) /\ C = g.channel /\ T = g.tabs /\ R = g.report /\ L = g.listed
  BY <1>2, Zenon DEF ChatOK
<1>4. ChannelsSound(C, P) /\ Tabbed(C, T, S) /\ Reported(R, P) /\ Listed(C, R, L)
  BY <1>2, <1>3, Zenon DEF ChatOK
<1>5. PICK K : K = ChannelList(w, u)
  BY Zenon
<1>6. AllOf(C, K, u)
  <2>1. ChannelsSound(w.channel, P)
    BY Zenon DEF ChatOK
  <2>. QED
    BY <1>2, <1>3, <1>5, <2>1, ListIsComplete, Zenon DEF AllOf
<1>7. PICK own : own = OwnChannels(w, u)
  OBVIOUS
<1>8. own = {c \in Slots : C[c].owner = u}
  BY <1>2, <1>3, <1>7, ChannelKinds, Zenon DEF OwnChannels
<1>9. PICK B : B = LeftBy(C, K, u)
  OBVIOUS
<1>10. /\ B \in [Channels -> ChannelRecord]
       /\ \A c \in Channels : /\ B[c].users \ {u} = C[c].users \ {u}
                              /\ B[c].owner = C[c].owner /\ B[c].uninvited = C[c].uninvited
                              /\ C[c].owner # u => SoundAt(c, B[c], P)
       /\ \A c \in Channels : u \in B[c].users => u \in B[c].uninvited
  <2>1. HasLeft(C, B, P, u)
    BY <1>4, <1>6, <1>9, LeftUsers
  <2>. QED
    BY <2>1 DEF HasLeft, OnlyUninvited
<1>11. PICK left : left = Chats(B, T, R, L)
  OBVIOUS
<1>12. LeaveListed(w, u) = left
  <2>1. LeaveListed(w, u) = [g EXCEPT !.channel = LeftBy(g.channel, K, u)]
    BY <1>1, <1>5 DEF LeaveListed, LeftBy
  <2>2. LeaveListed(w, u) = [g EXCEPT !.channel = B]
    BY <1>3, <1>9, <2>1, Zenon
  <2>. QED
    BY <1>3, <1>11, <2>2 DEF Chats
<1>13. /\ own = {} => v = left
       /\ own # {} => v = DeleteChannel(left, CHOOSE c \in own : TRUE)
  BY <1>7, <1>12 DEF RemoveFromAllChannels
<1>14. u # NoUser
  BY ChatAssumption
<1>15. \A c \in Channels \ Slots : C[c].owner # u
  BY <1>4, <1>14, Zenon DEF ChannelsSound, SoundAt
<1>16. CASE own = {}
  <2>1. \A c \in Channels : C[c].owner # u
    BY <1>8, <1>15, <1>16
  <2>2. ChannelsSound(B, P)
    <3>1. \A c \in Channels : SoundAt(c, B[c], P)
      BY <1>10, <2>1
    <3>2. \A c, d \in Slots : B[c].owner = B[d].owner /\ B[c].owner # NoUser => c = d
      BY <1>4, <1>10, ChannelKinds DEF ChannelsSound
    <3>. QED
      BY <1>10, <3>1, <3>2 DEF ChannelsSound
  <2>3. Tabbed(B, T, S \ {u})
    BY <1>4, <1>10 DEF Tabbed
  <2>4. Listed(B, R, L)
    <3>1. B[Reports].users \subseteq C[Reports].users
      <4>1. SoundAt(Reports, B[Reports], P)
        BY <1>10, <2>1, ChannelKinds
      <4>. QED
        BY <1>10, <4>1, ChannelKinds DEF SoundAt
    <3>. QED
      BY <1>4, <3>1 DEF Listed
  <2>5. v = Chats(B, T, R, L)
    BY <1>11, <1>13, <1>16
  <2>6. ChatOK(v, P, S \ {u})
    BY <1>4, <2>2, <2>3, <2>4, <2>5, ChatsOK
  <2>7. v.channel = B /\ v.report = R
    BY <2>5, ChatsParts
  <2>8. OnlyUninvited(B, u) /\ OwnsNone(B, u)
    BY <1>10, <2>1 DEF OnlyUninvited, OwnsNone
  <2>. QED
    BY <1>2, <1>3, <2>6, <2>7, <2>8, Zenon
<1>17. CASE own # {}
  <2>1. PICK o : o = CHOOSE c \in own : TRUE
    OBVIOUS
  <2>2. o \in Slots /\ C[o].owner = u /\ o \in Channels
    BY <1>8, <1>17, <2>1, ChannelKinds
  <2>3. \A c \in Channels : c # o => C[c].owner # u
    BY <1>4, <1>14, <1>15, <2>2 DEF ChannelsSound
  <2>4. PICK n : n = NoChannel
    OBVIOUS
  <2>5. n \in ChannelRecord /\ n.users = {} /\ n.owner = NoUser /\ SoundAt(o, n, P)
    BY <2>4, NoChannelSound
  <2>6. PICK D : D = [B EXCEPT ![o] = n]
    OBVIOUS
  <2>7. D \in [Channels -> ChannelRecord] /\ \A c \in Channels : D[c] = IF c = o THEN n ELSE B[c]
    BY <1>10, <2>5, <2>6
  <2>8. PICK U : U = [x \in Users |-> IF x \in B[o].users THEN T[x] \ {o} ELSE T[x]]
    OBVIOUS
  <2>9. v = Chats(D, U, R, L)
    <3>1. v = DeleteChannel(left, o)
      BY <1>13, <1>17, <2>1
    <3>2. left.channel = B /\ left.tabs = T
      BY <1>11, ChatsParts
    <3>3. v = [left EXCEPT !.channel = D, !.tabs = U]
      <4>1. v = [left EXCEPT !.channel = [B EXCEPT ![o] = n],
                             !.tabs = [x \in Users |-> IF x \in B[o].users THEN T[x] \ {o} ELSE T[x]]]
        BY <2>4, <3>1, <3>2 DEF DeleteChannel
      <4>. QED
        BY <2>6, <2>8, <4>1
    <3>. QED
      BY <1>11, <3>3 DEF Chats
  <2>10. ChannelsSound(D, P)
    <3>1. \A c \in Channels : SoundAt(c, D[c], P)
      BY <1>10, <2>3, <2>5, <2>7
    <3>2. \A c, d \in Slots : D[c].owner = D[d].owner /\ D[c].owner # NoUser => c = d
      <4>1. \A c \in Slots : D[c].owner # NoUser => D[c].owner = C[c].owner
        BY <1>10, <2>5, <2>7, ChannelKinds
      <4>. QED
        BY <1>4, <4>1 DEF ChannelsSound
    <3>. QED
      BY <2>7, <3>1, <3>2 DEF ChannelsSound
  <2>11. Tabbed(D, U, S \ {u})
    <3>0. /\ T \in [Users -> SUBSET Channels]
          /\ \A x \in S, c \in Channels :
               /\ c \in T[x] => x \in C[c].users
               /\ x \in C[c].users => c \in T[x] \/ x \in C[c].uninvited
      BY <1>4 DEF Tabbed
    <3>1. U \in [Users -> SUBSET Channels]
      BY <2>8, <3>0
    <3>2. ASSUME NEW x \in S \ {u}, NEW c \in Channels, x \in Users
          PROVE  /\ c \in U[x] => x \in D[c].users
                 /\ x \in D[c].users => c \in U[x] \/ x \in D[c].uninvited
      <4>1. U[x] = IF x \in B[o].users THEN T[x] \ {o} ELSE T[x]
        BY <2>8, <3>2
      <4>2. /\ c \in T[x] => x \in B[c].users
            /\ x \in B[c].users => c \in T[x] \/ x \in B[c].uninvited
        BY <1>10, <3>0
      <4>3. CASE c = o
        BY <2>5, <2>7, <4>1, <4>2, <4>3
      <4>4. CASE c # o
        BY <2>7, <4>1, <4>2, <4>4
      <4>. QED
        BY <4>3, <4>4
    <3>. QED
      BY <3>1, <3>2 DEF Tabbed
  <2>12. Listed(D, R, L)
    <3>1. D[Reports].users \subseteq C[Reports].users
      <4>1. SoundAt(Reports, B[Reports], P) /\ D[Reports] = B[Reports]
        BY <1>10, <1>15, <2>2, <2>7, ChannelKinds
      <4>. QED
        BY <1>10, <4>1, ChannelKinds DEF SoundAt
    <3>. QED
      BY <1>4, <3>1 DEF Listed
  <2>13. ChatOK(v, P, S \ {u})
    BY <1>4, <2>9, <2>10, <2>11, <2>12, ChatsOK
  <2>14. v.channel = D /\ v.report = R
    BY <2>9, ChatsParts
  <2>15. OnlyUninvited(D, u)
    BY <1>10, <2>5, <2>7 DEF OnlyUninvited
  <2>16. OwnsNone(D, u)
    BY <1>10, <1>14, <2>3, <2>5, <2>7 DEF OwnsNone
  <2>. QED
    BY <1>2, <1>3, <2>13, <2>14, <2>15, <2>16, Zenon
<1>. QED
  BY <1>16, <1>17, Zenon

-----------------------------------------------------------------------------
(* The handlers of chat.                                                   *)

LEMMA ChatStepOK ==
  ASSUME NEW v, ChatOK(v, present', Users), ChatBecomes(v), present' \subseteq Users
  PROVE  ChatIInv'
<1>1. ChatWorld' = v
  BY DEF ChatOK, ChatBecomes, ChatWorld, Chats
<1>. QED
  BY <1>1 DEF ChatIInv

\* More players in the game are no harm.
LEMMA MorePresent ==
  ASSUME NEW w, NEW P, NEW S, ChatOK(w, P, S), NEW Q, P \subseteq Q
  PROVE  ChatOK(w, Q, S)
<1>1. ChannelsSound(w.channel, Q)
  BY DEF ChatOK, ChannelsSound, SoundAt
<1>2. Reported(w.report, Q)
  BY DEF ChatOK, Reported
<1>. QED
  BY <1>1, <1>2 DEF ChatOK

\* A client that shows nothing, of a player in no channel but what it opened
\* uninvited.
LEMMA ClearTabs ==
  ASSUME NEW w, NEW P, NEW u \in Users, ChatOK(w, P, Users \ {u}), OnlyUninvited(w.channel, u),
         NEW v, v = Chats(w.channel, [w.tabs EXCEPT ![u] = {}], w.report, [w.listed EXCEPT ![u] = {}])
  PROVE  ChatOK(v, P, Users)
<1>1. PICK C, T, R, L : C = w.channel /\ T = w.tabs /\ R = w.report /\ L = w.listed
  OBVIOUS
<1>2. ChannelsSound(C, P) /\ Tabbed(C, T, Users \ {u}) /\ Reported(R, P) /\ Listed(C, R, L)
  BY <1>1 DEF ChatOK
<1>3. /\ \A c \in Channels : u \in C[c].users => u \in C[c].uninvited
      /\ u \notin C[Reports].users
  BY <1>1, <1>2, ChannelKinds DEF ChannelsSound, SoundAt, OnlyUninvited
<1>4. PICK U : U = [T EXCEPT ![u] = {}]
  OBVIOUS
<1>5. PICK M : M = [L EXCEPT ![u] = {}]
  OBVIOUS
<1>6. /\ U \in [Users -> SUBSET Channels] /\ \A x \in Users : U[x] = IF x = u THEN {} ELSE T[x]
      /\ M \in [Users -> SUBSET Users] /\ \A x \in Users : M[x] = IF x = u THEN {} ELSE L[x]
  BY <1>2, <1>4, <1>5 DEF Tabbed, Listed
<1>7. Tabbed(C, U, Users)
  BY <1>2, <1>3, <1>6 DEF Tabbed
<1>8. Listed(C, R, M)
  <2>1. \A x \in C[Reports].users : x \in Users /\ x # u
    BY <1>2, <1>3, ChannelKinds, ChannelFields DEF ChannelsSound
  <2>. QED
    BY <1>2, <1>6, <2>1 DEF Listed
<1>9. v = Chats(C, U, R, M)
  BY <1>1, <1>4, <1>5
<1>. QED
  BY <1>2, <1>7, <1>8, <1>9, ChatsOK

\* The client of u shows nothing; the channels become K.
Blank(d, u) == [d EXCEPT !.tabs[u] = {}, !.listed[u] = {}]
BlankIn(d, u, K) == [d EXCEPT !.tabs[u] = {}, !.listed[u] = {}, !.channel = K]

LEMMA Cleared ==
  ASSUME NEW C, NEW T, NEW R, NEW L, NEW K, NEW u, NEW d, d = Chats(C, T, R, L)
  PROVE  /\ Blank(d, u) = Chats(C, [T EXCEPT ![u] = {}], R, [L EXCEPT ![u] = {}])
         /\ BlankIn(d, u, K) = Chats(K, [T EXCEPT ![u] = {}], R, [L EXCEPT ![u] = {}])
<1>1. PICK U : U = [T EXCEPT ![u] = {}]
  OBVIOUS
<1>2. PICK M : M = [L EXCEPT ![u] = {}]
  OBVIOUS
<1>3. d.tabs = T /\ d.listed = L
  BY ChatsParts
<1>4. [d EXCEPT !.tabs[u] = {}] = [d EXCEPT !.tabs = U]
  BY <1>1, <1>3
<1>5. PICK e : e = Chats(C, U, R, L)
  OBVIOUS
<1>6. [d EXCEPT !.tabs[u] = {}] = e
  BY <1>4, <1>5 DEF Chats
<1>7. e.listed = L
  BY <1>5, ChatsParts
<1>8. [e EXCEPT !.listed[u] = {}] = [e EXCEPT !.listed = M]
  BY <1>2, <1>7
<1>9. PICK f : f = Chats(C, U, R, M)
  OBVIOUS
<1>10. [e EXCEPT !.listed[u] = {}] = f
  BY <1>5, <1>8, <1>9 DEF Chats
<1>11. [f EXCEPT !.channel = K] = Chats(K, U, R, M)
  BY <1>9 DEF Chats
<1>. QED
  BY <1>1, <1>2, <1>6, <1>9, <1>10, <1>11 DEF Blank, BlankIn

LEMMA ChatLoginStep ==
  ASSUME ChatIInv, NEW u \in Users, ChatLogin(u)
  PROVE  ChatIInv'
<1>1. present' = present \cup {u} /\ ChatWorld' = ChatWorld
  BY DEF ChatLogin, ChatWorld
<1>2. ChatOK(ChatWorld, present', Users)
  <2>1. PICK w : w = ChatWorld
    OBVIOUS
  <2>2. PICK P : P = present
    OBVIOUS
  <2>3. ChatOK(w, P \cup {u}, Users)
    BY <2>1, <2>2, MorePresent DEF ChatIInv
  <2>. QED
    BY <1>1, <2>1, <2>2, <2>3
<1>. QED
  BY <1>1, <1>2 DEF ChatIInv

\* The channels K when the Player of u is released: it is a ghost in those of C
\* that it is still a user of.
Released(C, u) ==
  [c \in Channels |-> [C[c] EXCEPT !.users = @ \ {u}, !.ghosts = @ \cup (C[c].users \cap {u})]]

\* The users of a channel one by one.
LEMMA ReleasedOK ==
  ASSUME NEW C, NEW P, ChannelsSound(C, P), NEW u \in Users, OnlyUninvited(C, u),
         OwnsNone(C, u), NEW K, K = Released(C, u)
  PROVE  /\ ChannelsSound(K, P \ {u})
         /\ \A c \in Channels : /\ K[c].users = C[c].users \ {u}
                                /\ K[c].uninvited = C[c].uninvited
<1>1. ASSUME NEW c \in Channels
      PROVE  /\ K[c] \in ChannelRecord /\ SoundAt(c, K[c], P \ {u}) /\ K[c].owner = C[c].owner
             /\ K[c].users = C[c].users \ {u} /\ K[c].uninvited = C[c].uninvited
  <2>1. PICK x : x = C[c]
    OBVIOUS
  <2>2. x \in ChannelRecord /\ SoundAt(c, x, P) /\ x.owner # u /\ (u \in x.users => u \in x.uninvited)
    BY <2>1 DEF ChannelsSound, OnlyUninvited, OwnsNone
  <2>3. PICK U, G : U = x.users \ {u} /\ G = x.ghosts \cup (x.users \cap {u})
    OBVIOUS
  <2>4. PICK y : y = [x EXCEPT !.users = U, !.ghosts = G]
    OBVIOUS
  <2>5. U \in SUBSET Users /\ G \in SUBSET Users
    BY <2>2, <2>3, ChannelFields
  <2>6. /\ y \in ChannelRecord /\ y.owner = x.owner /\ y.invites = x.invites /\ y.ghosts = G
        /\ y.exists = x.exists /\ y.users = U /\ y.uninvited = x.uninvited
    BY <2>2, <2>4, <2>5 DEF ChannelRecord
  <2>7. SoundAt(c, y, P \ {u})
    BY <2>2, <2>3, <2>6 DEF SoundAt
  <2>8. K[c] = y
    BY <2>1, <2>3, <2>4 DEF Released
  <2>. QED
    BY <2>1, <2>3, <2>6, <2>7, <2>8
<1>2. K = [c \in Channels |-> K[c]]
  BY DEF Released
<1>3. K \in [Channels -> ChannelRecord]
  BY <1>1, <1>2
<1>4. \A c, d \in Slots : K[c].owner = K[d].owner /\ K[c].owner # NoUser => c = d
  BY <1>1, ChannelKinds DEF ChannelsSound
<1>. QED
  BY <1>1, <1>3, <1>4 DEF ChannelsSound

\* Who leaves is in no channel but as a ghost, has no report and has taken none.
LEMMA ChatLeaveStep ==
  ASSUME ChatIInv, NEW u \in Users, ChatLeave(u)
  PROVE  ChatIInv'
<1>1. PICK w : w = ChatWorld
  OBVIOUS
<1>2. PICK P : P = present
  OBVIOUS
<1>3. ChatOK(w, P, Users) /\ P \subseteq Users
  BY <1>1, <1>2 DEF ChatIInv
<1>4. PICK a : a = CancelReport(w, u)
  OBVIOUS
<1>5. ChatOK(a, P, Users) /\ a.report[u] = NoReport
  BY <1>3, <1>4, CancelReportOK
<1>6. PICK b : b = CloseReportsOf(a, u)
  OBVIOUS
<1>7. ChatOK(b, P, Users) /\ Reported(b.report, P \ {u})
  BY <1>5, <1>6, CloseReportsOfOK
<1>8. PICK d : d = RemoveFromAllChannels(b, u)
  OBVIOUS
<1>9. PICK C, T, R, L : C = d.channel /\ T = d.tabs /\ R = d.report /\ L = d.listed
  OBVIOUS
<1>10. /\ d = Chats(C, T, R, L) /\ ChannelsSound(C, P) /\ Tabbed(C, T, Users \ {u})
       /\ Listed(C, R, L) /\ Reported(R, P \ {u})
       /\ OnlyUninvited(C, u) /\ OwnsNone(C, u)
  <2>1. /\ ChatOK(d, P, Users \ {u}) /\ d.report = b.report
        /\ OnlyUninvited(d.channel, u) /\ OwnsNone(d.channel, u)
    BY <1>7, <1>8, RemoveFromAllOK
  <2>. QED
    BY <1>7, <1>9, <2>1, Zenon DEF ChatOK
<1>11. PICK K : K = Released(C, u)
  OBVIOUS
<1>12. /\ ChannelsSound(K, P \ {u})
       /\ \A c \in Channels : K[c].users = C[c].users \ {u} /\ K[c].uninvited = C[c].uninvited
  BY <1>10, <1>11, ReleasedOK
<1>13. PICK U, M : U = [T EXCEPT ![u] = {}] /\ M = [L EXCEPT ![u] = {}]
  OBVIOUS
<1>14. /\ U \in [Users -> SUBSET Channels] /\ \A x \in Users : U[x] = IF x = u THEN {} ELSE T[x]
       /\ M \in [Users -> SUBSET Users] /\ \A x \in Users : M[x] = IF x = u THEN {} ELSE L[x]
  BY <1>10, <1>13 DEF Tabbed, Listed
<1>15. Tabbed(K, U, Users)
  BY <1>10, <1>12, <1>14 DEF Tabbed
<1>16. Listed(K, R, M)
  <2>1. \A x \in K[Reports].users : x \in C[Reports].users /\ x \in Users /\ x # u
    BY <1>10, <1>12, ChannelKinds, ChannelFields DEF ChannelsSound
  <2>. QED
    BY <1>10, <1>14, <2>1 DEF Listed
<1>17. PICK v : v = Chats(K, U, R, M)
  OBVIOUS
<1>18. ChatOK(v, P \ {u}, Users)
  BY <1>10, <1>12, <1>15, <1>16, <1>17, ChatsOK
<1>19. ChatBecomes(v)
  <2>1. ChatBecomes([d EXCEPT !.tabs[u] = {}, !.listed[u] = {},
                       !.channel = [c \in Channels |->
                         [C[c] EXCEPT !.users = @ \ {u}, !.ghosts = @ \cup (C[c].users \cap {u})]]])
    BY <1>1, <1>4, <1>6, <1>8, <1>9 DEF ChatLeave
  <2>2. ChatBecomes(BlankIn(d, u, K))
    <3>1. ChatBecomes([d EXCEPT !.tabs[u] = {}, !.listed[u] = {}, !.channel = K])
      BY <1>11, <2>1, Zenon DEF Released
    <3>. QED
      BY <3>1, Zenon DEF BlankIn
  <2>3. BlankIn(d, u, K) = Chats(K, [T EXCEPT ![u] = {}], R, [L EXCEPT ![u] = {}])
    <3>1. d = Chats(C, T, R, L)
      BY <1>10
    <3>. QED
      BY <3>1, Cleared
  <2>4. BlankIn(d, u, K) = v
    BY <1>13, <1>17, <2>3
  <2>. QED
    BY <2>2, <2>4
<1>20. present' = P \ {u}
  BY <1>2 DEF ChatLeave
<1>21. ChatOK(v, present', Users) /\ present' \subseteq Users
  BY <1>3, <1>18, <1>20
<1>. QED
  BY <1>19, <1>21, ChatStepOK

LEMMA TakeoverStep ==
  ASSUME ChatIInv, NEW u \in Users, Takeover(u)
  PROVE  ChatIInv'
<1>1. PICK w : w = ChatWorld
  OBVIOUS
<1>2. PICK P : P = present
  OBVIOUS
<1>3. ChatOK(w, P, Users) /\ P \subseteq Users
  BY <1>1, <1>2 DEF ChatIInv
<1>4. PICK d : d = RemoveFromAllChannels(w, u)
  OBVIOUS
<1>5. ChatOK(d, P, Users \ {u}) /\ OnlyUninvited(d.channel, u)
  BY <1>3, <1>4, RemoveFromAllOK
<1>6. PICK v : v = Chats(d.channel, [d.tabs EXCEPT ![u] = {}], d.report, [d.listed EXCEPT ![u] = {}])
  OBVIOUS
<1>7. ChatOK(v, P, Users)
  BY <1>5, <1>6, ClearTabs
<1>8. ChatBecomes(v)
  <2>1. ChatBecomes([d EXCEPT !.tabs[u] = {}, !.listed[u] = {}])
    BY <1>1, <1>4 DEF Takeover
  <2>2. d = Chats(d.channel, d.tabs, d.report, d.listed)
    BY <1>5 DEF ChatOK
  <2>3. PICK C, T, R, L : C = d.channel /\ T = d.tabs /\ R = d.report /\ L = d.listed
    OBVIOUS
  <2>4. d = Chats(C, T, R, L)
    BY <2>2, <2>3
  <2>5. Blank(d, u) = Chats(C, [T EXCEPT ![u] = {}], R, [L EXCEPT ![u] = {}])
    BY <2>4, Cleared
  <2>6. Blank(d, u) = v
    BY <1>6, <2>3, <2>5
  <2>. QED
    BY <2>1, <2>6 DEF Blank, BlankIn
<1>9. present' = P
  BY <1>2 DEF Takeover
<1>10. ChatOK(v, present', Users) /\ present' \subseteq Users
  BY <1>3, <1>7, <1>9
<1>. QED
  BY <1>8, <1>10, ChatStepOK

LEMMA RequestChannelsStep ==
  ASSUME ChatIInv, NEW u \in Users, RequestChannels(u)
  PROVE  ChatIInv'
<1>1. PICK w : w = ChatWorld
  OBVIOUS
<1>2. PICK P : P = present
  OBVIOUS
<1>3. ChatOK(w, P, Users) /\ P \subseteq Users
  BY <1>1, <1>2 DEF ChatIInv
<1>4. PICK v : v = WithGuild(w)
  OBVIOUS
<1>5. ChatOK(v, P, Users)
  BY <1>3, <1>4, WithGuildOK
<1>6. ChatBecomes(v) /\ present' = P
  BY <1>1, <1>2, <1>4 DEF RequestChannels
<1>7. ChatOK(v, present', Users) /\ present' \subseteq Users
  BY <1>3, <1>5, <1>6
<1>. QED
  BY <1>6, <1>7, ChatStepOK

\* User u joins channel c, or leaves it; no other channel's users change.
Joined(C, B, c, u) ==
  /\ B[c].users = C[c].users \cup {u} /\ C[c].uninvited \subseteq B[c].uninvited
  /\ \A d \in Channels : d # c => B[d] = C[d]
Quit(C, B, c, u) ==
  /\ B[c].users = C[c].users \ {u} /\ B[c].uninvited = C[c].uninvited
  /\ \A d \in Channels : d # c => B[d] = C[d]

\* A user joins and is shown the tab.
LEMMA JoinedOK ==
  ASSUME NEW C, NEW B, NEW T, NEW R, NEW L, NEW P, ChannelsSound(C, P), ChannelsSound(B, P), Tabbed(C, T, Users),
         Reported(R, P), Listed(C, R, L), NEW u \in Users, NEW c \in Channels, Joined(C, B, c, u),
         NEW w, w = Chats(B, T, R, L), NEW v, v = ShowTab(w, u, c)
  PROVE  ChatOK(v, P, Users)
<1>1. PICK X : X = T[u] \cup {c}
  OBVIOUS
<1>2. PICK Y : Y = IF c = Reports THEN {r \in Users : R[r] = Open} ELSE L[u]
  OBVIOUS
<1>3. PICK U : U = [T EXCEPT ![u] = X]
  OBVIOUS
<1>4. PICK M : M = [L EXCEPT ![u] = Y]
  OBVIOUS
<1>5. v = Chats(B, U, R, M)
  <2>1. w.tabs = T /\ w.listed = L /\ w.report = R
    BY ChatsParts
  <2>2. v = [w EXCEPT !.tabs = U, !.listed = M]
    BY <1>1, <1>2, <1>3, <1>4, <2>1 DEF ShowTab
  <2>. QED
    BY <2>2 DEF Chats
<1>6. /\ U \in [Users -> SUBSET Channels] /\ \A x \in Users : U[x] = IF x = u THEN X ELSE T[x]
      /\ M \in [Users -> SUBSET Users] /\ \A x \in Users : M[x] = IF x = u THEN Y ELSE L[x]
  <2>1. T \in [Users -> SUBSET Channels] /\ L \in [Users -> SUBSET Users]
    BY DEF Tabbed, Listed
  <2>2. X \in SUBSET Channels /\ Y \in SUBSET Users
    BY <1>1, <1>2, <2>1
  <2>. QED
    BY <1>3, <1>4, <2>1, <2>2
<1>7. ASSUME NEW x \in Users, NEW d \in Channels
      PROVE  /\ d \in U[x] => x \in B[d].users
             /\ x \in B[d].users => d \in U[x] \/ x \in B[d].uninvited
  <2>1. /\ d \in T[x] => x \in C[d].users
        /\ x \in C[d].users => d \in T[x] \/ x \in C[d].uninvited
    BY DEF Tabbed
  <2>2. CASE d = c
    BY <1>1, <1>6, <2>1, <2>2 DEF Joined
  <2>3. CASE d # c
    BY <1>1, <1>6, <2>1, <2>3 DEF Joined
  <2>. QED
    BY <2>2, <2>3
<1>8. Tabbed(B, U, Users)
  BY <1>6, <1>7 DEF Tabbed
<1>9. Listed(B, R, M)
  <2>1. B[Reports].users \subseteq Users
    BY ChannelKinds, ChannelFields DEF ChannelsSound
  <2>2. ASSUME NEW x \in B[Reports].users, NEW r \in Users PROVE r \in M[x] <=> R[r] = Open
    <3>1. CASE c = Reports /\ x = u
      BY <1>2, <1>6, <2>1, <3>1
    <3>2. CASE c = Reports /\ x # u
      BY <1>6, <2>1, <3>2 DEF Joined, Listed
    <3>3. CASE c # Reports
      <4>1. x \in C[Reports].users
        BY <3>3, ChannelKinds DEF Joined
      <4>2. M[x] = L[x]
        BY <1>2, <1>6, <2>1, <3>3
      <4>. QED
        BY <4>1, <4>2 DEF Listed
    <3>. QED
      BY <3>1, <3>2, <3>3
  <2>. QED
    BY <1>6, <2>2 DEF Listed
<1>. QED
  BY <1>5, <1>8, <1>9, ChatsOK

\* The lists of others stay, and so does that of u unless c is the reports.
OnlyHis(L, M, u, c) ==
  /\ M \in [Users -> SUBSET Users]
  /\ \A x \in Users : (x = u /\ c = Reports) \/ M[x] = L[x]

\* A user leaves, and its client shows the channel no more.  Where the reports
\* are meant the list does not matter to it any longer.
LEMMA QuitOK ==
  ASSUME NEW C, NEW B, NEW T, NEW R, NEW L, NEW M, NEW P, ChannelsSound(C, P), ChannelsSound(B, P), Tabbed(C, T, Users),
         Reported(R, P), Listed(C, R, L), NEW u \in Users, NEW c \in Channels, Quit(C, B, c, u),
         OnlyHis(L, M, u, c),
         NEW v, v = Chats(B, [T EXCEPT ![u] = T[u] \ {c}], R, M)
  PROVE  ChatOK(v, P, Users)
<1>1. PICK X : X = T[u] \ {c}
  OBVIOUS
<1>2. PICK U : U = [T EXCEPT ![u] = X]
  OBVIOUS
<1>3. U \in [Users -> SUBSET Channels] /\ \A x \in Users : U[x] = IF x = u THEN X ELSE T[x]
  BY <1>1, <1>2 DEF Tabbed
<1>4. ASSUME NEW x \in Users, NEW d \in Channels
      PROVE  /\ d \in U[x] => x \in B[d].users
             /\ x \in B[d].users => d \in U[x] \/ x \in B[d].uninvited
  <2>1. /\ d \in T[x] => x \in C[d].users
        /\ x \in C[d].users => d \in T[x] \/ x \in C[d].uninvited
    BY DEF Tabbed
  <2>2. CASE d = c
    BY <1>1, <1>3, <2>1, <2>2 DEF Quit
  <2>3. CASE d # c
    BY <1>1, <1>3, <2>1, <2>3 DEF Quit
  <2>. QED
    BY <2>2, <2>3
<1>5. Tabbed(B, U, Users)
  BY <1>3, <1>4 DEF Tabbed
<1>6. Listed(B, R, M)
  <2>1. B[Reports].users \subseteq Users
    BY ChannelKinds, ChannelFields DEF ChannelsSound
  <2>2. ASSUME NEW x \in B[Reports].users, NEW r \in Users PROVE r \in M[x] <=> R[r] = Open
    <3>1. x \in C[Reports].users /\ ~(x = u /\ c = Reports)
      BY ChannelKinds DEF Quit
    <3>2. M[x] = L[x]
      BY <2>1, <3>1 DEF OnlyHis
    <3>. QED
      BY <3>1, <3>2 DEF Listed
  <2>. QED
    BY <2>2 DEF Listed, OnlyHis
<1>7. v = Chats(B, U, R, M)
  BY <1>1, <1>2
<1>. QED
  BY <1>5, <1>6, <1>7, ChatsOK

LEMMA CreatePrivateChannelStep ==
  ASSUME ChatIInv, NEW u \in Users, CreatePrivateChannel(u)
  PROVE  ChatIInv'
<1>1. PICK C, T, R, L : C = channel /\ T = tabs /\ R = report /\ L = listed
  OBVIOUS
<1>2. PICK P : P = present
  OBVIOUS
<1>3. /\ P \subseteq Users /\ u \in P
      /\ ChannelsSound(C, P) /\ Tabbed(C, T, Users) /\ Reported(R, P) /\ Listed(C, R, L)
  BY <1>1, <1>2 DEF ChatIInv, ChatOK, ChatWorld, CreatePrivateChannel
<1>4. PICK w : w = ChatWorld
  OBVIOUS
<1>5. w = Chats(C, T, R, L)
  BY <1>1, <1>4 DEF ChatWorld, Chats
<1>6. PICK y : y = [NewChannel EXCEPT !.owner = u, !.users = {u}]
  OBVIOUS
<1>7. PICK c \in Slots : /\ ~channel[c].exists
                         /\ ChatBecomes(ShowTab([ChatWorld EXCEPT !.channel[c] = y], u, c))
  BY <1>6 DEF CreatePrivateChannel
<1>8. PICK B : B = Replaced(C, c, y)
  OBVIOUS
<1>9. PICK e : e = Chats(B, T, R, L)
  OBVIOUS
<1>10. [w EXCEPT !.channel[c] = y] = e
  <2>1. w.channel = C
    BY <1>5, ChatsParts
  <2>2. [w EXCEPT !.channel[c] = y] = [w EXCEPT !.channel = B]
    BY <1>8, <2>1 DEF Replaced
  <2>. QED
    BY <1>5, <1>9, <2>2 DEF Chats
<1>11. /\ y \in ChannelRecord /\ y.owner = u /\ y.users = {u}
       /\ y.ghosts = {} /\ y.uninvited = {} /\ y.exists
  BY <1>6 DEF NewChannel, NoChannel, ChannelRecord
<1>12. SoundAt(c, y, P)
  BY <1>3, <1>11, ChannelKinds DEF SoundAt
<1>13. Alone(C, c, y)
  <2>1. OwnChannels(ChatWorld, u) = {}
    BY DEF CreatePrivateChannel
  <2>2. \A d \in Slots : C[d].owner # u
    BY <1>1, <2>1 DEF OwnChannels, ChatWorld
  <2>. QED
    BY <1>11, <2>2 DEF Alone
<1>14. c \in Channels
  BY ChannelKinds
<1>15. ChannelsSound(B, P) /\ \A d \in Channels : B[d] = IF d = c THEN y ELSE C[d]
  BY <1>3, <1>8, <1>11, <1>12, <1>13, <1>14, OneChannel
<1>16. C[c].users = {} /\ C[c].uninvited = {}
  BY <1>1, <1>3, <1>7, <1>14 DEF ChannelsSound, SoundAt
<1>17. Joined(C, B, c, u)
  BY <1>11, <1>14, <1>15, <1>16 DEF Joined
<1>18. PICK v : v = ShowTab(e, u, c)
  OBVIOUS
<1>19. ChatOK(v, P, Users)
  BY <1>3, <1>9, <1>14, <1>15, <1>17, <1>18, JoinedOK
<1>20. ChatBecomes(v) /\ present' = P
  BY <1>2, <1>4, <1>7, <1>10, <1>18 DEF CreatePrivateChannel
<1>21. ChatOK(v, present', Users) /\ present' \subseteq Users
  BY <1>3, <1>19, <1>20
<1>. QED
  BY <1>20, <1>21, ChatStepOK

\* Who opens a private channel uninvited is marked in it.
LEMMA OpenChannelStep ==
  ASSUME ChatIInv, NEW u \in Users, NEW c \in Channels, OpenChannel(u, c)
  PROVE  ChatIInv'
<1>1. PICK C, T, R, L : C = channel /\ T = tabs /\ R = report /\ L = listed
  OBVIOUS
<1>2. PICK P : P = present
  OBVIOUS
<1>3. /\ P \subseteq Users /\ u \in P
      /\ ChannelsSound(C, P) /\ Tabbed(C, T, Users) /\ Reported(R, P) /\ Listed(C, R, L)
  BY <1>1, <1>2 DEF ChatIInv, ChatOK, ChatWorld, OpenChannel
<1>4. PICK w : w = ChatWorld
  OBVIOUS
<1>5. w = Chats(C, T, R, L)
  BY <1>1, <1>4 DEF ChatWorld, Chats
<1>6. PICK x : x = C[c]
  OBVIOUS
<1>7. x \in ChannelRecord /\ SoundAt(c, x, P)
  BY <1>3, <1>6 DEF ChannelsSound
<1>8. PICK Z : Z = x.users \cup {u}
  OBVIOUS
<1>9. PICK N, y : /\ N = x.uninvited \cup (IF c \in Slots /\ ~IsInvited(x, u) THEN {u} ELSE {})
                  /\ y = [x EXCEPT !.users = Z, !.uninvited = N]
  OBVIOUS
<1>10. /\ Z \in SUBSET Users /\ N \in SUBSET Users /\ x.uninvited \subseteq N
       /\ c \in Slots => x.owner = u \/ u \in x.invites \/ u \in N
       /\ c \notin Slots => N = x.uninvited
  BY <1>7, <1>8, <1>9, ChannelFields DEF IsInvited
<1>11. /\ y \in ChannelRecord /\ y.owner = x.owner /\ y.invites = x.invites /\ y.ghosts = x.ghosts
       /\ y.exists = x.exists /\ y.users = Z /\ y.uninvited = N
  BY <1>7, <1>9, <1>10 DEF ChannelRecord
<1>12. x.exists /\ (c = Reports => u \in Gamemasters)
  BY <1>1, <1>6 DEF OpenChannel, Reachable, ChatWorld
<1>13. SoundAt(c, y, P)
  <2>1. y.exists
    BY <1>11, <1>12
  <2>. QED
    BY <1>3, <1>7, <1>8, <1>10, <1>11, <1>12, <2>1 DEF SoundAt
<1>14. Alone(C, c, y)
  <2>1. ASSUME y.owner # NoUser, NEW d \in Slots, C[d].owner = y.owner PROVE d = c
    <3>1. c \in Slots
      BY <1>7, <1>11, <2>1 DEF SoundAt
    <3>. QED
      BY <1>3, <1>6, <1>11, <2>1, <3>1 DEF ChannelsSound
  <2>. QED
    BY <2>1 DEF Alone
<1>15. PICK B : B = Replaced(C, c, y)
  OBVIOUS
<1>16. ChannelsSound(B, P) /\ \A d \in Channels : B[d] = IF d = c THEN y ELSE C[d]
  BY <1>3, <1>11, <1>13, <1>14, <1>15, OneChannel
<1>17. Joined(C, B, c, u)
  BY <1>6, <1>8, <1>10, <1>11, <1>16 DEF Joined
<1>18. PICK e : e = Chats(B, T, R, L)
  OBVIOUS
<1>19. AddUser(w, u, c) = e
  <2>1. w.channel = C
    BY <1>5, ChatsParts
  <2>2. PICK j, J, k : /\ j = [x EXCEPT !.users = Z] /\ J = Replaced(C, c, j)
                       /\ k = Chats(J, T, R, L)
    OBVIOUS
  <2>3. [w EXCEPT !.channel[c].users = @ \cup {u}] = k
    <3>1. [w EXCEPT !.channel[c].users = @ \cup {u}] = [w EXCEPT !.channel = J]
      BY <1>6, <1>8, <2>1, <2>2 DEF Replaced
    <3>. QED
      BY <1>5, <2>2, <3>1 DEF Chats
  <2>4. k.channel = J /\ J[c] = j /\ j.uninvited = x.uninvited
    <3>1. J[c] = j
      BY <1>3, <2>2 DEF Replaced, ChannelsSound
    <3>2. j.uninvited = x.uninvited
      BY <1>7, <2>2 DEF ChannelRecord
    <3>. QED
      BY <2>2, <3>1, <3>2, ChatsParts
  <2>5. Replaced(J, c, [j EXCEPT !.uninvited = N]) = B
    BY <1>3, <1>9, <1>15, <2>2 DEF Replaced, ChannelsSound
  <2>6. AddUser(w, u, c) = [k EXCEPT !.channel[c].uninvited = N]
    <3>1. PICK n : n = IF c \in Slots /\ ~IsInvited(x, u) THEN {u} ELSE {}
      OBVIOUS
    <3>2. AddUser(w, u, c) = [[w EXCEPT !.channel[c].users = @ \cup {u}]
                                EXCEPT !.channel[c].uninvited = w.channel[c].uninvited \cup n]
      BY <1>6, <2>1, <3>1 DEF AddUser
    <3>3. w.channel[c].uninvited \cup n = N
      BY <1>6, <1>9, <2>1, <3>1
    <3>. QED
      BY <2>3, <3>2, <3>3
  <2>7. [k EXCEPT !.channel[c].uninvited = N] = [k EXCEPT !.channel = B]
    BY <2>4, <2>5 DEF Replaced
  <2>. QED
    BY <1>18, <2>2, <2>6, <2>7 DEF Chats
<1>20. PICK v : v = ShowTab(e, u, c)
  OBVIOUS
<1>21. ChatOK(v, P, Users)
  BY <1>3, <1>16, <1>17, <1>18, <1>20, JoinedOK
<1>22. ChatBecomes(v) /\ present' = P
  BY <1>2, <1>4, <1>19, <1>20 DEF OpenChannel
<1>23. ChatOK(v, present', Users) /\ present' \subseteq Users
  BY <1>3, <1>21, <1>22
<1>. QED
  BY <1>22, <1>23, ChatStepOK

LEMMA CloseChannelStep ==
  ASSUME ChatIInv, NEW u \in Users, NEW c \in Channels, CloseChannel(u, c)
  PROVE  ChatIInv'
<1>1. PICK C, T, R, L : C = channel /\ T = tabs /\ R = report /\ L = listed
  OBVIOUS
<1>2. PICK P : P = present
  OBVIOUS
<1>3. /\ P \subseteq Users
      /\ ChannelsSound(C, P) /\ Tabbed(C, T, Users) /\ Reported(R, P) /\ Listed(C, R, L)
  BY <1>1, <1>2 DEF ChatIInv, ChatOK, ChatWorld
<1>4. PICK w : w = ChatWorld
  OBVIOUS
<1>5. w = Chats(C, T, R, L)
  BY <1>1, <1>4 DEF ChatWorld, Chats
<1>6. PICK x : x = C[c]
  OBVIOUS
<1>7. x \in ChannelRecord /\ SoundAt(c, x, P)
  BY <1>3, <1>6 DEF ChannelsSound
<1>8. PICK X, Y : X = T[u] \ {c} /\ Y = IF c = Reports THEN {} ELSE L[u]
  OBVIOUS
<1>9. PICK U, M : U = [T EXCEPT ![u] = X] /\ M = [L EXCEPT ![u] = Y]
  OBVIOUS
<1>10. /\ T \in [Users -> SUBSET Channels] /\ \A q \in Users : U[q] = IF q = u THEN X ELSE T[q]
       /\ U \in [Users -> SUBSET Channels]
       /\ M \in [Users -> SUBSET Users] /\ \A q \in Users : M[q] = IF q = u THEN Y ELSE L[q]
  <2>1. T \in [Users -> SUBSET Channels] /\ L \in [Users -> SUBSET Users]
    BY <1>3 DEF Tabbed, Listed
  <2>2. X \in SUBSET Channels /\ Y \in SUBSET Users
    BY <1>8, <2>1
  <2>. QED
    BY <1>9, <2>1, <2>2
<1>11. OnlyHis(L, M, u, c)
  BY <1>8, <1>10 DEF OnlyHis
<1>12. PICK a : a = Chats(C, U, R, M)
  OBVIOUS
<1>13. [w EXCEPT !.tabs[u] = @ \ {c}, !.listed[u] = IF c = Reports THEN {} ELSE @] = a
  <2>1. w.tabs = T /\ w.listed = L
    BY <1>5, ChatsParts
  <2>2. [w EXCEPT !.tabs[u] = @ \ {c}, !.listed[u] = IF c = Reports THEN {} ELSE @]
          = [w EXCEPT !.tabs = U, !.listed = M]
    BY <1>8, <1>9, <2>1
  <2>3. PICK k : k = Chats(C, U, R, L)
    OBVIOUS
  <2>4. [w EXCEPT !.tabs = U] = k
    BY <1>5, <2>3 DEF Chats
  <2>5. [k EXCEPT !.listed = M] = a
    BY <1>12, <2>3 DEF Chats
  <2>. QED
    BY <2>2, <2>4, <2>5
<1>14. PICK Z : Z = x.users \ {u}
  OBVIOUS
<1>15. PICK y : y = [x EXCEPT !.users = Z]
  OBVIOUS
<1>16. /\ y \in ChannelRecord /\ y.owner = x.owner /\ y.invites = x.invites /\ y.ghosts = x.ghosts
       /\ y.exists = x.exists /\ y.users = Z /\ y.uninvited = x.uninvited
  <2>1. Z \in SUBSET Users
    BY <1>7, <1>14, ChannelFields
  <2>. QED
    BY <1>7, <1>15, <2>1 DEF ChannelRecord
<1>17. PICK B : B = Replaced(C, c, y)
  OBVIOUS
<1>18. PICK b : b = Chats(B, U, R, M)
  OBVIOUS
<1>19. [a EXCEPT !.channel[c].users = @ \ {u}] = b
  <2>1. a.channel = C
    BY <1>12, ChatsParts
  <2>2. [a EXCEPT !.channel[c].users = @ \ {u}] = [a EXCEPT !.channel = B]
    BY <1>6, <1>14, <1>15, <1>17, <2>1 DEF Replaced
  <2>. QED
    BY <1>12, <1>18, <2>2 DEF Chats
<1>20. PICK v : v = RemoveUser(a, u, c)
  OBVIOUS
<1>21. v = IF x.owner = u THEN DeleteChannel(b, c) ELSE b
  <2>1. a.channel = C
    BY <1>12, ChatsParts
  <2>. QED
    BY <1>6, <1>19, <1>20, <2>1 DEF RemoveUser
<1>22. CASE x.owner # u
  <2>1. SoundAt(c, y, P)
    BY <1>7, <1>14, <1>16, <1>22 DEF SoundAt
  <2>2. Alone(C, c, y)
    <3>1. ASSUME y.owner # NoUser, NEW d \in Slots, C[d].owner = y.owner PROVE d = c
      <4>1. c \in Slots
        BY <1>7, <1>16, <3>1 DEF SoundAt
      <4>. QED
        BY <1>3, <1>6, <1>16, <3>1, <4>1 DEF ChannelsSound
    <3>. QED
      BY <3>1 DEF Alone
  <2>3. ChannelsSound(B, P) /\ \A d \in Channels : B[d] = IF d = c THEN y ELSE C[d]
    BY <1>3, <1>16, <1>17, <2>1, <2>2, OneChannel
  <2>4. Quit(C, B, c, u)
    BY <1>6, <1>14, <1>16, <2>3 DEF Quit
  <2>5. b = Chats(B, [T EXCEPT ![u] = T[u] \ {c}], R, M)
    BY <1>8, <1>9, <1>18
  <2>6. ChatOK(b, P, Users)
    BY <1>3, <1>11, <2>3, <2>4, <2>5, QuitOK
  <2>. QED
    <3>1. ChatBecomes(v) /\ present' = P
      BY <1>2, <1>4, <1>13, <1>20 DEF CloseChannel
    <3>2. ChatOK(v, present', Users) /\ present' \subseteq Users
      BY <1>3, <1>21, <1>22, <2>6, <3>1
    <3>. QED
      BY <3>1, <3>2, ChatStepOK
<1>23. CASE x.owner = u
  <2>1. c \in Slots
    BY <1>7, <1>23, ChatAssumption DEF SoundAt
  <2>2. M = L
    BY <1>3, <1>10, <1>11, <2>1, ChannelKinds DEF Listed, OnlyHis
  <2>3. PICK n : n = NoChannel
    OBVIOUS
  <2>4. n \in ChannelRecord /\ n.users = {} /\ n.owner = NoUser /\ SoundAt(c, n, P)
    BY <2>3, NoChannelSound
  <2>5. PICK D : D = Replaced(C, c, n)
    OBVIOUS
  <2>6. Alone(C, c, n)
    BY <2>4 DEF Alone
  <2>7. ChannelsSound(D, P) /\ \A d \in Channels : D[d] = IF d = c THEN n ELSE C[d]
    BY <1>3, <2>4, <2>5, <2>6, OneChannel
  <2>8. PICK V : V = [q \in Users |-> IF q \in B[c].users THEN U[q] \ {c} ELSE U[q]]
    OBVIOUS
  <2>9. B[c] = y
    BY <1>3, <1>17 DEF Replaced, ChannelsSound
  <2>10. Replaced(B, c, n) = D
    BY <1>3, <1>17, <2>5 DEF Replaced, ChannelsSound
  <2>11. DeleteChannel(b, c) = Chats(D, V, R, L)
    <3>1. b.channel = B /\ b.tabs = U
      BY <1>18, ChatsParts
    <3>2. DeleteChannel(b, c) = [b EXCEPT !.channel = D, !.tabs = V]
      <4>1. DeleteChannel(b, c) = [b EXCEPT !.channel = Replaced(B, c, n),
                                     !.tabs = [q \in Users |-> IF q \in B[c].users THEN U[q] \ {c} ELSE U[q]]]
        BY <2>3, <3>1 DEF DeleteChannel, Replaced
      <4>. QED
        BY <2>8, <2>10, <4>1
    <3>. QED
      BY <1>18, <2>2, <3>2 DEF Chats
  <2>12. Tabbed(D, V, Users)
    <3>1. V \in [Users -> SUBSET Channels]
      BY <1>10, <2>8
    <3>2. ASSUME NEW q \in Users, NEW d \in Channels
          PROVE  /\ d \in V[q] => q \in D[d].users
                 /\ q \in D[d].users => d \in V[q] \/ q \in D[d].uninvited
      <4>1. /\ d \in T[q] => q \in C[d].users
            /\ q \in C[d].users => d \in T[q] \/ q \in C[d].uninvited
        BY <1>3 DEF Tabbed
      <4>2. V[q] = IF q \in Z THEN U[q] \ {c} ELSE U[q]
        BY <1>16, <2>8, <2>9
      <4>3. CASE d = c
        BY <1>6, <1>8, <1>10, <1>14, <2>4, <2>7, <4>1, <4>2, <4>3
      <4>4. CASE d # c
        BY <1>8, <1>10, <2>7, <4>1, <4>2, <4>4
      <4>. QED
        BY <4>3, <4>4
    <3>. QED
      BY <3>1, <3>2 DEF Tabbed
  <2>13. Listed(D, R, L)
    BY <1>3, <2>1, <2>7, ChannelKinds DEF Listed
  <2>14. v = Chats(D, V, R, L)
    BY <1>21, <1>23, <2>11
  <2>15. ChatOK(v, P, Users)
    BY <1>3, <2>7, <2>12, <2>13, <2>14, ChatsOK
  <2>16. ChatBecomes(v) /\ present' = P
    BY <1>2, <1>4, <1>13, <1>20 DEF CloseChannel
  <2>17. ChatOK(v, present', Users) /\ present' \subseteq Users
    BY <1>3, <2>15, <2>16
  <2>. QED
    BY <2>16, <2>17, ChatStepOK
<1>. QED
  BY <1>22, <1>23

LEMMA ChannelInviteStep ==
  ASSUME ChatIInv, NEW u \in Users, NEW g \in Users, ChannelInvite(u, g)
  PROVE  ChatIInv'
<1>1. PICK C, T, R, L : C = channel /\ T = tabs /\ R = report /\ L = listed
  OBVIOUS
<1>2. PICK P : P = present
  OBVIOUS
<1>3. /\ P \subseteq Users
      /\ ChannelsSound(C, P) /\ Tabbed(C, T, Users) /\ Reported(R, P) /\ Listed(C, R, L)
  BY <1>1, <1>2 DEF ChatIInv, ChatOK, ChatWorld
<1>4. PICK w : w = ChatWorld
  OBVIOUS
<1>5. w = Chats(C, T, R, L)
  BY <1>1, <1>4 DEF ChatWorld, Chats
<1>6. PICK c \in OwnChannels(w, u) : ChatBecomes(AddInvited(w, c, g))
  BY <1>4 DEF ChannelInvite
<1>7. c \in Slots /\ c \in Channels /\ C[c].owner = u
  BY <1>5, <1>6, ChatsParts, ChannelKinds DEF OwnChannels
<1>8. PICK x : x = C[c]
  OBVIOUS
<1>9. x \in ChannelRecord /\ SoundAt(c, x, P)
  BY <1>3, <1>7, <1>8 DEF ChannelsSound
<1>10. PICK Z : Z = x.invites \cup {g}
  OBVIOUS
<1>11. PICK y : y = [x EXCEPT !.invites = Z]
  OBVIOUS
<1>12. /\ y \in ChannelRecord /\ y.owner = x.owner /\ y.invites = Z /\ y.ghosts = x.ghosts
       /\ y.exists = x.exists /\ y.users = x.users /\ y.uninvited = x.uninvited
  <2>1. Z \in SUBSET Users
    BY <1>9, <1>10, ChannelFields
  <2>. QED
    BY <1>9, <1>11, <2>1 DEF ChannelRecord
<1>13. SoundAt(c, y, P)
  BY <1>9, <1>10, <1>12 DEF SoundAt
<1>14. Alone(C, c, y)
  BY <1>3, <1>7, <1>8, <1>12 DEF Alone, ChannelsSound
<1>15. PICK B : B = Replaced(C, c, y)
  OBVIOUS
<1>16. ChannelsSound(B, P) /\ \A d \in Channels : B[d] = IF d = c THEN y ELSE C[d]
  BY <1>3, <1>7, <1>12, <1>13, <1>14, <1>15, OneChannel
<1>17. \A d \in Channels : B[d].users = C[d].users /\ B[d].uninvited = C[d].uninvited
  BY <1>8, <1>12, <1>16
<1>18. PICK v : v = AddInvited(w, c, g)
  OBVIOUS
<1>19. v = Chats(B, T, R, L)
  <2>1. w.channel = C
    BY <1>5, ChatsParts
  <2>2. v = [w EXCEPT !.channel = B]
    BY <1>8, <1>10, <1>11, <1>15, <1>18, <2>1 DEF Replaced, AddInvited
  <2>. QED
    BY <1>5, <2>2 DEF Chats
<1>20. Tabbed(B, T, Users) /\ Listed(B, R, L)
  BY <1>3, <1>17, ChannelKinds DEF Tabbed, Listed
<1>21. ChatOK(v, P, Users)
  BY <1>3, <1>16, <1>19, <1>20, ChatsOK
<1>22. ChatBecomes(v) /\ present' = P
  BY <1>2, <1>6, <1>18 DEF ChannelInvite
<1>23. ChatOK(v, present', Users) /\ present' \subseteq Users
  BY <1>3, <1>21, <1>22
<1>. QED
  BY <1>22, <1>23, ChatStepOK

\* The owner does not exclude himself, so the channel keeps its owner.
LEMMA ChannelExcludeStep ==
  ASSUME ChatIInv, NEW u \in Users, NEW g \in Users, ChannelExclude(u, g)
  PROVE  ChatIInv'
<1>1. PICK C, T, R, L : C = channel /\ T = tabs /\ R = report /\ L = listed
  OBVIOUS
<1>2. PICK P : P = present
  OBVIOUS
<1>3. /\ P \subseteq Users
      /\ ChannelsSound(C, P) /\ Tabbed(C, T, Users) /\ Reported(R, P) /\ Listed(C, R, L)
  BY <1>1, <1>2 DEF ChatIInv, ChatOK, ChatWorld
<1>4. PICK w : w = ChatWorld
  OBVIOUS
<1>5. w = Chats(C, T, R, L)
  BY <1>1, <1>4 DEF ChatWorld, Chats
<1>6. u # g
  BY DEF ChannelExclude
<1>7. PICK c \in OwnChannels(w, u) : ChatBecomes(ExcludePlayer(w, c, g))
  BY <1>4 DEF ChannelExclude
<1>8. c \in Slots /\ c \in Channels /\ C[c].owner = u
  BY <1>5, <1>7, ChatsParts, ChannelKinds DEF OwnChannels
<1>9. PICK x : x = C[c]
  OBVIOUS
<1>10. x \in ChannelRecord /\ SoundAt(c, x, P)
  BY <1>3, <1>8, <1>9 DEF ChannelsSound
<1>11. PICK I, Z : I = x.invites \ {g} /\ Z = x.users \ {g}
  OBVIOUS
<1>12. PICK y : y = [x EXCEPT !.invites = I, !.users = Z]
  OBVIOUS
<1>13. /\ y \in ChannelRecord /\ y.owner = x.owner /\ y.invites = I /\ y.ghosts = x.ghosts
       /\ y.exists = x.exists /\ y.users = Z /\ y.uninvited = x.uninvited
  <2>1. I \in SUBSET Users /\ Z \in SUBSET Users
    BY <1>10, <1>11, ChannelFields
  <2>. QED
    BY <1>10, <1>12, <2>1 DEF ChannelRecord
<1>14. SoundAt(c, y, P)
  BY <1>6, <1>8, <1>9, <1>10, <1>11, <1>13, ChannelKinds DEF SoundAt
<1>15. Alone(C, c, y)
  BY <1>3, <1>8, <1>9, <1>13 DEF Alone, ChannelsSound
<1>16. PICK B : B = Replaced(C, c, y)
  OBVIOUS
<1>17. ChannelsSound(B, P) /\ \A d \in Channels : B[d] = IF d = c THEN y ELSE C[d]
  BY <1>3, <1>8, <1>13, <1>14, <1>15, <1>16, OneChannel
<1>18. Quit(C, B, c, g)
  BY <1>8, <1>9, <1>11, <1>13, <1>17 DEF Quit
<1>19. PICK v : v = ExcludePlayer(w, c, g)
  OBVIOUS
<1>20. v = Chats(B, [T EXCEPT ![g] = T[g] \ {c}], R, L)
  <2>1. PICK U : U = [T EXCEPT ![g] = T[g] \ {c}]
    OBVIOUS
  <2>2. PICK j, J, k : /\ j = [x EXCEPT !.invites = I] /\ J = Replaced(C, c, j)
                       /\ k = Chats(J, T, R, L)
    OBVIOUS
  <2>3. w.channel = C /\ w.tabs = T
    BY <1>5, ChatsParts
  <2>4. [w EXCEPT !.channel[c].invites = @ \ {g}] = k
    <3>1. [w EXCEPT !.channel[c].invites = @ \ {g}] = [w EXCEPT !.channel = J]
      BY <1>9, <1>11, <2>2, <2>3 DEF Replaced
    <3>. QED
      BY <1>5, <2>2, <3>1 DEF Chats
  <2>5. k.channel = J /\ J[c] = j /\ j.users = x.users
    <3>1. J[c] = j
      BY <1>3, <1>8, <2>2 DEF Replaced, ChannelsSound
    <3>2. j.users = x.users
      BY <1>10, <2>2 DEF ChannelRecord
    <3>. QED
      BY <2>2, <3>1, <3>2, ChatsParts
  <2>6. Replaced(J, c, [j EXCEPT !.users = Z]) = B
    BY <1>3, <1>12, <1>16, <2>2 DEF Replaced, ChannelsSound
  <2>7. PICK m : m = Chats(B, T, R, L)
    OBVIOUS
  <2>8. [k EXCEPT !.channel[c].users = w.channel[c].users \ {g}] = m
    <3>1. [k EXCEPT !.channel[c].users = w.channel[c].users \ {g}] = [k EXCEPT !.channel = B]
      BY <1>9, <1>11, <2>3, <2>5, <2>6 DEF Replaced
    <3>. QED
      BY <2>2, <2>7, <3>1 DEF Chats
  <2>9. m.tabs = T
    BY <2>7, ChatsParts
  <2>10. [m EXCEPT !.tabs[g] = w.tabs[g] \ {c}] = [m EXCEPT !.tabs = U]
    BY <2>1, <2>3, <2>9
  <2>11. [m EXCEPT !.tabs = U] = Chats(B, U, R, L)
    BY <2>7 DEF Chats
  <2>12. v = [m EXCEPT !.tabs[g] = w.tabs[g] \ {c}]
    BY <1>19, <2>4, <2>8 DEF ExcludePlayer
  <2>. QED
    BY <2>1, <2>10, <2>11, <2>12
<1>21. OnlyHis(L, L, g, c)
  BY <1>3 DEF OnlyHis, Listed
<1>22. ChatOK(v, P, Users)
  BY <1>3, <1>8, <1>17, <1>18, <1>20, <1>21, QuitOK
<1>23. ChatBecomes(v) /\ present' = P
  BY <1>2, <1>7, <1>19 DEF ChannelExclude
<1>24. ChatOK(v, present', Users) /\ present' \subseteq Users
  BY <1>3, <1>22, <1>23
<1>. QED
  BY <1>23, <1>24, ChatStepOK

LEMMA ReportRuleViolationStep ==
  ASSUME ChatIInv, NEW u \in Users, ReportRuleViolation(u)
  PROVE  ChatIInv'
<1>1. PICK w0 : w0 = ChatWorld
  OBVIOUS
<1>2. PICK P : P = present
  OBVIOUS
<1>3. ChatOK(w0, P, Users) /\ P \subseteq Users /\ u \in P
  BY <1>1, <1>2 DEF ChatIInv, ReportRuleViolation
<1>4. PICK w : w = CancelReport(w0, u)
  OBVIOUS
<1>5. ChatOK(w, P, Users)
  BY <1>3, <1>4, CancelReportOK
<1>6. PICK C, T, R, L : w = Chats(C, T, R, L) /\ C = w.channel /\ T = w.tabs /\ R = w.report /\ L = w.listed
  BY <1>5, Zenon DEF ChatOK
<1>7. ChannelsSound(C, P) /\ Tabbed(C, T, Users) /\ Reported(R, P) /\ Listed(C, R, L)
  BY <1>5, <1>6, Zenon DEF ChatOK
<1>8. PICK o : o = Open
  OBVIOUS
<1>9. o \in ReportRecord
  BY <1>8, ReportKinds
<1>10. PICK Q : Q = [R EXCEPT ![u] = o]
  OBVIOUS
<1>11. PICK M : M = [q \in Users |-> IF q \in C[Reports].users THEN L[q] \cup {u} ELSE L[q]]
  OBVIOUS
<1>12. PICK v : v = Chats(C, T, Q, M)
  OBVIOUS
<1>13. ChatBecomes(v)
  <2>1. ChatBecomes([w EXCEPT !.report[u] = o, !.listed = M])
    BY <1>1, <1>4, <1>6, <1>8, <1>11, Zenon DEF ReportRuleViolation
  <2>2. PICK k : k = Chats(C, T, Q, L)
    OBVIOUS
  <2>3. [w EXCEPT !.report[u] = o] = k
    <3>1. [w EXCEPT !.report[u] = o] = [w EXCEPT !.report = Q]
      BY <1>6, <1>10, Zenon
    <3>. QED
      BY <1>6, <2>2, <3>1, SMTT(30) DEF Chats
  <2>4. [k EXCEPT !.listed = M] = v
    BY <1>12, <2>2 DEF Chats
  <2>. QED
    BY <2>1, <2>3, <2>4, Zenon
<1>14. /\ Q \in [Users -> ReportRecord] /\ \A r \in Users : Q[r] = IF r = u THEN o ELSE R[r]
  BY <1>7, <1>9, <1>10 DEF Reported
<1>15. Reported(Q, P)
  BY <1>3, <1>7, <1>8, <1>14 DEF Reported
<1>16. Listed(C, Q, M)
  <2>1. M \in [Users -> SUBSET Users]
    BY <1>7, <1>11 DEF Listed
  <2>2. C[Reports].users \subseteq Users
    BY <1>7, ChannelKinds, ChannelFields DEF ChannelsSound
  <2>3. \A q \in C[Reports].users : M[q] = L[q] \cup {u}
    BY <1>11, <2>2
  <2>. QED
    BY <1>7, <1>8, <1>14, <2>1, <2>3 DEF Listed
<1>17. ChatOK(v, P, Users)
  BY <1>7, <1>12, <1>15, <1>16, ChatsOK
<1>18. present' = P
  BY <1>2 DEF ReportRuleViolation
<1>19. ChatOK(v, present', Users) /\ present' \subseteq Users
  BY <1>3, <1>17, <1>18
<1>. QED
  BY <1>13, <1>19, ChatStepOK

LEMMA ProcessRuleViolationStep ==
  ASSUME ChatIInv, NEW g \in Users, NEW r \in Users, ProcessRuleViolation(g, r)
  PROVE  ChatIInv'
<1>1. PICK w : w = ChatWorld
  OBVIOUS
<1>2. PICK P : P = present
  OBVIOUS
<1>3. ChatOK(w, P, Users) /\ P \subseteq Users /\ g \in P /\ r \in P /\ g \in Gamemasters
  BY <1>1, <1>2 DEF ChatIInv, ProcessRuleViolation
<1>4. PICK x : x = [state |-> "taken", gamemaster |-> g]
  OBVIOUS
<1>5. x \in ReportRecord /\ x.state = "taken" /\ x.gamemaster = g /\ x # Open
  BY <1>3, <1>4, ReportKinds DEF ReportRecord
<1>6. PICK v : v = Unlist([w EXCEPT !.report[r] = x], r)
  OBVIOUS
<1>7. ChatOK(v, P, Users)
  BY <1>3, <1>5, <1>6, UnlistOK
<1>8. ChatBecomes(v) /\ present' = P
  BY <1>1, <1>2, <1>4, <1>6 DEF ProcessRuleViolation
<1>9. ChatOK(v, present', Users) /\ present' \subseteq Users
  BY <1>3, <1>7, <1>8
<1>. QED
  BY <1>8, <1>9, ChatStepOK

LEMMA CloseRuleViolationStep ==
  ASSUME ChatIInv, NEW u \in Users, NEW r \in Users, CloseRuleViolation(u, r)
  PROVE  ChatIInv'
<1>1. PICK w : w = ChatWorld
  OBVIOUS
<1>2. PICK P : P = present
  OBVIOUS
<1>3. ChatOK(w, P, Users) /\ P \subseteq Users
  BY <1>1, <1>2 DEF ChatIInv
<1>4. PICK v : v = CloseReport(w, r)
  OBVIOUS
<1>5. ChatOK(v, P, Users)
  BY <1>3, <1>4, CloseReportOK
<1>6. ChatBecomes(v) /\ present' = P
  BY <1>1, <1>2, <1>4 DEF CloseRuleViolation
<1>7. ChatOK(v, present', Users) /\ present' \subseteq Users
  BY <1>3, <1>5, <1>6
<1>. QED
  BY <1>6, <1>7, ChatStepOK

LEMMA CancelRuleViolationStep ==
  ASSUME ChatIInv, NEW r \in Users, CancelRuleViolation(r)
  PROVE  ChatIInv'
<1>1. PICK w : w = ChatWorld
  OBVIOUS
<1>2. PICK P : P = present
  OBVIOUS
<1>3. ChatOK(w, P, Users) /\ P \subseteq Users
  BY <1>1, <1>2 DEF ChatIInv
<1>4. PICK v : v = CancelReport(w, r)
  OBVIOUS
<1>5. ChatOK(v, P, Users)
  BY <1>3, <1>4, CancelReportOK
<1>6. ChatBecomes(v) /\ present' = P
  BY <1>1, <1>2, <1>4 DEF CancelRuleViolation
<1>7. ChatOK(v, present', Users) /\ present' \subseteq Users
  BY <1>3, <1>5, <1>6
<1>. QED
  BY <1>6, <1>7, ChatStepOK

LEMMA ChatInitOK == ChatInit => ChatIInv /\ StruckInv
<1>. SUFFICES ASSUME ChatInit PROVE ChatIInv /\ StruckInv
  OBVIOUS
<1>1. PICK C, T, R, L : C = channel /\ T = tabs /\ R = report /\ L = listed
  OBVIOUS
<1>2. PICK x, y, n : x = NewChannel /\ y = NoChannel /\ n = NoReport
  OBVIOUS
<1>3. /\ x \in ChannelRecord /\ x.users = {} /\ x.owner = NoUser /\ x.ghosts = {}
      /\ x.uninvited = {} /\ x.exists
      /\ y \in ChannelRecord /\ y.users = {} /\ y.owner = NoUser /\ y.ghosts = {}
      /\ y.uninvited = {} /\ ~y.exists
  BY <1>2 DEF NewChannel, NoChannel, ChannelRecord
<1>4. n \in ReportRecord /\ n # Open
  BY <1>2, ReportKinds
<1>5. /\ C = [c \in Channels |-> IF c \in Public \cup {Reports} THEN x ELSE y]
      /\ T = [u \in Users |-> {}] /\ R = [u \in Users |-> n] /\ L = [u \in Users |-> {}]
  BY <1>1, <1>2 DEF ChatInit
<1>6. /\ C \in [Channels -> ChannelRecord]
      /\ \A c \in Channels : /\ C[c].users = {} /\ C[c].owner = NoUser
                             /\ C[c].ghosts = {} /\ C[c].uninvited = {}
      /\ \A c \in Slots : ~C[c].exists
  <2>1. \A c \in Channels : C[c] = IF c \in Public \cup {Reports} THEN x ELSE y
    BY <1>5
  <2>2. \A c \in Slots : c \in Channels /\ c \notin Public \cup {Reports}
    BY ChatAssumption DEF Channels
  <2>. QED
    BY <1>3, <1>5, <2>1, <2>2
<1>7. ChannelsSound(C, {})
  <2>1. \A c \in Channels : SoundAt(c, C[c], {})
    BY <1>6 DEF SoundAt
  <2>2. \A c \in Slots : C[c].owner = NoUser
    BY <1>6, ChannelKinds
  <2>. QED
    BY <1>6, <2>1, <2>2 DEF ChannelsSound
<1>8. Tabbed(C, T, Users) /\ Reported(R, {}) /\ Listed(C, R, L)
  BY <1>2, <1>4, <1>5, <1>6, ChannelKinds DEF Tabbed, Reported, Listed
<1>9. PICK w : w = ChatWorld
  OBVIOUS
<1>10. w = Chats(C, T, R, L)
  BY <1>1, <1>9 DEF ChatWorld, Chats
<1>11. ChatOK(w, {}, Users)
  BY <1>7, <1>8, <1>10, ChatsOK
<1>12. present = {}
  BY DEF ChatInit
<1>13. StruckInv
  BY DEF ChatInit, StruckInv
<1>. QED
  BY <1>9, <1>11, <1>12, <1>13 DEF ChatIInv

\* Who reaches a ghost reaches one who was uninvited.
LEMMA ReachGhostStep ==
  ASSUME ChatIInv, NEW u \in Users, ReachGhost(u)
  PROVE  ChatIInv' /\ StruckInv'
<1>1. ChatWorld' = ChatWorld /\ present' = present /\ channel' = channel
  BY DEF ReachGhost, ChatWorld
<1>2. ChatIInv'
  BY <1>1 DEF ChatIInv, ChatOK
<1>3. ChannelsSound(channel, present)
  BY DEF ChatIInv, ChatOK, ChatWorld
<1>4. \E c \in Channels : channel[c].uninvited # {}
  BY <1>3 DEF ReachGhost, ChannelsSound, SoundAt
<1>5. struck' = TRUE
  BY DEF ReachGhost
<1>. QED
  BY <1>1, <1>2, <1>4, <1>5 DEF StruckInv

LEMMA ChatNextOK ==
  ASSUME ChatIInv, StruckInv, [ChatNext]_chatVars
  PROVE  ChatIInv' /\ StruckInv'
<1>1. CASE UNCHANGED chatVars
  BY <1>1 DEF ChatIInv, StruckInv, ChatWorld, chatVars, ChatOK
<1>2. CASE ChatNext
  <2>0. struck = FALSE
    BY <1>2 DEF ChatNext, StruckInv
  <2>1. PICK u \in Users :
          \/ ReachGhost(u)
          \/ ChatLogin(u) \/ ChatLeave(u) \/ Takeover(u)
          \/ RequestChannels(u) \/ CreatePrivateChannel(u)
          \/ \E g \in Users : ChannelInvite(u, g) \/ ChannelExclude(u, g)
          \/ \E c \in Channels : OpenChannel(u, c) \/ CloseChannel(u, c)
          \/ ReportRuleViolation(u) \/ CancelRuleViolation(u)
          \/ \E r \in Users : ProcessRuleViolation(u, r) \/ CloseRuleViolation(u, r)
    BY <1>2 DEF ChatNext
  <2>8. CASE ReachGhost(u)
    BY <2>8, ReachGhostStep
  <2>9. ASSUME struck' = struck PROVE StruckInv'
    BY <2>0, <2>9 DEF StruckInv
  <2>2. CASE ChatLogin(u) \/ ChatLeave(u) \/ Takeover(u)
    <3>1. struck' = struck
      BY <2>2 DEF ChatLogin, ChatLeave, Takeover
    <3>. QED
      BY <2>2, <2>9, <3>1, ChatLoginStep, ChatLeaveStep, TakeoverStep
  <2>3. CASE RequestChannels(u) \/ CreatePrivateChannel(u)
    <3>1. struck' = struck
      BY <2>3 DEF RequestChannels, CreatePrivateChannel
    <3>. QED
      BY <2>3, <2>9, <3>1, RequestChannelsStep, CreatePrivateChannelStep
  <2>4. CASE \E g \in Users : ChannelInvite(u, g) \/ ChannelExclude(u, g)
    <3>1. struck' = struck
      BY <2>4 DEF ChannelInvite, ChannelExclude
    <3>. QED
      BY <2>4, <2>9, <3>1, ChannelInviteStep, ChannelExcludeStep
  <2>5. CASE \E c \in Channels : OpenChannel(u, c) \/ CloseChannel(u, c)
    <3>1. struck' = struck
      BY <2>5 DEF OpenChannel, CloseChannel
    <3>. QED
      BY <2>5, <2>9, <3>1, OpenChannelStep, CloseChannelStep
  <2>6. CASE ReportRuleViolation(u) \/ CancelRuleViolation(u)
    <3>1. struck' = struck
      BY <2>6 DEF ReportRuleViolation, CancelRuleViolation
    <3>. QED
      BY <2>6, <2>9, <3>1, ReportRuleViolationStep, CancelRuleViolationStep
  <2>7. CASE \E r \in Users : ProcessRuleViolation(u, r) \/ CloseRuleViolation(u, r)
    <3>1. struck' = struck
      BY <2>7 DEF ProcessRuleViolation, CloseRuleViolation
    <3>. QED
      BY <2>7, <2>9, <3>1, ProcessRuleViolationStep, CloseRuleViolationStep
  <2>. QED
    BY <2>1, <2>2, <2>3, <2>4, <2>5, <2>6, <2>7, <2>8
<1>. QED
  BY <1>1, <1>2

LEMMA ChatIInvConsistent == ChatIInv /\ StruckInv => ChatConsistent
<1>. SUFFICES ASSUME ChatIInv, StruckInv PROVE ChatConsistent
  OBVIOUS
<1>1. /\ ChannelsSound(channel, present) /\ Tabbed(channel, tabs, Users)
      /\ Reported(report, present) /\ Listed(channel, report, listed)
      /\ present \subseteq Users
  BY DEF ChatIInv, ChatOK, ChatWorld
<1>2. ChatTypeOK
  BY <1>1 DEF ChatTypeOK, ChannelsSound, Tabbed, Reported, Listed, ChannelRecord, ReportRecord, StruckInv
<1>3. NoGhosts
  <2>1. \A c \in Channels : /\ channel[c].ghosts \subseteq channel[c].uninvited
                            /\ channel[c].uninvited # {} => c \in Slots
                            /\ channel[c].users \subseteq present
    BY <1>1 DEF ChannelsSound, SoundAt
  <2>3. struck => \E c \in Slots : channel[c].uninvited # {}
    BY <2>1 DEF StruckInv
  <2>2. ASSUME NEW r \in Users, report[r].state # "none"
        PROVE  r \in present /\ (report[r].state = "taken" => report[r].gamemaster \in present)
    BY <1>1, <2>2, ReportKinds DEF Reported
  <2>. QED
    BY <2>1, <2>2, <2>3 DEF NoGhosts
<1>4. OwnerStays
  BY <1>1, ChannelKinds DEF OwnerStays, ChannelsSound, SoundAt
<1>5. ClientsAgree
  <2>1. ASSUME NEW u \in present, NEW c \in Channels
        PROVE  /\ c \in tabs[u] => u \in channel[c].users
               /\ u \in channel[c].users \ channel[c].uninvited => c \in tabs[u]
    BY <1>1, <2>1 DEF Tabbed
  <2>2. ASSUME NEW u \in present, Reports \in tabs[u]
        PROVE  listed[u] = {r \in Users : report[r] = Open}
    <3>1. u \in channel[Reports].users
      BY <1>1, <2>2, ChannelKinds DEF Tabbed
    <3>. QED
      BY <1>1, <3>1 DEF Listed
  <2>. QED
    BY <2>1, <2>2 DEF ClientsAgree
<1>. QED
  BY <1>2, <1>3, <1>4, <1>5 DEF ChatConsistent

\* The channels, tabs and reports stay in order, whoever opens a channel: who
\* opens one uninvited is the only one it may keep and the only one whose client
\* may not show it.
THEOREM ChatInvariant == ChatSpec => [](ChatIInv /\ StruckInv)
<1>1. ChatInit => ChatIInv /\ StruckInv
  BY ChatInitOK
<1>2. ChatIInv /\ StruckInv /\ [ChatNext]_chatVars => (ChatIInv /\ StruckInv)'
  BY ChatNextOK
<1>. QED
  BY <1>1, <1>2, PTL DEF ChatSpec

\* No report keeps a player who left, and no channel one but a private one that
\* it opened uninvited; every private channel has its owner in it, and each
\* client shows the channels and the reports the server means it to show.
THEOREM ChatAlwaysConsistent == ChatSpec => []ChatConsistent
<1>1. ChatSpec => [](ChatIInv /\ StruckInv)
  BY ChatInvariant
<1>2. ChatIInv /\ StruckInv => ChatConsistent
  BY ChatIInvConsistent
<1>. QED
  BY <1>1, <1>2, PTL

=============================================================================
