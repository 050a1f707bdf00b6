------------------------- MODULE GameSessionProofs --------------------------
(***************************************************************************)
(* No pointer between clients and players dangles, and no player has two   *)
(* clients, for any clients, players and settings, whatever the order in   *)
(* which logins, closes, takeovers, kicks and deaths happen.               *)
(***************************************************************************)
EXTENDS GameSession, FiniteSetTheorems, SequenceTheorems, TLAPS

Kinds  == {"login", "connect", "logout", "close", "release"}
Items  == Kinds \X Clients
Delays == {"connect", "release"} \X Clients

Proto == [life : {"idle", "open", "requested", "detached", "deleted"},
          player : Bodies \cup {None}, refs : 0..1,
          target : Bodies \cup {None}, old : Clients \cup {None}]
Body  == [place : {"none", "new", "in", "out", "freed"}, count : Nat,
          client : Clients \cup {None}, connecting : BOOLEAN]

WorldType(w) ==
  w \in [proto : [Clients -> Proto], body : [Bodies -> Body], tasks : Seq(Items),
         timers : SUBSET Delays, toRelease : [Bodies -> Nat]]

\* What a protocol holds for itself: a reference while a connect is due, and
\* then no player yet.
ProtoInv(r) ==
  /\ r.refs = IF r.target = None THEN 0 ELSE 1
  /\ r.life \in {"idle", "deleted"} => r.player = None /\ r.target = None
  /\ r.target # None => r.player = None

Queued(s) == {s[i] : i \in 1..Len(s)}

\* No task is queued twice.  The login of a client comes first, the release
\* last but for the connect that holds it up.
InOrder(s) ==
  /\ \A i, j \in 1..Len(s) : s[i] = s[j] => i = j
  /\ \A i, j \in 1..Len(s) : i < j /\ s[i][2] = s[j][2] =>
       s[j][1] # "login" /\ (s[i][1] = "release" => s[j][1] = "connect")

\* The protocol r is in the state that a task of kind k is for.
Suits(r, k) ==
  /\ r.life \notin {"idle", "deleted"}
  /\ k = "login" => r.life \in {"open", "requested"} /\ r.player = None /\ r.target = None
  /\ k = "close" => r.life = "requested"
  /\ k = "connect" => r.target # None
  /\ k = "release" => r.life = "detached"

\* What timers hold is not queued as well, and a release has nothing to wait
\* for but a connect.
TimerInv(w) ==
  \A t \in w.timers :
    /\ t \notin Queued(w.tasks)
    /\ t[1] = "release" =>
         \A k \in Kinds \ {"connect"} : <<k, t[2]>> \notin Queued(w.tasks)

QueueInv(w) ==
  /\ InOrder(w.tasks)
  /\ TimerInv(w)
  /\ \A t \in Queued(w.tasks) \cup w.timers : Suits(w.proto[t[2]], t[1])

\* A player knows its client and the client knows it; a client that has not
\* lost its connection is the one its player knows.
LinkInv(w) ==
  /\ \A p \in Clients : ProtoInv(w.proto[p])
  /\ \A o \in Bodies : w.body[o].client # None => w.proto[w.body[o].client].player = o
  /\ \A p \in Clients : w.proto[p].life \in {"open", "requested"} /\ w.proto[p].player # None
       => w.body[w.proto[p].player].client = p

Pointing(pr, o) == {p \in Clients : pr[p].player = o}

\* The count of a player: its clients, old ones included, the world while it is
\* in it, and what is still to be given back.
CountInv(w, o) ==
  /\ w.body[o].count = Cardinality(Pointing(w.proto, o))
                         + (IF w.body[o].place = "in" THEN 1 ELSE 0) + w.toRelease[o]
  /\ w.body[o].place \in {"none", "freed"} => w.body[o].count = 0

WorldInv(w) ==
  /\ WorldType(w)
  /\ QueueInv(w)
  /\ LinkInv(w)
  /\ \A o \in Bodies : CountInv(w, o)

IInv == WorldInv(World) /\ kicks \subseteq Bodies /\ late \in BOOLEAN

-----------------------------------------------------------------------------
(* Lists of tasks.                                                         *)

LEMMA AppendOf ==
  ASSUME NEW s \in Seq(Items), NEW t \in Items
  PROVE  /\ Append(s, t) \in Seq(Items)
         /\ Len(s) \in Nat /\ Len(Append(s, t)) = Len(s) + 1
         /\ \A i \in 1..Len(s) : Append(s, t)[i] = s[i]
         /\ Append(s, t)[Len(s) + 1] = t
BY AppendProperties, LenProperties

LEMMA TailOf ==
  ASSUME NEW s \in Seq(Items), s # <<>>
  PROVE  /\ Tail(s) \in Seq(Items)
         /\ Len(s) \in Nat \ {0} /\ Len(Tail(s)) = Len(s) - 1
         /\ \A i \in 1..(Len(s) - 1) : Tail(s)[i] = s[i + 1]
         /\ Head(s) = s[1] /\ s[1] \in Items
BY HeadTailProperties, LenProperties, ElementOfSeq, EmptySeq

LEMMA QueuedType ==
  ASSUME NEW s \in Seq(Items)
  PROVE  Queued(s) \subseteq Items
BY ElementOfSeq DEF Queued

\* A task is queued behind the others of its client, as its kind allows.
LEMMA QueueTask ==
  ASSUME NEW s \in Seq(Items), InOrder(s), NEW k \in Kinds, NEW p \in Clients,
         <<k, p>> \notin Queued(s),
         k = "login" => \A t \in Queued(s) : t[2] # p,
         k # "connect" => <<"release", p>> \notin Queued(s)
  PROVE  /\ Append(s, <<k, p>>) \in Seq(Items)
         /\ InOrder(Append(s, <<k, p>>))
         /\ Queued(Append(s, <<k, p>>)) = Queued(s) \cup {<<k, p>>}
<1>. DEFINE a == Append(s, <<k, p>>)
<1>1. /\ a \in Seq(Items)
      /\ Len(s) \in Nat /\ Len(a) = Len(s) + 1
      /\ \A i \in 1..Len(s) : a[i] = s[i]
      /\ a[Len(s) + 1] = <<k, p>>
  BY AppendOf DEF Items
<1>2. \A i \in 1..Len(s) : s[i] \in Queued(s) /\ s[i] \in Items
  BY QueuedType DEF Queued
<1>. HIDE DEF a
<1>3. Queued(a) = Queued(s) \cup {<<k, p>>}
  <2>1. \A i \in 1..Len(a) : i \in 1..Len(s) \/ i = Len(s) + 1
    BY <1>1
  <2>2. 1..Len(s) \subseteq 1..Len(a) /\ Len(s) + 1 \in 1..Len(a)
    BY <1>1
  <2>3. ASSUME NEW t \in Queued(a) PROVE t \in Queued(s) \cup {<<k, p>>}
    <3>1. PICK i \in 1..Len(a) : t = a[i]
      BY Zenon DEF Queued
    <3>2. CASE i \in 1..Len(s)
      BY <1>1, <1>2, <3>1, <3>2
    <3>3. CASE i = Len(s) + 1
      BY <1>1, <3>1, <3>3
    <3>. QED BY <2>1, <3>2, <3>3, Zenon
  <2>4. ASSUME NEW t \in Queued(s) PROVE t \in Queued(a)
    BY <1>1, <2>2 DEF Queued
  <2>5. <<k, p>> \in Queued(a)
    BY <1>1, <2>2 DEF Queued
  <2>. QED
    BY <2>3, <2>4, <2>5
<1>4. ASSUME NEW i \in 1..Len(a), NEW j \in 1..Len(a), i < j
      PROVE  /\ a[i] # a[j]
             /\ a[i][2] = a[j][2] =>
                  a[j][1] # "login" /\ (a[i][1] = "release" => a[j][1] = "connect")
  <2>1. i \in 1..Len(s) /\ a[i] = s[i]
    BY <1>1, <1>4
  <2>2. CASE j \in 1..Len(s)
    BY <1>1, <1>4, <2>1, <2>2, SMTT(30) DEF InOrder
  <2>3. CASE j = Len(s) + 1
    <3>1. s[i] \in Queued(s) /\ s[i] \in Items /\ a[j] = <<k, p>>
      BY <1>1, <1>2, <2>1, <2>3
    <3>2. s[i][1] = "release" /\ s[i][2] = p => s[i] = <<"release", p>>
      BY <3>1 DEF Items
    <3>. QED
      BY <2>1, <3>1, <3>2
  <2>. QED
    BY <1>1, <2>2, <2>3
<1>5. InOrder(a)
  <2>1. \A i, j \in 1..Len(a) : i \in Nat /\ j \in Nat /\ (i = j \/ i < j \/ j < i)
    BY <1>1
  <2>. QED
    BY <1>4, <2>1 DEF InOrder
<1>. QED
  BY <1>1, <1>3, <1>5 DEF a

\* The first task is taken: no other of the list is like it, and none but a
\* connect comes after a release.
LEMMA TakeTask ==
  ASSUME NEW s \in Seq(Items), s # <<>>, InOrder(s)
  PROVE  /\ Tail(s) \in Seq(Items) /\ InOrder(Tail(s))
         /\ Head(s) \in Queued(s) /\ Head(s) \in Items
         /\ Queued(Tail(s)) = Queued(s) \ {Head(s)}
         /\ \A t \in Queued(Tail(s)) : t[2] = Head(s)[2] =>
              t[1] # "login" /\ (Head(s)[1] = "release" => t[1] = "connect")
<1>. DEFINE b == Tail(s)
<1>1. /\ b \in Seq(Items)
      /\ Len(s) \in Nat \ {0} /\ Len(b) = Len(s) - 1
      /\ \A i \in 1..(Len(s) - 1) : b[i] = s[i + 1]
      /\ Head(s) = s[1] /\ s[1] \in Items
  BY TailOf
<1>. HIDE DEF b
<1>2. \A i \in 1..Len(b) : i + 1 \in 1..Len(s) /\ i + 1 # 1 /\ 1 < i + 1 /\ b[i] = s[i + 1]
  BY <1>1
<1>3. Head(s) \in Queued(s) /\ 1 \in 1..Len(s)
  BY <1>1 DEF Queued
<1>4. InOrder(b)
  <2>1. \A i, j \in 1..Len(b) : (i < j <=> i + 1 < j + 1) /\ (i = j <=> i + 1 = j + 1)
    BY <1>1
  <2>. QED
    BY <1>2, <2>1, SMTT(30) DEF InOrder
<1>5. Queued(b) = Queued(s) \ {Head(s)}
  <2>1. ASSUME NEW t \in Queued(b) PROVE t \in Queued(s) \ {Head(s)}
    <3>1. PICK i \in 1..Len(b) : t = b[i]
      BY <2>1 DEF Queued
    <3>2. t = s[i + 1] /\ i + 1 \in 1..Len(s) /\ s[i + 1] # s[1]
      BY <1>2, <1>3, <3>1 DEF InOrder
    <3>. QED
      BY <1>1, <3>2 DEF Queued
  <2>2. ASSUME NEW t \in Queued(s), t # Head(s) PROVE t \in Queued(b)
    <3>1. PICK i \in 1..Len(s) : t = s[i]
      BY <2>2 DEF Queued
    <3>2. i - 1 \in 1..Len(b) /\ t = b[i - 1]
      BY <1>1, <2>2, <3>1
    <3>. QED
      BY <3>2 DEF Queued
  <2>. QED
    BY <2>1, <2>2
<1>6. ASSUME NEW t \in Queued(b), t[2] = Head(s)[2]
      PROVE  t[1] # "login" /\ (Head(s)[1] = "release" => t[1] = "connect")
  <2>1. PICK i \in 1..Len(b) : t = b[i]
    BY DEF Queued
  <2>. QED
    BY <1>1, <1>2, <1>3, <1>6, <2>1 DEF InOrder
<1>. QED
  BY <1>1, <1>3, <1>4, <1>5, <1>6 DEF b

-----------------------------------------------------------------------------
(* Worlds.                                                                 *)

LEMMA WorldFields ==
  ASSUME NEW w, WorldType(w)
  PROVE  /\ w = [proto |-> w.proto, body |-> w.body, tasks |-> w.tasks,
                 timers |-> w.timers, toRelease |-> w.toRelease]
         /\ w.proto \in [Clients -> Proto] /\ w.body \in [Bodies -> Body]
         /\ w.tasks \in Seq(Items) /\ w.timers \subseteq Delays
         /\ w.toRelease \in [Bodies -> Nat]
BY DEF WorldType

LEMMA PointerTypes ==
  ASSUME NEW w, WorldType(w)
  PROVE  /\ \A p \in Clients :
              /\ w.proto[p] \in Proto
              /\ w.proto[p].player \in Bodies \cup {None}
              /\ w.proto[p].target \in Bodies \cup {None}
         /\ \A o \in Bodies :
              /\ w.body[o] \in Body
              /\ w.body[o].client \in Clients \cup {None}
              /\ w.body[o].count \in Nat
              /\ w.toRelease[o] \in Nat
<1>1. \A p \in Clients : w.proto[p] \in Proto
  BY WorldFields
<1>2. \A o \in Bodies : w.body[o] \in Body /\ w.toRelease[o] \in Nat
  BY WorldFields
<1>. QED
  BY <1>1, <1>2 DEF Proto, Body

LEMMA PairOf ==
  /\ Delays \subseteq Items
  /\ \A t \in Items : t = <<t[1], t[2]>> /\ t[1] \in Kinds /\ t[2] \in Clients
  /\ \A t \in Delays : t[1] \in {"connect", "release"}
BY DEF Delays, Items, Kinds

LEMMA SetProto ==
  ASSUME NEW f \in [Clients -> Proto], NEW p \in Clients, NEW r \in Proto,
         NEW g, g = [f EXCEPT ![p] = r]
  PROVE  g \in [Clients -> Proto] /\ g[p] = r /\ \A q \in Clients \ {p} : g[q] = f[q]
OBVIOUS

LEMMA SetBody ==
  ASSUME NEW f \in [Bodies -> Body], NEW o \in Bodies, NEW r \in Body,
         NEW g, g = [f EXCEPT ![o] = r]
  PROVE  g \in [Bodies -> Body] /\ g[o] = r /\ \A b \in Bodies \ {o} : g[b] = f[b]
OBVIOUS

LEMMA SamePointing ==
  ASSUME NEW a, NEW b, \A q \in Clients : a[q].player = b[q].player, NEW o
  PROVE  Pointing(a, o) = Pointing(b, o)
BY DEF Pointing

\* A protocol whose player stays the same changes no count.
LEMMA SameCounts ==
  ASSUME NEW w, WorldInv(w), NEW v, v.body = w.body, v.toRelease = w.toRelease,
         \A q \in Clients : v.proto[q].player = w.proto[q].player
  PROVE  \A o \in Bodies : CountInv(v, o)
<1>. SUFFICES ASSUME NEW o \in Bodies PROVE CountInv(v, o)
  OBVIOUS
<1>1. Pointing(v.proto, o) = Pointing(w.proto, o)
  BY SamePointing
<1>. QED
  BY <1>1 DEF WorldInv, CountInv

\* A step of the protocol p that leaves its player alone: it may change the
\* tasks and timers of p, as long as they suit what p has become.
LEMMA ChangeProto ==
  ASSUME NEW w, WorldInv(w), NEW p \in Clients, NEW r \in Proto, ProtoInv(r),
         r.player = w.proto[p].player,
         r.life \in {"open", "requested"} /\ r.player # None
           => w.proto[p].life \in {"open", "requested"},
         NEW s \in Seq(Items), InOrder(s), NEW D \in SUBSET Delays,
         \A t \in Queued(s) \cup D : t \in Queued(w.tasks) \cup w.timers \/ t[2] = p,
         \A k \in Kinds : <<k, p>> \in Queued(s) \cup D => Suits(r, k),
         \A t \in D : /\ t \notin Queued(s)
                      /\ t[1] = "release" =>
                           \A k \in Kinds \ {"connect"} : <<k, t[2]>> \notin Queued(s),
         NEW v, v = [proto |-> [w.proto EXCEPT ![p] = r], body |-> w.body, tasks |-> s,
                     timers |-> D, toRelease |-> w.toRelease]
  PROVE  WorldInv(v)
<1>1. /\ v.body = w.body /\ v.toRelease = w.toRelease /\ v.tasks = s /\ v.timers = D
      /\ v.proto \in [Clients -> Proto] /\ v.proto[p] = r
      /\ \A q \in Clients \ {p} : v.proto[q] = w.proto[q]
  BY WorldFields, SetProto DEF WorldInv
<1>2. \A q \in Clients : v.proto[q].player = w.proto[q].player
  BY <1>1
<1>3. WorldType(v)
  BY <1>1, WorldFields DEF WorldInv, WorldType
<1>4. QueueInv(v)
  <2>1. ASSUME NEW t \in Queued(s) \cup D PROVE Suits(v.proto[t[2]], t[1])
    <3>1. t \in Items
      BY PairOf, QueuedType
    <3>2. CASE t[2] = p
      <4>1. t[1] \in Kinds /\ t = <<t[1], p>>
        BY <3>1, <3>2, PairOf
      <4>. QED
        BY <1>1, <2>1, <3>2, <4>1
    <3>3. CASE t[2] # p
      <4>1. Suits(w.proto[t[2]], t[1])
        BY <2>1, <3>3 DEF WorldInv, QueueInv
      <4>2. t[2] \in Clients \ {p}
        BY <3>1, <3>3, PairOf
      <4>. QED
        BY <1>1, <4>1, <4>2
    <3>. QED
      BY <3>2, <3>3
  <2>2. TimerInv(v)
    <3>1. v.timers = D /\ v.tasks = s
      BY <1>1
    <3>. QED
      BY <3>1 DEF TimerInv
  <2>3. InOrder(v.tasks) /\ Queued(v.tasks) \cup v.timers = Queued(s) \cup D
    BY <1>1
  <2>. QED
    BY <2>1, <2>2, <2>3 DEF QueueInv
<1>5. LinkInv(v)
  <2>1. ASSUME NEW q \in Clients PROVE ProtoInv(v.proto[q])
    BY <1>1 DEF WorldInv, LinkInv
  <2>2. \A o \in Bodies : v.body[o].client # None => v.proto[v.body[o].client].player = o
    BY <1>1, <1>2, PointerTypes DEF WorldInv, LinkInv
  <2>3. ASSUME NEW q \in Clients, v.proto[q].life \in {"open", "requested"},
               v.proto[q].player # None
        PROVE  v.body[v.proto[q].player].client = q
    BY <1>1, <1>2, <2>3 DEF WorldInv, LinkInv
  <2>. QED
    BY <2>1, <2>2, <2>3 DEF LinkInv
<1>6. \A o \in Bodies : CountInv(v, o)
  BY <1>1, <1>2, SameCounts
<1>. QED
  BY <1>3, <1>4, <1>5, <1>6 DEF WorldInv

\* What a protocol, the tasks and the timers may become together.
MayBecome(w, p, r, s, D) ==
  /\ r \in Proto /\ ProtoInv(r) /\ r.player = w.proto[p].player
  /\ r.life \in {"open", "requested"} /\ r.player # None => w.proto[p].life \in {"open", "requested"}
  /\ s \in Seq(Items) /\ InOrder(s) /\ D \in SUBSET Delays
  /\ \A t \in Queued(s) \cup D : t \in Queued(w.tasks) \cup w.timers \/ t[2] = p
  /\ \A k \in Kinds : <<k, p>> \in Queued(s) \cup D => Suits(r, k)
  /\ \A t \in D : /\ t \notin Queued(s)
                  /\ t[1] = "release" => \A k \in Kinds \ {"connect"} : <<k, t[2]>> \notin Queued(s)

\* The same, the conditions together.
LEMMA BecomeProto ==
  ASSUME NEW w, WorldInv(w), NEW p \in Clients, NEW r, NEW s, NEW D, MayBecome(w, p, r, s, D)
  PROVE  WorldInv([proto |-> [w.proto EXCEPT ![p] = r], body |-> w.body, tasks |-> s,
                   timers |-> D, toRelease |-> w.toRelease])
<1>. PICK v : v = [proto |-> [w.proto EXCEPT ![p] = r], body |-> w.body, tasks |-> s,
                   timers |-> D, toRelease |-> w.toRelease]
  OBVIOUS
<1>1. WorldInv(v)
  BY ChangeProto DEF MayBecome
<1>. QED BY <1>1

LEMMA DisconnectInv ==
  ASSUME NEW w, WorldInv(w), NEW p \in Clients, NEW v, v = Disconnect(w, p)
  PROVE  /\ WorldInv(v)
         /\ v.body = w.body /\ v.toRelease = w.toRelease /\ v.timers = w.timers
         /\ \A q \in Clients : v.proto[q].player = w.proto[q].player
         /\ \A q \in Clients \ {p} : v.proto[q] = w.proto[q]
         /\ \A t \in Queued(v.tasks) : t \in Queued(w.tasks) \/ t = <<"close", p>>
<1>1. CASE w.proto[p].life # "open"
  BY <1>1 DEF Disconnect
<1>2. CASE w.proto[p].life = "open"
  <2>. DEFINE r == [w.proto[p] EXCEPT !.life = "requested"]
              P == [w.proto EXCEPT ![p] = r]
              s == Append(w.tasks, <<"close", p>>)
  <2>1. v = [proto |-> P, body |-> w.body, tasks |-> s, timers |-> w.timers,
             toRelease |-> w.toRelease]
    <3>1. v = [w EXCEPT !.proto = P, !.tasks = s]
      BY <1>2, Zenon DEF Disconnect
    <3>. HIDE DEF P, s
    <3>. QED
      BY <3>1, WorldFields DEF WorldInv
  <2>2. /\ r \in Proto
        /\ r.life = "requested" /\ r.player = w.proto[p].player
        /\ r.target = w.proto[p].target /\ r.refs = w.proto[p].refs
    <3>1. w.proto[p] \in Proto
      BY WorldFields DEF WorldInv
    <3>. QED
      BY <3>1 DEF Proto
  <2>. HIDE DEF r
  <2>3. ProtoInv(r)
    BY <1>2, <2>2 DEF WorldInv, LinkInv, ProtoInv
  <2>4. \A k \in Kinds : <<k, p>> \in Queued(w.tasks) \cup w.timers =>
          k \notin {"close", "release"} /\ Suits(r, k)
    <3>1. \A k \in Kinds : <<k, p>> \in Queued(w.tasks) \cup w.timers => Suits(w.proto[p], k)
      BY DEF WorldInv, QueueInv
    <3>. QED
      BY <1>2, <2>2, <3>1 DEF Suits
  <2>5. /\ s \in Seq(Items) /\ InOrder(s)
        /\ Queued(s) = Queued(w.tasks) \cup {<<"close", p>>}
    BY <2>4, QueueTask, WorldFields DEF WorldInv, QueueInv, Kinds
  <2>. HIDE DEF s
  <2>6. \A t \in w.timers :
          /\ t \notin Queued(s)
          /\ t[1] = "release" => \A k \in Kinds \ {"connect"} : <<k, t[2]>> \notin Queued(s)
    <3>. SUFFICES ASSUME NEW t \in w.timers
                  PROVE  /\ t # <<"close", p>>
                         /\ t[1] = "release" => t[2] # p
      BY <2>5 DEF WorldInv, QueueInv, TimerInv
    <3>. QED
      BY <2>4, WorldFields, PairOf DEF WorldInv
  <2>7. Suits(r, "close")
    BY <2>2 DEF Suits
  <2>8. WorldInv(v)
    <3>1. w.timers \in SUBSET Delays
      BY WorldFields DEF WorldInv
    <3>2. \A k \in Kinds : <<k, p>> \in Queued(s) \cup w.timers => Suits(r, k)
      BY <2>4, <2>5, <2>7
    <3>3. \A t \in Queued(s) \cup w.timers : t \in Queued(w.tasks) \cup w.timers \/ t[2] = p
      BY <2>5
    <3>. QED
      <4>1. MayBecome(w, p, r, s, w.timers)
        BY <1>2, <2>2, <2>3, <2>5, <2>6, <3>1, <3>2, <3>3 DEF MayBecome
      <4>2. WorldInv([proto |-> [w.proto EXCEPT ![p] = r], body |-> w.body, tasks |-> s,
                      timers |-> w.timers, toRelease |-> w.toRelease])
        BY <4>1, BecomeProto, Zenon
      <4>. QED BY <2>1, <4>2
  <2>9. /\ v.proto[p].player = w.proto[p].player
        /\ \A q \in Clients \ {p} : v.proto[q] = w.proto[q]
    BY <2>1, <2>2, WorldFields, SetProto DEF WorldInv
  <2>. HIDE DEF P
  <2>. QED
    BY <2>1, <2>5, <2>8, <2>9
<1>. QED
  BY <1>1, <1>2

\* A creature leaves the world: its reference is to be given back.
LEMMA RemoveCreatureInv ==
  ASSUME NEW w, WorldInv(w), NEW o \in Bodies, NEW v, v = RemoveCreature(w, o)
  PROVE  WorldInv(v)
<1>1. CASE w.body[o].place # "in"
  BY <1>1 DEF RemoveCreature
<1>2. CASE w.body[o].place = "in"
  <2>. DEFINE r == [w.body[o] EXCEPT !.place = "out"]
              B == [w.body EXCEPT ![o] = r]
              R == [w.toRelease EXCEPT ![o] = @ + 1]
  <2>1. /\ v.body = B /\ v.toRelease = R
        /\ v.proto = w.proto /\ v.tasks = w.tasks /\ v.timers = w.timers
        /\ v = [proto |-> v.proto, body |-> v.body, tasks |-> v.tasks,
                timers |-> v.timers, toRelease |-> v.toRelease]
    <3>1. v = [[w EXCEPT !.body = B] EXCEPT !.toRelease[o] = @ + 1]
      BY <1>2, Zenon DEF RemoveCreature, FreeThing
    <3>. HIDE DEF B
    <3>2. [w EXCEPT !.body = B] = [proto |-> w.proto, body |-> B, tasks |-> w.tasks,
                                   timers |-> w.timers, toRelease |-> w.toRelease]
      BY WorldFields DEF WorldInv
    <3>3. v = [proto |-> w.proto, body |-> B, tasks |-> w.tasks,
               timers |-> w.timers, toRelease |-> R]
      BY <3>1, <3>2
    <3>. QED
      BY <3>3
  <2>2. /\ r \in Body
        /\ r.place = "out" /\ r.count = w.body[o].count /\ r.client = w.body[o].client
    <3>1. w.body[o] \in Body
      BY WorldFields DEF WorldInv
    <3>. QED
      BY <3>1 DEF Body
  <2>. HIDE DEF r
  <2>3. /\ v.body \in [Bodies -> Body] /\ v.body[o] = r
        /\ \A b \in Bodies \ {o} : v.body[b] = w.body[b]
    BY <2>1, <2>2, WorldFields, SetBody DEF WorldInv
  <2>. HIDE DEF B
  <2>4. /\ v.toRelease \in [Bodies -> Nat] /\ v.toRelease[o] = w.toRelease[o] + 1
        /\ \A b \in Bodies \ {o} : v.toRelease[b] = w.toRelease[b]
    BY <2>1, WorldFields DEF WorldInv
  <2>. HIDE DEF R
  <2>5. WorldType(v) /\ QueueInv(v)
    BY <2>1, <2>3, <2>4, WorldFields DEF WorldInv, WorldType, QueueInv, TimerInv
  <2>6. LinkInv(v)
    <3>1. \A b \in Bodies : v.body[b].client = w.body[b].client
      BY <2>2, <2>3
    <3>. QED
      BY <2>1, <3>1, PointerTypes DEF WorldInv, LinkInv
  <2>7. ASSUME NEW b \in Bodies PROVE CountInv(v, b)
    <3>1. CASE b = o
      <4>1. Cardinality(Pointing(w.proto, o)) \in Nat
        BY SessionAssumption, FS_Subset, FS_CardinalityType DEF Pointing
      <4>2. CountInv(w, o) /\ w.toRelease[o] \in Nat
        BY PointerTypes DEF WorldInv
      <4>. QED
        BY <1>2, <2>1, <2>2, <2>3, <2>4, <3>1, <4>1, <4>2 DEF CountInv
    <3>2. CASE b # o
      BY <2>1, <2>3, <2>4, <3>2 DEF WorldInv, CountInv
    <3>. QED
      BY <3>1, <3>2
  <2>. QED
    BY <2>5, <2>6, <2>7 DEF WorldInv
<1>. QED
  BY <1>1, <1>2

LEMMA PointingFinite ==
  ASSUME NEW w, NEW o
  PROVE  /\ IsFiniteSet(Pointing(w.proto, o))
         /\ Cardinality(Pointing(w.proto, o)) \in Nat
<1>1. Pointing(w.proto, o) \in SUBSET Clients
  BY DEF Pointing
<1>. QED
  BY <1>1, SessionAssumption, FS_Subset, FS_CardinalityType

\* Nobody points to a player object that is not there.
LEMMA NobodyPoints ==
  ASSUME NEW w, WorldInv(w), NEW o \in Bodies, w.body[o].place \in {"none", "freed"}
  PROVE  /\ \A p \in Clients : w.proto[p].player # o
         /\ w.body[o].client = None /\ w.body[o].count = 0 /\ w.toRelease[o] = 0
<1>1. /\ w.body[o].count = 0
      /\ Cardinality(Pointing(w.proto, o)) \in Nat /\ w.toRelease[o] \in Nat
      /\ 0 = Cardinality(Pointing(w.proto, o)) + 0 + w.toRelease[o]
  BY PointingFinite, PointerTypes DEF WorldInv, CountInv
<1>2. Cardinality(Pointing(w.proto, o)) = 0 /\ w.toRelease[o] = 0
  BY <1>1
<1>3. Pointing(w.proto, o) = {}
  BY <1>2, PointingFinite, FS_EmptySet
<1>4. \A p \in Clients : w.proto[p].player # o
  BY <1>3 DEF Pointing
<1>5. w.body[o].client = None
  BY <1>4, PointerTypes DEF WorldInv, LinkInv
<1>. QED
  BY <1>1, <1>2, <1>4, <1>5

\* A protocol without a player gets one without a client.
LEMMA GivePlayer ==
  ASSUME NEW w, WorldInv(w), NEW p \in Clients, NEW o \in Bodies,
         w.proto[p].player = None, w.body[o].client = None,
         NEW r \in Proto, ProtoInv(r), r.player = o,
         \A k \in Kinds : <<k, p>> \in Queued(w.tasks) \cup w.timers => Suits(r, k),
         NEW b \in Body, b.client = p, b.place \notin {"none", "freed"},
         b.count = Cardinality(Pointing(w.proto, o)) + 1
                     + (IF b.place = "in" THEN 1 ELSE 0) + w.toRelease[o],
         NEW v, v = [proto |-> [w.proto EXCEPT ![p] = r], body |-> [w.body EXCEPT ![o] = b],
                     tasks |-> w.tasks, timers |-> w.timers, toRelease |-> w.toRelease]
  PROVE  WorldInv(v)
<1>1. /\ v.toRelease = w.toRelease /\ v.tasks = w.tasks /\ v.timers = w.timers
      /\ v.proto \in [Clients -> Proto] /\ v.proto[p] = r
      /\ \A q \in Clients \ {p} : v.proto[q] = w.proto[q]
      /\ v.body \in [Bodies -> Body] /\ v.body[o] = b
      /\ \A c \in Bodies \ {o} : v.body[c] = w.body[c]
  BY WorldFields, SetProto, SetBody DEF WorldInv
<1>2. WorldType(v)
  BY <1>1, WorldFields DEF WorldInv, WorldType
<1>3. QueueInv(v)
  <2>1. ASSUME NEW t \in Queued(w.tasks) \cup w.timers PROVE Suits(v.proto[t[2]], t[1])
    <3>1. t \in Items /\ Suits(w.proto[t[2]], t[1])
      BY PairOf, QueuedType, WorldFields DEF WorldInv, QueueInv
    <3>2. t = <<t[1], t[2]>> /\ t[1] \in Kinds /\ t[2] \in Clients
      BY <3>1, PairOf
    <3>3. CASE t[2] = p
      BY <1>1, <3>2, <3>3
    <3>4. CASE t[2] # p
      BY <1>1, <3>1, <3>2, <3>4
    <3>. QED
      BY <3>3, <3>4
  <2>2. InOrder(v.tasks) /\ TimerInv(v)
    BY <1>1 DEF WorldInv, QueueInv, TimerInv
  <2>. QED
    BY <1>1, <2>1, <2>2 DEF QueueInv
<1>4. LinkInv(v)
  <2>1. ASSUME NEW q \in Clients PROVE ProtoInv(v.proto[q])
    BY <1>1 DEF WorldInv, LinkInv
  <2>2. ASSUME NEW c \in Bodies, v.body[c].client # None
        PROVE  v.proto[v.body[c].client].player = c
    <3>1. CASE c = o
      BY <1>1, <3>1
    <3>2. CASE c # o
      <4>1. /\ v.body[c].client = w.body[c].client /\ w.body[c].client \in Clients
            /\ w.proto[w.body[c].client].player = c
        BY <1>1, <2>2, <3>2, PointerTypes DEF WorldInv, LinkInv
      <4>2. w.body[c].client # p
        BY <4>1, SessionAssumption
      <4>. QED
        BY <1>1, <4>1, <4>2
    <3>. QED
      BY <3>1, <3>2
  <2>3. ASSUME NEW q \in Clients, v.proto[q].life \in {"open", "requested"},
               v.proto[q].player # None
        PROVE  v.body[v.proto[q].player].client = q
    <3>1. CASE q = p
      BY <1>1, <3>1
    <3>2. CASE q # p
      <4>1. /\ v.proto[q] = w.proto[q] /\ w.proto[q].player \in Bodies
            /\ w.body[w.proto[q].player].client = q
        BY <1>1, <2>3, <3>2, PointerTypes DEF WorldInv, LinkInv
      <4>2. w.proto[q].player # o
        BY <4>1, SessionAssumption
      <4>. QED
        BY <1>1, <4>1, <4>2
    <3>. QED
      BY <3>1, <3>2
  <2>. QED
    BY <2>1, <2>2, <2>3 DEF LinkInv
<1>5. ASSUME NEW c \in Bodies PROVE CountInv(v, c)
  <2>1. CASE c = o
    <3>1. Pointing(v.proto, o) = Pointing(w.proto, o) \cup {p}
      BY <1>1 DEF Pointing
    <3>2. p \notin Pointing(w.proto, o)
      BY SessionAssumption DEF Pointing
    <3>3. Cardinality(Pointing(v.proto, o)) = Cardinality(Pointing(w.proto, o)) + 1
      <4>1. PICK S : S = Pointing(w.proto, o)
        OBVIOUS
      <4>2. IsFiniteSet(S) /\ p \notin S
        BY <3>2, <4>1, PointingFinite, Zenon
      <4>3. Cardinality(S \cup {p}) = Cardinality(S) + 1
        BY <4>2, FS_AddElement
      <4>. QED BY <3>1, <4>1, <4>3, Zenon
    <3>. QED
      BY <1>1, <2>1, <3>3 DEF CountInv
  <2>2. CASE c # o
    <3>1. Pointing(v.proto, c) = Pointing(w.proto, c)
      BY <1>1, <2>2, SessionAssumption DEF Pointing
    <3>. QED
      BY <1>1, <2>2, <3>1 DEF WorldInv, CountInv
  <2>. QED
    BY <2>1, <2>2
<1>. QED
  BY <1>2, <1>3, <1>4, <1>5 DEF WorldInv

\* A protocol that is deleted gives its player back.
LEMMA LosePlayer ==
  ASSUME NEW w, WorldInv(w), NEW p \in Clients, NEW o \in Bodies,
         w.proto[p].player = o,
         NEW r \in Proto, ProtoInv(r), r.life = "deleted", r.player = None,
         \A k \in Kinds : <<k, p>> \notin Queued(w.tasks) \cup w.timers,
         NEW b \in Body, b.place = w.body[o].place, b.count = w.body[o].count,
         b.client = IF w.body[o].client = p THEN None ELSE w.body[o].client,
         NEW v, v = [proto |-> [w.proto EXCEPT ![p] = r], body |-> [w.body EXCEPT ![o] = b],
                     tasks |-> w.tasks, timers |-> w.timers,
                     toRelease |-> [w.toRelease EXCEPT ![o] = w.toRelease[o] + 1]]
  PROVE  WorldInv(v)
<1>1. /\ v.tasks = w.tasks /\ v.timers = w.timers
      /\ v.proto \in [Clients -> Proto] /\ v.proto[p] = r
      /\ \A q \in Clients \ {p} : v.proto[q] = w.proto[q]
      /\ v.body \in [Bodies -> Body] /\ v.body[o] = b
      /\ \A c \in Bodies \ {o} : v.body[c] = w.body[c]
  BY WorldFields, SetProto, SetBody DEF WorldInv
<1>2. /\ v.toRelease \in [Bodies -> Nat] /\ v.toRelease[o] = w.toRelease[o] + 1
      /\ \A c \in Bodies \ {o} : v.toRelease[c] = w.toRelease[c]
  <2>1. w.toRelease \in [Bodies -> Nat]
    BY WorldFields DEF WorldInv
  <2>. QED
    BY <2>1
<1>3. WorldType(v)
  BY <1>1, <1>2, WorldFields DEF WorldInv, WorldType
<1>4. QueueInv(v)
  <2>1. ASSUME NEW t \in Queued(w.tasks) \cup w.timers PROVE Suits(v.proto[t[2]], t[1])
    <3>1. t \in Items /\ Suits(w.proto[t[2]], t[1])
      BY PairOf, QueuedType, WorldFields DEF WorldInv, QueueInv
    <3>2. t = <<t[1], t[2]>> /\ t[1] \in Kinds /\ t[2] \in Clients
      BY <3>1, PairOf
    <3>3. t[2] # p
      BY <2>1, <3>2
    <3>. QED
      BY <1>1, <3>1, <3>2, <3>3
  <2>2. InOrder(v.tasks) /\ TimerInv(v)
    BY <1>1 DEF WorldInv, QueueInv, TimerInv
  <2>. QED
    BY <1>1, <2>1, <2>2 DEF QueueInv
<1>5. LinkInv(v)
  <2>1. ASSUME NEW q \in Clients PROVE ProtoInv(v.proto[q])
    BY <1>1 DEF WorldInv, LinkInv
  <2>2. ASSUME NEW c \in Bodies, v.body[c].client # None
        PROVE  v.proto[v.body[c].client].player = c
    <3>1. /\ v.body[c].client = w.body[c].client /\ w.body[c].client \in Clients
          /\ w.proto[w.body[c].client].player = c
      BY <1>1, <2>2, PointerTypes DEF WorldInv, LinkInv
    <3>2. w.body[c].client # p
      BY <1>1, <2>2, <3>1
    <3>. QED
      BY <1>1, <3>1, <3>2
  <2>3. ASSUME NEW q \in Clients, v.proto[q].life \in {"open", "requested"},
               v.proto[q].player # None
        PROVE  v.body[v.proto[q].player].client = q
    <3>1. q # p /\ v.proto[q] = w.proto[q]
      BY <1>1, <2>3
    <3>2. w.proto[q].player \in Bodies /\ w.body[w.proto[q].player].client = q
      BY <2>3, <3>1, PointerTypes DEF WorldInv, LinkInv
    <3>. QED
      BY <1>1, <3>1, <3>2
  <2>. QED
    BY <2>1, <2>2, <2>3 DEF LinkInv
<1>6. ASSUME NEW c \in Bodies PROVE CountInv(v, c)
  <2>1. CASE c = o
    <3>1. Pointing(v.proto, o) = Pointing(w.proto, o) \ {p} /\ p \in Pointing(w.proto, o)
      <4>1. None # o
        BY SessionAssumption
      <4>2. \A q \in Clients : v.proto[q].player = o <=> w.proto[q].player = o /\ q # p
        BY <1>1, <4>1
      <4>. QED
        BY <4>2 DEF Pointing
    <3>2. Cardinality(Pointing(v.proto, o)) = Cardinality(Pointing(w.proto, o)) - 1
      <4>1. IsFiniteSet(Pointing(w.proto, o))
        BY PointingFinite
      <4>2. Cardinality(Pointing(w.proto, o) \ {p}) = Cardinality(Pointing(w.proto, o)) - 1
        BY <3>1, <4>1, FS_RemoveElement
      <4>. QED
        BY <3>1, <4>2
    <3>3. w.body[o].place \notin {"none", "freed"}
      BY NobodyPoints
    <3>4. Cardinality(Pointing(w.proto, o)) \in Nat /\ w.toRelease[o] \in Nat
      BY PointingFinite, PointerTypes DEF WorldInv
    <3>5. CountInv(w, o)
      BY DEF WorldInv
    <3>. QED
      BY <1>1, <1>2, <2>1, <3>2, <3>3, <3>4, <3>5 DEF CountInv
  <2>2. CASE c # o
    <3>1. Pointing(v.proto, c) = Pointing(w.proto, c)
      BY <1>1, <2>2, SessionAssumption DEF Pointing
    <3>. QED
      BY <1>1, <1>2, <2>2, <3>1 DEF WorldInv, CountInv
  <2>. QED
    BY <2>1, <2>2
<1>. QED
  BY <1>3, <1>4, <1>5, <1>6 DEF WorldInv

-----------------------------------------------------------------------------
(* The handlers.                                                           *)

LEMMA LogoutInv ==
  ASSUME NEW w, WorldInv(w), NEW p \in Clients, NEW forced \in BOOLEAN,
         NEW v \in Logout(w, p, forced)
  PROVE  WorldInv(v)
<1>1. CASE v = w
  BY <1>1
<1>2. CASE v # w
  <2>. DEFINE o == w.proto[p].player
  <2>1. o \in Bodies /\ v = RemoveCreature(Disconnect(w, p), o)
    BY <1>2, PointerTypes DEF Logout, WorldInv
  <2>2. WorldInv(Disconnect(w, p))
    BY DisconnectInv
  <2>. QED
    BY <2>1, <2>2, RemoveCreatureInv
<1>. QED
  BY <1>1, <1>2

LEMMA KickPlayerInv ==
  ASSUME NEW w, WorldInv(w), NEW o \in Bodies, NEW v \in KickPlayer(w, o)
  PROVE  WorldInv(v)
<1>1. CASE w.body[o].client # None
  <2>1. w.body[o].client \in Clients /\ v \in Logout(w, w.body[o].client, TRUE)
    BY <1>1, PointerTypes DEF KickPlayer, WorldInv
  <2>. QED
    BY <2>1, LogoutInv
<1>2. CASE w.body[o].client = None
  BY <1>2, RemoveCreatureInv DEF KickPlayer
<1>. QED
  BY <1>1, <1>2

LEMMA PingInv ==
  ASSUME NEW w, WorldInv(w), NEW o \in Bodies, NEW v \in Ping(w, o)
  PROVE  WorldInv(v)
<1>1. CASE v = w
  BY <1>1
<1>2. CASE v # w /\ w.body[o].client = None
  BY <1>2, RemoveCreatureInv DEF Ping
<1>3. CASE v # w /\ w.body[o].client # None
  <2>1. w.body[o].client \in Clients /\ v \in Logout(w, w.body[o].client, TRUE)
    BY <1>3, PointerTypes DEF Ping, WorldInv
  <2>. QED
    BY <2>1, LogoutInv
<1>. QED
  BY <1>1, <1>2, <1>3

LEMMA WithProtoFields ==
  ASSUME NEW w, WorldType(w), NEW p, NEW r
  PROVE  WithProto(w, p, r) =
           [proto |-> [w.proto EXCEPT ![p] = r], body |-> w.body, tasks |-> w.tasks,
            timers |-> w.timers, toRelease |-> w.toRelease]
<1>. DEFINE Q == [w.proto EXCEPT ![p] = r]
<1>1. WithProto(w, p, r) = [w EXCEPT !.proto = Q]
  BY Zenon DEF WithProto
<1>. HIDE DEF Q
<1>2. WithProto(w, p, r) = [proto |-> Q, body |-> w.body, tasks |-> w.tasks,
                            timers |-> w.timers, toRelease |-> w.toRelease]
  BY <1>1, WorldFields
<1>. QED
  BY <1>2 DEF Q

LEMMA WithBodyFields ==
  ASSUME NEW P, NEW B, NEW s, NEW D, NEW R, NEW o, NEW b, NEW w,
         w = [proto |-> P, body |-> B, tasks |-> s, timers |-> D, toRelease |-> R]
  PROVE  WithBody(w, o, b) = [proto |-> P, body |-> [B EXCEPT ![o] = b], tasks |-> s,
                              timers |-> D, toRelease |-> R]
<1>. DEFINE C == [w.body EXCEPT ![o] = b]
<1>1. WithBody(w, o, b) = [w EXCEPT !.body = C]
  BY Zenon DEF WithBody
<1>2. C = [B EXCEPT ![o] = b]
  OBVIOUS
<1>. HIDE DEF C
<1>3. [w EXCEPT !.body = C] = [proto |-> P, body |-> C, tasks |-> s, timers |-> D,
                               toRelease |-> R]
  OBVIOUS
<1>. QED
  BY <1>1, <1>2, <1>3

\* What WithProto and WithBody make of a world.
LEMMA WithFields ==
  ASSUME NEW w, WorldType(w), NEW p, NEW r, NEW o, NEW b
  PROVE  WithBody(WithProto(w, p, r), o, b) =
           [proto |-> [w.proto EXCEPT ![p] = r], body |-> [w.body EXCEPT ![o] = b],
            tasks |-> w.tasks, timers |-> w.timers, toRelease |-> w.toRelease]
<1>. DEFINE Q  == [w.proto EXCEPT ![p] = r]
            w1 == WithProto(w, p, r)
<1>1. w1 = [proto |-> Q, body |-> w.body, tasks |-> w.tasks, timers |-> w.timers,
            toRelease |-> w.toRelease]
  BY WithProtoFields
<1>. HIDE DEF Q, w1
<1>2. WithBody(w1, o, b) = [proto |-> Q, body |-> [w.body EXCEPT ![o] = b],
                            tasks |-> w.tasks, timers |-> w.timers, toRelease |-> w.toRelease]
  BY <1>1, WithBodyFields
<1>. QED
  BY <1>2 DEF Q, w1

LEMMA UnreferencedOf ==
  ASSUME NEW r \in Proto, r.refs = 1, NEW q, q = [r EXCEPT !.refs = @ - 1, !.target = None]
  PROVE  /\ q \in Proto /\ q.player = r.player /\ q.target = None /\ q.refs = 0
         /\ q.life = r.life
<1>1. q = [r EXCEPT !.refs = r.refs - 1, !.target = None]
  BY Zenon
<1>2. q = [r EXCEPT !.refs = 0, !.target = None]
  BY <1>1
<1>3. q = [life |-> r.life, player |-> r.player, refs |-> 0, target |-> None, old |-> r.old]
  BY <1>2 DEF Proto
<1>. QED
  BY <1>3 DEF Proto

TakesOver(c, p, b) == b \in Body /\ b.client = p /\ b.place = c.place /\ b.count = c.count + 1

LEMMA TakenOver ==
  ASSUME NEW c \in Body, NEW p \in Clients, NEW b,
         b = [c EXCEPT !.count = @ + 1, !.connecting = FALSE, !.client = p]
  PROVE  TakesOver(c, p, b)
<1>1. b = [c EXCEPT !.count = c.count + 1, !.connecting = FALSE, !.client = p]
  BY Zenon
<1>. DEFINE n == c.count + 1
            x == FALSE
<1>2. n \in Nat /\ x \in BOOLEAN
  BY DEF Body
<1>3. b = [c EXCEPT !.count = n, !.connecting = x, !.client = p]
  BY <1>1, Zenon
<1>. HIDE DEF n, x
<1>4. b \in Body /\ b.client = p /\ b.place = c.place /\ b.count = n
  BY <1>2, <1>3 DEF Body
<1>. QED
  BY <1>4 DEF n, TakesOver

\* A protocol has its reference to itself back, and waits for nothing.
Unreferenced(r) == [r EXCEPT !.refs = @ - 1, !.target = None]

\* The protocol p gets the player o or is closed.
LEMMA ConnectInv ==
  ASSUME NEW w, WorldType(w), NEW p \in Clients, NEW o \in Bodies,
         w.proto[p].player = None, w.proto[p].refs = 1,
         w.proto[p].life \notin {"idle", "deleted"},
         <<"login", p>> \notin Queued(w.tasks) \cup w.timers,
         WorldInv(WithProto(w, p, Unreferenced(w.proto[p]))),
         NEW v, v = Connect(w, p, o)
  PROVE  WorldInv(v)
<1>. DEFINE q == Unreferenced(w.proto[p])
            u == WithProto(w, p, q)
            r == [q EXCEPT !.player = o]
            b == [w.body[o] EXCEPT !.count = @ + 1, !.connecting = FALSE, !.client = p]
<1>1. v = IF w.body[o].place # "in" \/ w.body[o].client # None
            THEN Disconnect(u, p) ELSE WithBody(WithProto(w, p, r), o, b)
  BY Zenon DEF Connect, Unreferenced
<1>2. /\ q \in Proto /\ q.player = None /\ q.target = None /\ q.refs = 0
      /\ q.life = w.proto[p].life
  <2>1. w.proto[p] \in Proto
    BY WorldFields
  <2>. QED
    BY <2>1, UnreferencedOf DEF Unreferenced
<1>3. WorldInv(u)
  BY DEF Unreferenced
<1>. HIDE DEF q
<1>4. /\ r \in Proto /\ r.player = o /\ r.target = None /\ r.refs = 0
      /\ r.life = w.proto[p].life
  BY <1>2 DEF Proto
<1>. HIDE DEF r
<1>5. u = [proto |-> [w.proto EXCEPT ![p] = q], body |-> w.body, tasks |-> w.tasks,
           timers |-> w.timers, toRelease |-> w.toRelease]
  BY WithProtoFields
<1>6. WithBody(WithProto(w, p, r), o, b) =
        [proto |-> [w.proto EXCEPT ![p] = r], body |-> [w.body EXCEPT ![o] = b],
         tasks |-> w.tasks, timers |-> w.timers, toRelease |-> w.toRelease]
  BY WithFields
<1>. HIDE DEF u
<1>7. CASE w.body[o].place # "in" \/ w.body[o].client # None
  BY <1>1, <1>3, <1>7, DisconnectInv
<1>8. CASE w.body[o].place = "in" /\ w.body[o].client = None
  <2>1. b \in Body /\ b.client = p /\ b.place = "in" /\ b.count = w.body[o].count + 1
    <3>1. w.body[o] \in Body /\ w.body[o].count \in Nat
      BY PointerTypes
    <3>2. TakesOver(w.body[o], p, b)
      BY <3>1, TakenOver, Zenon
    <3>. QED BY <1>8, <3>2, Zenon DEF TakesOver
  <2>. HIDE DEF b
  <2>2. /\ u.proto[p] = q /\ u.body = w.body /\ u.tasks = w.tasks /\ u.timers = w.timers
        /\ u.toRelease = w.toRelease
        /\ [u.proto EXCEPT ![p] = r] = [w.proto EXCEPT ![p] = r]
    BY <1>5, WorldFields
  <2>3. v = [proto |-> [u.proto EXCEPT ![p] = r], body |-> [u.body EXCEPT ![o] = b],
             tasks |-> u.tasks, timers |-> u.timers, toRelease |-> u.toRelease]
    BY <1>1, <1>6, <1>8, <2>2
  <2>4. ProtoInv(r)
    BY <1>4 DEF ProtoInv
  <2>5. \A k \in Kinds : <<k, p>> \in Queued(u.tasks) \cup u.timers => Suits(r, k)
    <3>1. \A k \in Kinds : <<k, p>> \in Queued(u.tasks) \cup u.timers => Suits(q, k)
      BY <1>3, <2>2 DEF WorldInv, QueueInv
    <3>. QED
      BY <1>2, <1>4, <2>2, <3>1 DEF Suits
  <2>6. b.count = Cardinality(Pointing(u.proto, o)) + 1
                    + (IF b.place = "in" THEN 1 ELSE 0) + u.toRelease[o]
    <3>1. CountInv(u, o) /\ Cardinality(Pointing(u.proto, o)) \in Nat /\ u.toRelease[o] \in Nat
      BY <1>3, PointingFinite, PointerTypes DEF WorldInv
    <3>. QED
      BY <1>8, <2>1, <2>2, <3>1 DEF CountInv
  <2>7. u.proto[p].player = None /\ u.body[o].client = None /\ b.place \notin {"none", "freed"}
    BY <1>2, <1>8, <2>1, <2>2
  <2>. QED
    BY <1>3, <1>4, <2>1, <2>3, <2>4, <2>5, <2>6, <2>7, GivePlayer, SMTT(30)
<1>. QED
  BY <1>7, <1>8

-----------------------------------------------------------------------------
(* The tasks.                                                              *)

\* What holds when a task has been taken from the list and is about to run.
Taken(w, k, p) ==
  /\ WorldInv(w)
  /\ Suits(w.proto[p], k)
  /\ <<k, p>> \notin Queued(w.tasks) \cup w.timers
  /\ \A l \in Kinds : <<l, p>> \in Queued(w.tasks) =>
       l # "login" /\ (k = "release" => l = "connect")

\* The tasks and timers that p still has.
LEMMA TakenRest ==
  ASSUME NEW w, NEW k \in Kinds, NEW p \in Clients, Taken(w, k, p)
  PROVE  \A l \in Kinds : <<l, p>> \in Queued(w.tasks) \cup w.timers =>
           /\ Suits(w.proto[p], l) /\ l # k /\ l # "login"
           /\ k = "release" => l = "connect"
<1>. SUFFICES ASSUME NEW l \in Kinds, <<l, p>> \in Queued(w.tasks) \cup w.timers
              PROVE  /\ Suits(w.proto[p], l) /\ l # k /\ l # "login"
                     /\ k = "release" => l = "connect"
  OBVIOUS
<1>1. Suits(w.proto[p], l)
  BY DEF Taken, WorldInv, QueueInv
<1>2. l # k
  BY DEF Taken
<1>3. CASE <<l, p>> \in Queued(w.tasks)
  BY <1>1, <1>2, <1>3 DEF Taken
<1>4. CASE <<l, p>> \in w.timers
  <2>1. l \in {"connect", "release"}
    BY <1>4, WorldFields DEF Taken, WorldInv, Delays
  <2>. QED
    BY <1>1, <1>2, <2>1
<1>. QED
  BY <1>3, <1>4

LEMMA CloseTaskInv ==
  ASSUME NEW w, NEW p \in Clients, Taken(w, "close", p), NEW v, v = CloseTask(w, p)
  PROVE  WorldInv(v)
<1>. DEFINE r == [w.proto[p] EXCEPT !.life = "detached"]
            P == [w.proto EXCEPT ![p] = r]
            s == Append(w.tasks, <<"release", p>>)
<1>0. WorldInv(w) /\ WorldType(w) /\ w.proto[p].life = "requested"
  BY DEF Taken, Suits, WorldInv
<1>1. v = [proto |-> P, body |-> w.body, tasks |-> s, timers |-> w.timers,
           toRelease |-> w.toRelease]
  <2>1. v = [w EXCEPT !.proto = P, !.tasks = s]
    BY <1>0, Zenon DEF CloseTask
  <2>. HIDE DEF P, s
  <2>. QED
    BY <1>0, <2>1, WorldFields
<1>2. /\ r \in Proto
      /\ r.life = "detached" /\ r.player = w.proto[p].player
      /\ r.target = w.proto[p].target /\ r.refs = w.proto[p].refs
  <2>1. w.proto[p] \in Proto
    BY <1>0, WorldFields
  <2>. QED
    BY <2>1 DEF Proto
<1>. HIDE DEF r
<1>3. ProtoInv(r)
  BY <1>0, <1>2 DEF WorldInv, LinkInv, ProtoInv
<1>4. \A k \in Kinds : <<k, p>> \in Queued(w.tasks) \cup w.timers =>
        k # "release" /\ Suits(r, k)
  <2>1. "close" \in Kinds
    BY DEF Kinds
  <2>. QED
    BY <1>0, <1>2, <2>1, TakenRest DEF Suits
<1>5. /\ s \in Seq(Items) /\ InOrder(s)
      /\ Queued(s) = Queued(w.tasks) \cup {<<"release", p>>}
  BY <1>0, <1>4, QueueTask, WorldFields DEF WorldInv, QueueInv, Kinds
<1>. HIDE DEF s
<1>6. \A t \in w.timers :
        /\ t \notin Queued(s)
        /\ t[1] = "release" => \A k \in Kinds \ {"connect"} : <<k, t[2]>> \notin Queued(s)
  <2>. SUFFICES ASSUME NEW t \in w.timers
                PROVE  /\ t # <<"release", p>>
                       /\ t[1] = "release" => t[2] # p
    BY <1>0, <1>5 DEF WorldInv, QueueInv, TimerInv
  <2>. QED
    BY <1>0, <1>4, WorldFields, PairOf
<1>7. Suits(r, "release")
  BY <1>2 DEF Suits
<1>8. w.timers \in SUBSET Delays
  BY <1>0, WorldFields
<1>9. \A k \in Kinds : <<k, p>> \in Queued(s) \cup w.timers => Suits(r, k)
  BY <1>4, <1>5, <1>7
<1>10. \A t \in Queued(s) \cup w.timers : t \in Queued(w.tasks) \cup w.timers \/ t[2] = p
  BY <1>5
<1>. QED
  <2>1. MayBecome(w, p, r, s, w.timers)
    BY <1>0, <1>2, <1>3, <1>5, <1>6, <1>8, <1>9, <1>10 DEF MayBecome
  <2>2. WorldInv([proto |-> [w.proto EXCEPT ![p] = r], body |-> w.body, tasks |-> s,
                  timers |-> w.timers, toRelease |-> w.toRelease])
    BY <1>0, <2>1, BecomeProto, Zenon
  <2>3. v = [proto |-> [w.proto EXCEPT ![p] = r], body |-> w.body, tasks |-> s,
             timers |-> w.timers, toRelease |-> w.toRelease]
    BY <1>1
  <2>. QED BY <2>2, <2>3, Zenon

\* A release that waits for a connect becomes a timer.
LEMMA ReleaseWaits ==
  ASSUME NEW w, NEW p \in Clients, Taken(w, "release", p), w.proto[p].refs > 0,
         NEW v, v = Release(w, p)
  PROVE  WorldInv(v)
<1>0. /\ WorldInv(w) /\ WorldType(w) /\ w.proto[p].life = "detached"
      /\ w.proto[p] \in Proto /\ ProtoInv(w.proto[p])
  BY WorldFields DEF Taken, Suits, WorldInv, LinkInv
<1>1. w.proto[p].player = None
  BY <1>0 DEF ProtoInv
<1>. DEFINE D == w.timers \cup {<<"release", p>>}
<1>2. v = [proto |-> w.proto, body |-> w.body, tasks |-> w.tasks, timers |-> D,
           toRelease |-> w.toRelease]
  <2>1. v = [w EXCEPT !.timers = D]
    BY <1>1, Zenon DEF Release
  <2>. HIDE DEF D
  <2>. QED
    BY <1>0, <2>1, WorldFields
<1>3. [w.proto EXCEPT ![p] = w.proto[p]] = w.proto
  BY <1>0, WorldFields
<1>4. "release" \in Kinds /\ D \in SUBSET Delays
  BY <1>0, WorldFields DEF Kinds, Delays
<1>5. \A k \in Kinds : <<k, p>> \in Queued(w.tasks) \cup D => Suits(w.proto[p], k)
  BY <1>0, <1>4, TakenRest DEF Taken
<1>6. ASSUME NEW t \in D
      PROVE  /\ t \notin Queued(w.tasks)
             /\ t[1] = "release" =>
                  \A k \in Kinds \ {"connect"} : <<k, t[2]>> \notin Queued(w.tasks)
  <2>1. CASE t \in w.timers
    BY <1>0, <2>1 DEF WorldInv, QueueInv, TimerInv
  <2>2. CASE t = <<"release", p>>
    BY <1>4, <2>2, TakenRest DEF Taken
  <2>. QED
    BY <2>1, <2>2
<1>7. w.tasks \in Seq(Items) /\ InOrder(w.tasks)
  BY <1>0, WorldFields DEF WorldInv, QueueInv
<1>8. \A t \in Queued(w.tasks) \cup D : t \in Queued(w.tasks) \cup w.timers \/ t[2] = p
  OBVIOUS
<1>. DEFINE r == w.proto[p]
<1>9. v = [proto |-> [w.proto EXCEPT ![p] = r], body |-> w.body, tasks |-> w.tasks,
           timers |-> D, toRelease |-> w.toRelease]
  BY <1>2, <1>3
<1>10. /\ r \in Proto /\ ProtoInv(r) /\ r.player = w.proto[p].player
       /\ r.life \notin {"open", "requested"}
       /\ \A k \in Kinds : <<k, p>> \in Queued(w.tasks) \cup D => Suits(r, k)
  BY <1>0, <1>5
<1>. HIDE DEF D, r
<1>. QED
  BY <1>0, <1>4, <1>6, <1>7, <1>8, <1>9, <1>10, ChangeProto

LEMMA ReleaseInv ==
  ASSUME NEW w, NEW p \in Clients, Taken(w, "release", p), NEW v, v = Release(w, p)
  PROVE  WorldInv(v)
<1>0. /\ WorldInv(w) /\ WorldType(w) /\ w.proto[p].life = "detached"
      /\ w.proto[p] \in Proto /\ ProtoInv(w.proto[p])
  BY WorldFields DEF Taken, Suits, WorldInv, LinkInv
<1>1. CASE w.proto[p].refs > 0
  BY <1>1, ReleaseWaits
<1>2. CASE ~(w.proto[p].refs > 0)
  <2>. DEFINE o == w.proto[p].player
              r == [w.proto[p] EXCEPT !.life = "deleted", !.player = None]
  <2>1. w.proto[p].refs = 0 /\ w.proto[p].target = None /\ o \in Bodies \cup {None}
    BY <1>0, <1>2, PointerTypes DEF ProtoInv, Proto
  <2>2. \A k \in Kinds : <<k, p>> \notin Queued(w.tasks) \cup w.timers
    <3>1. "release" \in Kinds
      BY DEF Kinds
    <3>. QED
      BY <2>1, <3>1, TakenRest DEF Suits
  <2>3. r \in Proto /\ r.life = "deleted" /\ r.player = None /\ r.target = None /\ r.refs = 0
    BY <1>0, <2>1 DEF Proto
  <2>. HIDE DEF r
  <2>4. ProtoInv(r)
    BY <2>3 DEF ProtoInv
  <2>5. CASE o = None
    <3>1. v = WithProto(w, p, r)
      BY <1>2, <2>5, Zenon DEF Release, r
    <3>2. v = [proto |-> [w.proto EXCEPT ![p] = r], body |-> w.body, tasks |-> w.tasks,
               timers |-> w.timers, toRelease |-> w.toRelease]
      BY <1>0, <3>1, WithProtoFields
    <3>3. w.tasks \in Seq(Items) /\ InOrder(w.tasks) /\ w.timers \in SUBSET Delays
      BY <1>0, WorldFields DEF WorldInv, QueueInv
    <3>4. TimerInv(w)
      BY <1>0 DEF WorldInv, QueueInv
    <3>. QED
      BY <1>0, <2>2, <2>3, <2>4, <2>5, <3>2, <3>3, <3>4, ChangeProto DEF TimerInv
  <2>6. CASE o # None
    <3>. DEFINE b == IF w.body[o].client = p THEN [w.body[o] EXCEPT !.client = None]
                     ELSE w.body[o]
    <3>1. o \in Bodies /\ w.body[o] \in Body
      BY <1>0, <2>1, <2>6, PointerTypes
    <3>. HIDE DEF o
    <3>2. /\ b \in Body /\ b.place = w.body[o].place /\ b.count = w.body[o].count
          /\ b.client = IF w.body[o].client = p THEN None ELSE w.body[o].client
      BY <3>1 DEF Body
    <3>. DEFINE w1 == IF w.body[o].client = p THEN WithBody(w, o, b) ELSE w
    <3>3. v = FreeThing(WithProto(w1, p, r), o)
      BY <1>2, <2>6, Zenon DEF Release, r, o
    <3>4. w1 = [proto |-> w.proto, body |-> [w.body EXCEPT ![o] = b], tasks |-> w.tasks,
                timers |-> w.timers, toRelease |-> w.toRelease]
      <4>1. w = [proto |-> w.proto, body |-> w.body, tasks |-> w.tasks, timers |-> w.timers,
                 toRelease |-> w.toRelease]
        BY <1>0, WorldFields
      <4>2. CASE w.body[o].client = p
        <5>. HIDE DEF b
        <5>. QED
          BY <4>1, <4>2, WithBodyFields
      <4>3. CASE w.body[o].client # p
        <5>1. [w.body EXCEPT ![o] = b] = w.body
          BY <1>0, <3>1, <4>3, WorldFields
        <5>. QED
          BY <4>1, <4>3, <5>1
      <4>. QED
        BY <4>2, <4>3
    <3>. HIDE DEF b, w1
    <3>. DEFINE P == [w.proto EXCEPT ![p] = r]
                B == [w.body EXCEPT ![o] = b]
    <3>5. WithProto(w1, p, r) = [proto |-> P, body |-> B, tasks |-> w.tasks,
                                 timers |-> w.timers, toRelease |-> w.toRelease]
      <4>1. B \in [Bodies -> Body]
        BY <1>0, <3>1, <3>2, WorldFields
      <4>2. WorldType(w1)
        <5>. HIDE DEF B
        <5>. QED
          BY <1>0, <3>4, <4>1, WorldFields DEF WorldType, B
      <4>. QED
        BY <3>4, <4>2, WithProtoFields
    <3>. HIDE DEF P, B
    <3>6a. v = [proto |-> P, body |-> B, tasks |-> w.tasks, timers |-> w.timers,
                toRelease |-> [w.toRelease EXCEPT ![o] = w.toRelease[o] + 1]]
      <4>. DEFINE x == WithProto(w1, p, r)
      <4>1. x = [proto |-> P, body |-> B, tasks |-> w.tasks, timers |-> w.timers,
                 toRelease |-> w.toRelease]
        BY <3>5
      <4>2. v = FreeThing(x, o)
        BY <3>3
      <4>. HIDE DEF x
      <4>. DEFINE S == [x.toRelease EXCEPT ![o] = x.toRelease[o] + 1]
      <4>3. v = [x EXCEPT !.toRelease = S]
        BY <4>2, Zenon DEF FreeThing
      <4>4. S = [w.toRelease EXCEPT ![o] = w.toRelease[o] + 1]
        BY <4>1
      <4>. HIDE DEF S
      <4>5. v = [proto |-> P, body |-> B, tasks |-> w.tasks, timers |-> w.timers,
                 toRelease |-> S]
        BY <4>1, <4>3
      <4>. QED
        BY <4>4, <4>5
    <3>6. v = [proto |-> [w.proto EXCEPT ![p] = r], body |-> [w.body EXCEPT ![o] = b],
               tasks |-> w.tasks, timers |-> w.timers,
               toRelease |-> [w.toRelease EXCEPT ![o] = w.toRelease[o] + 1]]
      BY <3>6a DEF P, B
    <3>7. w.proto[p].player = o
      BY DEF o
    <3>. QED
      BY <1>0, <2>2, <2>3, <2>4, <3>1, <3>2, <3>6, <3>7, LosePlayer, SMTT(30)
  <2>. QED
    BY <2>5, <2>6
<1>. QED
  BY <1>1, <1>2

\* The task of a connect: the protocol has no player until then.
LEMMA ConnectTaskInv ==
  ASSUME NEW w, NEW p \in Clients, Taken(w, "connect", p),
         NEW v, v = Connect(w, p, w.proto[p].target)
  PROVE  WorldInv(v)
<1>. DEFINE r == Unreferenced(w.proto[p])
<1>1. /\ WorldInv(w) /\ WorldType(w) /\ w.proto[p].life \notin {"idle", "deleted"}
      /\ w.proto[p] \in Proto /\ ProtoInv(w.proto[p]) /\ w.proto[p].target # None
  BY WorldFields DEF Taken, Suits, WorldInv, LinkInv
<1>2. w.proto[p].refs = 1 /\ w.proto[p].player = None /\ w.proto[p].target \in Bodies
  BY <1>1, PointerTypes DEF ProtoInv
<1>3. /\ r \in Proto /\ r.player = w.proto[p].player /\ r.target = None /\ r.refs = 0
      /\ r.life = w.proto[p].life
  BY <1>1, <1>2, UnreferencedOf DEF Unreferenced
<1>. HIDE DEF r
<1>4. \A k \in Kinds : <<k, p>> \in Queued(w.tasks) \cup w.timers => k # "login" /\ Suits(r, k)
  <2>. SUFFICES ASSUME NEW k \in Kinds, <<k, p>> \in Queued(w.tasks) \cup w.timers
                PROVE  k # "login" /\ Suits(r, k)
    OBVIOUS
  <2>1. "connect" \in Kinds
    BY DEF Kinds
  <2>2. Suits(w.proto[p], k) /\ k # "login" /\ k # "connect"
    BY <2>1, TakenRest
  <2>. QED
    BY <1>3, <2>2 DEF Suits
<1>5. WorldInv(WithProto(w, p, r))
  <2>1. WithProto(w, p, r) =
          [proto |-> [w.proto EXCEPT ![p] = r], body |-> w.body, tasks |-> w.tasks,
           timers |-> w.timers, toRelease |-> w.toRelease]
    BY <1>1, WithProtoFields
  <2>2. /\ w.tasks \in Seq(Items) /\ InOrder(w.tasks) /\ w.timers \in SUBSET Delays
        /\ TimerInv(w) /\ ProtoInv(r) /\ r.player = None
    BY <1>1, <1>2, <1>3, WorldFields DEF WorldInv, QueueInv, ProtoInv
  <2>. QED
    BY <1>1, <1>3, <1>4, <2>1, <2>2, ChangeProto DEF TimerInv
<1>6. <<"login", p>> \notin Queued(w.tasks) \cup w.timers
  BY <1>4 DEF Kinds
<1>. QED
  BY <1>1, <1>2, <1>5, <1>6, ConnectInv DEF r

\* A login that has its player at once.
LEMMA LoginConnects ==
  ASSUME NEW w, NEW p \in Clients, Taken(w, "login", p), NEW o \in Bodies,
         NEW r, r = [w.proto[p] EXCEPT !.refs = @ + 1],
         NEW v, v = Connect(WithProto(w, p, r), p, o)
  PROVE  WorldInv(v)
<1>. DEFINE x == WithProto(w, p, r)
<1>1. /\ WorldInv(w) /\ WorldType(w) /\ w.proto[p].life \in {"open", "requested"}
      /\ w.proto[p] \in Proto /\ ProtoInv(w.proto[p]) /\ w.proto[p].target = None
      /\ w.proto[p].player = None
  BY WorldFields DEF Taken, Suits, WorldInv, LinkInv
<1>2. w.proto[p].refs = 0
  BY <1>1 DEF ProtoInv
<1>3. /\ r \in Proto /\ r.player = None /\ r.target = None /\ r.refs = 1
      /\ r.life = w.proto[p].life /\ r.old = w.proto[p].old
  <2>1. r = [w.proto[p] EXCEPT !.refs = 1]
    BY <1>2
  <2>. QED
    BY <1>1, <2>1 DEF Proto
<1>4. Unreferenced(r) = w.proto[p]
  <2>1. Unreferenced(r) \in Proto /\ Unreferenced(r) = [r EXCEPT !.refs = 0, !.target = None]
    <3>1. Unreferenced(r) = [r EXCEPT !.refs = r.refs - 1, !.target = None]
      BY Zenon DEF Unreferenced
    <3>. QED
      BY <1>3, <3>1, UnreferencedOf DEF Unreferenced
  <2>2. Unreferenced(r) = [life |-> r.life, player |-> r.player, refs |-> 0,
                           target |-> None, old |-> r.old]
    BY <1>3, <2>1 DEF Proto
  <2>3. w.proto[p] = [life |-> w.proto[p].life, player |-> w.proto[p].player,
                      refs |-> w.proto[p].refs, target |-> w.proto[p].target,
                      old |-> w.proto[p].old]
    BY <1>1 DEF Proto
  <2>. QED
    BY <1>1, <1>2, <1>3, <2>2, <2>3
<1>5. x = [proto |-> [w.proto EXCEPT ![p] = r], body |-> w.body, tasks |-> w.tasks,
           timers |-> w.timers, toRelease |-> w.toRelease]
  BY <1>1, WithProtoFields
<1>6. /\ WorldType(x) /\ x.proto[p] = r /\ x.tasks = w.tasks /\ x.timers = w.timers
      /\ x.body = w.body /\ x.toRelease = w.toRelease /\ x.proto = [w.proto EXCEPT ![p] = r]
  <2>. DEFINE P == [w.proto EXCEPT ![p] = r]
  <2>1. P \in [Clients -> Proto] /\ P[p] = r
    BY <1>1, <1>3, WorldFields
  <2>. HIDE DEF P
  <2>2. /\ x.tasks = w.tasks /\ x.timers = w.timers /\ x.body = w.body
        /\ x.toRelease = w.toRelease /\ x.proto = P
    BY <1>5 DEF P
  <2>3. WorldType(x)
    BY <1>1, <1>5, <2>1, WorldFields DEF WorldType, P
  <2>. QED
    BY <2>1, <2>2, <2>3 DEF P
<1>. HIDE DEF x
<1>7. WithProto(x, p, w.proto[p]) = w
  <2>1. WithProto(x, p, w.proto[p]) =
          [proto |-> [x.proto EXCEPT ![p] = w.proto[p]], body |-> x.body, tasks |-> x.tasks,
           timers |-> x.timers, toRelease |-> x.toRelease]
    BY <1>6, WithProtoFields
  <2>2. [x.proto EXCEPT ![p] = w.proto[p]] = w.proto
    BY <1>1, <1>6, WorldFields
  <2>. QED
    BY <1>1, <1>6, <2>1, <2>2, WorldFields
<1>8. <<"login", p>> \notin Queued(w.tasks) \cup w.timers
  BY DEF Taken
<1>9. WorldInv(WithProto(x, p, Unreferenced(x.proto[p])))
  BY <1>1, <1>4, <1>6, <1>7
<1>10. v = Connect(x, p, o)
  BY DEF x
<1>. QED
  BY <1>1, <1>3, <1>6, <1>8, <1>9, <1>10, ConnectInv

\* A login for which a player object is made: it may be refused after that.
LEMMA LoginNewInv ==
  ASSUME NEW w, NEW p \in Clients, Taken(w, "login", p), NEW v \in LoginNew(w, p)
  PROVE  WorldInv(v)
<1>. DEFINE unused == {c \in Bodies : w.body[c].place = "none"}
            o == CHOOSE c \in unused : TRUE
            r == [w.proto[p] EXCEPT !.player = o]
            b == [w.body[o] EXCEPT !.count = 1, !.place = "new", !.client = p]
            b2 == [b EXCEPT !.place = "in", !.count = 2]
            w1 == WithProto(w, p, r)
<1>1. /\ WorldInv(w) /\ WorldType(w) /\ w.proto[p].life \in {"open", "requested"}
      /\ w.proto[p] \in Proto /\ ProtoInv(w.proto[p]) /\ w.proto[p].target = None
      /\ w.proto[p].player = None
  BY WorldFields DEF Taken, Suits, WorldInv, LinkInv
<1>2. CASE unused = {}
  <2>1. v = Disconnect(w, p)
    BY <1>2, Zenon DEF LoginNew
  <2>. QED
    BY <1>1, <2>1, DisconnectInv
<1>3. CASE unused # {}
  <2>1. o \in unused
    BY <1>3
  <2>2. v \in {Disconnect(WithBody(w1, o, b), p), WithBody(w1, o, b2)}
    BY <1>3, Zenon DEF LoginNew
  <2>3. o \in Bodies /\ w.body[o] \in Body /\ w.body[o].place = "none"
    BY <1>1, <2>1, WorldFields
  <2>. HIDE DEF o, unused
  <2>4. r \in Proto /\ r.player = o /\ r.target = None /\ r.refs = 0 /\ r.life = w.proto[p].life
    BY <1>1, <2>3 DEF Proto, ProtoInv
  <2>5. ProtoInv(r)
    BY <1>1, <2>4 DEF ProtoInv
  <2>6. \A k \in Kinds : <<k, p>> \in Queued(w.tasks) \cup w.timers => Suits(r, k)
    <3>1. "login" \in Kinds
      BY DEF Kinds
    <3>. QED
      BY <1>1, <2>4, <3>1, TakenRest DEF Suits
  <2>7. b \in Body /\ b.client = p /\ b.count = 1 /\ b.place = "new"
    BY <2>3 DEF Body
  <2>. HIDE DEF b
  <2>8. b2 \in Body /\ b2.client = p /\ b2.count = 2 /\ b2.place = "in"
    BY <2>7 DEF Body
  <2>. HIDE DEF b2, r
  <2>9. /\ w.body[o].client = None /\ w.toRelease[o] = 0
        /\ Cardinality(Pointing(w.proto, o)) = 0
    <3>1. \A q \in Clients : w.proto[q].player # o
      BY <1>1, <2>3, NobodyPoints
    <3>2. Pointing(w.proto, o) = {}
      BY <3>1 DEF Pointing
    <3>. QED
      BY <1>1, <2>3, <3>2, NobodyPoints, FS_EmptySet
  <2>10. ASSUME NEW c \in {b, b2} PROVE WorldInv(WithBody(w1, o, c))
    <3>1. WithBody(w1, o, c) =
            [proto |-> [w.proto EXCEPT ![p] = r], body |-> [w.body EXCEPT ![o] = c],
             tasks |-> w.tasks, timers |-> w.timers, toRelease |-> w.toRelease]
      BY <1>1, WithFields
    <3>2. /\ c \in Body /\ c.client = p /\ c.place \notin {"none", "freed"}
          /\ c.count = 0 + 1 + (IF c.place = "in" THEN 1 ELSE 0) + 0
      BY <2>7, <2>8
    <3>. HIDE DEF w1
    <3>. QED
      BY <1>1, <2>3, <2>4, <2>5, <2>6, <2>9, <3>1, <3>2, GivePlayer
  <2>. HIDE DEF w1
  <2>. QED
    BY <2>2, <2>10, DisconnectInv
<1>. QED
  BY <1>2, <1>3

\* A player that is to be taken over: nothing but a flag changes.
LEMMA Marked ==
  ASSUME NEW w, WorldInv(w), NEW o \in Bodies, NEW b \in Body,
         b.place = w.body[o].place, b.count = w.body[o].count, b.client = w.body[o].client,
         NEW v, v = [proto |-> w.proto, body |-> [w.body EXCEPT ![o] = b], tasks |-> w.tasks,
                     timers |-> w.timers, toRelease |-> w.toRelease]
  PROVE  WorldInv(v)
<1>1. /\ v.proto = w.proto /\ v.tasks = w.tasks /\ v.timers = w.timers
      /\ v.toRelease = w.toRelease
      /\ v.body \in [Bodies -> Body] /\ v.body[o] = b
      /\ \A c \in Bodies \ {o} : v.body[c] = w.body[c]
  BY WorldFields, SetBody DEF WorldInv
<1>2. \A c \in Bodies : /\ v.body[c].place = w.body[c].place
                        /\ v.body[c].count = w.body[c].count
                        /\ v.body[c].client = w.body[c].client
  BY <1>1
<1>3. WorldType(v) /\ QueueInv(v)
  BY <1>1, WorldFields DEF WorldInv, WorldType, QueueInv, TimerInv
<1>4. LinkInv(v)
  BY <1>1, <1>2, PointerTypes DEF WorldInv, LinkInv
<1>5. \A c \in Bodies : CountInv(v, c)
  BY <1>1, <1>2 DEF WorldInv, CountInv
<1>. QED
  BY <1>3, <1>4, <1>5 DEF WorldInv

\* A protocol waits for the client c of the player o to leave.
WaitsFor(q, r, o, c) ==
  q \in Proto /\ q.player = r.player /\ q.target = o /\ q.refs = r.refs /\ q.life = r.life

\* The protocol that waits.
LEMMA AwaitsClient ==
  ASSUME NEW r \in Proto, NEW o \in Bodies, NEW c \in Clients
  PROVE  WaitsFor([r EXCEPT !.target = o, !.old = c], r, o, c)
BY DEF WaitsFor, Proto

\* A login that closes the client of its player and waits.
LEMMA LoginWaits ==
  ASSUME NEW w, NEW p \in Clients, Taken(w, "login", p), NEW o \in Bodies, NEW c,
         c = w.body[o].client, c # None,
         NEW r, r = [w.proto[p] EXCEPT !.refs = @ + 1]
  PROVE  WorldInv([WithBody(WithProto(Disconnect(w, c), p,
                                      [r EXCEPT !.target = o, !.old = c]),
                            o, [w.body[o] EXCEPT !.connecting = TRUE])
                     EXCEPT !.timers = @ \cup {<<"connect", p>>}])
<1>. DEFINE v ==
              [WithBody(WithProto(Disconnect(w, c), p, [r EXCEPT !.target = o, !.old = c]),
                        o, [w.body[o] EXCEPT !.connecting = TRUE])
                 EXCEPT !.timers = @ \cup {<<"connect", p>>}]
            u  == Disconnect(w, c)
            r2 == [r EXCEPT !.target = o, !.old = c]
            b  == [w.body[o] EXCEPT !.connecting = TRUE]
            D  == u.timers \cup {<<"connect", p>>}
<1>1. /\ WorldInv(w) /\ WorldType(w) /\ w.proto[p].life \in {"open", "requested"}
      /\ w.proto[p] \in Proto /\ ProtoInv(w.proto[p]) /\ w.proto[p].target = None
      /\ w.proto[p].player = None
  BY WorldFields DEF Taken, Suits, WorldInv, LinkInv
<1>2. c \in Clients /\ c # p /\ w.body[o] \in Body
  <2>1. c \in Clients /\ w.proto[c].player = o /\ w.body[o] \in Body
    BY <1>1, PointerTypes DEF WorldInv, LinkInv
  <2>. QED
    BY <1>1, <2>1, SessionAssumption
<1>3. /\ r2 \in Proto /\ r2.player = None /\ r2.target = o /\ r2.refs = 1
      /\ r2.life = w.proto[p].life
  <2>1. r = [w.proto[p] EXCEPT !.refs = 1]
    BY <1>1 DEF ProtoInv
  <2>2. /\ r \in Proto /\ r.player = None /\ r.refs = 1 /\ r.life = w.proto[p].life
    BY <1>1, <2>1 DEF Proto
  <2>3. WaitsFor(r2, r, o, c)
    BY <1>2, <2>2, AwaitsClient, Zenon
  <2>. QED
    BY <2>2, <2>3, Zenon DEF WaitsFor
<1>4. b \in Body /\ b.place = w.body[o].place /\ b.count = w.body[o].count /\ b.client = c
  BY <1>2 DEF Body
<1>5. /\ WorldInv(u) /\ WorldType(u)
      /\ u.body = w.body /\ u.toRelease = w.toRelease /\ u.timers = w.timers
      /\ u.proto[p] = w.proto[p]
      /\ \A t \in Queued(u.tasks) : t \in Queued(w.tasks) \/ t = <<"close", c>>
  BY <1>1, <1>2, DisconnectInv DEF WorldInv
<1>. HIDE DEF u, r2, b, v
<1>6. v = [proto |-> [u.proto EXCEPT ![p] = r2], body |-> [u.body EXCEPT ![o] = b],
           tasks |-> u.tasks, timers |-> D, toRelease |-> u.toRelease]
  <2>. DEFINE x == WithBody(WithProto(u, p, r2), o, b)
              P == [u.proto EXCEPT ![p] = r2]
              B == [u.body EXCEPT ![o] = b]
              E == x.timers \cup {<<"connect", p>>}
  <2>1. v = [x EXCEPT !.timers = E]
    BY Zenon DEF u, r2, b, v
  <2>2. x = [proto |-> P, body |-> B, tasks |-> u.tasks, timers |-> u.timers,
             toRelease |-> u.toRelease]
    BY <1>5, WithFields
  <2>3. E = D
    BY <2>2
  <2>. HIDE DEF x, P, B, D, E
  <2>. QED
    BY <2>1, <2>2, <2>3 DEF P, B
<1>7. \A k \in Kinds : <<k, p>> \in Queued(u.tasks) \cup D => Suits(r2, k)
  <2>. SUFFICES ASSUME NEW k \in Kinds, <<k, p>> \in Queued(u.tasks) \cup D
                PROVE  Suits(r2, k)
    OBVIOUS
  <2>1. k = "connect" \/ <<k, p>> \in Queued(w.tasks) \cup w.timers
    BY <1>2, <1>5
  <2>2. CASE k = "connect"
    BY <1>1, <1>3, <2>2, SessionAssumption DEF Suits
  <2>3. CASE <<k, p>> \in Queued(w.tasks) \cup w.timers
    <3>1. "login" \in Kinds
      BY DEF Kinds
    <3>2. Suits(w.proto[p], k) /\ k # "login"
      BY <2>3, <3>1, TakenRest
    <3>. QED
      BY <1>1, <1>3, <3>2, SessionAssumption DEF Suits
  <2>. QED
    BY <2>1, <2>2, <2>3
<1>8. <<"connect", p>> \notin Queued(u.tasks)
  <2>1. "connect" \in Kinds /\ "login" \in Kinds
    BY DEF Kinds
  <2>2. <<"connect", p>> \in Queued(w.tasks) => Suits(w.proto[p], "connect")
    BY <2>1, TakenRest
  <2>. QED
    BY <1>1, <1>2, <1>5, <2>2 DEF Suits
<1>9. ASSUME NEW t \in D
      PROVE  /\ t \notin Queued(u.tasks)
             /\ t[1] = "release" =>
                  \A k \in Kinds \ {"connect"} : <<k, t[2]>> \notin Queued(u.tasks)
  <2>1. CASE t \in u.timers
    BY <1>5, <2>1 DEF WorldInv, QueueInv, TimerInv
  <2>2. CASE t = <<"connect", p>>
    BY <1>8, <2>2
  <2>. QED
    BY <2>1, <2>2
<1>10. /\ D \in SUBSET Delays /\ u.tasks \in Seq(Items) /\ InOrder(u.tasks)
       /\ \A t \in Queued(u.tasks) \cup D : t \in Queued(u.tasks) \cup u.timers \/ t[2] = p
  BY <1>5, WorldFields DEF WorldInv, QueueInv, Delays
<1>11. ProtoInv(r2)
  BY <1>1, <1>3, SessionAssumption DEF ProtoInv
<1>. HIDE DEF D
<1>. DEFINE y == [proto |-> [u.proto EXCEPT ![p] = r2], body |-> u.body, tasks |-> u.tasks,
                  timers |-> D, toRelease |-> u.toRelease]
<1>12. WorldInv(y)
  BY <1>1, <1>3, <1>5, <1>7, <1>9, <1>10, <1>11, ChangeProto
<1>13. /\ y.proto = [u.proto EXCEPT ![p] = r2] /\ y.body = u.body /\ y.tasks = u.tasks
       /\ y.timers = D /\ y.toRelease = u.toRelease
  OBVIOUS
<1>. HIDE DEF y
<1>14. v = [proto |-> y.proto, body |-> [y.body EXCEPT ![o] = b], tasks |-> y.tasks,
            timers |-> y.timers, toRelease |-> y.toRelease]
  BY <1>6, <1>13
<1>15. /\ b \in Body /\ b.place = y.body[o].place /\ b.count = y.body[o].count
       /\ b.client = y.body[o].client
  BY <1>4, <1>5, <1>13
<1>16. WorldInv(v)
  BY <1>12, <1>14, <1>15, Marked
<1>. QED
  BY <1>16 DEF v

LEMMA LoginInv ==
  ASSUME NEW w, NEW p \in Clients, Taken(w, "login", p), NEW v \in Login(w, p)
  PROVE  WorldInv(v)
<1>1. CASE v \in LoginNew(w, p)
  BY <1>1, LoginNewInv
<1>2. CASE v \in LoginAgain(w, p)
  <2>1. PICK o \in Online(w) : v = Disconnect(w, p) \/ v = TakeOver(w, p, o)
    BY <1>2 DEF LoginAgain
  <2>. DEFINE c == w.body[o].client
              r == [w.proto[p] EXCEPT !.refs = @ + 1]
              x == [WithBody(WithProto(Disconnect(w, c), p, [r EXCEPT !.target = o, !.old = c]),
                             o, [w.body[o] EXCEPT !.connecting = TRUE])
                      EXCEPT !.timers = @ \cup {<<"connect", p>>}]
              y == Connect(WithProto(w, p, r), p, o)
  <2>2. v = Disconnect(w, p) \/ (c # None /\ v = x) \/ v = y
    BY <2>1, Zenon DEF TakeOver
  <2>3. o \in Bodies
    BY DEF Online
  <2>4. CASE v = Disconnect(w, p)
    BY <2>4, DisconnectInv DEF Taken
  <2>5. CASE c # None /\ v = x
    <3>1. WorldInv(x)
      BY <2>3, <2>5, LoginWaits, Zenon
    <3>. HIDE DEF x
    <3>. QED
      BY <2>5, <3>1
  <2>6. CASE v = y
    <3>1. WorldInv(y)
      BY <2>3, LoginConnects, Zenon
    <3>. HIDE DEF y
    <3>. QED
      BY <2>6, <3>1
  <2>. QED
    BY <2>2, <2>4, <2>5, <2>6
<1>. QED
  BY <1>1, <1>2 DEF Login

-----------------------------------------------------------------------------
(* The actions.                                                            *)

\* The dispatcher takes its next task.
LEMMA TakeHead ==
  ASSUME NEW w, WorldInv(w), w.tasks # <<>>,
         NEW u, u = [proto |-> w.proto, body |-> w.body, tasks |-> Tail(w.tasks),
                     timers |-> w.timers, toRelease |-> w.toRelease]
  PROVE  /\ Head(w.tasks) \in Items
         /\ Taken(u, Head(w.tasks)[1], Head(w.tasks)[2])
<1>. DEFINE h == Head(w.tasks)
            s == Tail(w.tasks)
            p == h[2]
<1>1. /\ u.proto = w.proto /\ u.body = w.body /\ u.tasks = s /\ u.timers = w.timers
      /\ u.toRelease = w.toRelease
  OBVIOUS
<1>2. /\ WorldType(w) /\ w.tasks \in Seq(Items) /\ InOrder(w.tasks) /\ TimerInv(w)
      /\ w.timers \in SUBSET Delays
  BY WorldFields DEF WorldInv, QueueInv
<1>3. /\ s \in Seq(Items) /\ InOrder(s) /\ h \in Queued(w.tasks) /\ h \in Items
      /\ Queued(s) = Queued(w.tasks) \ {h}
      /\ \A t \in Queued(s) : t[2] = h[2] =>
           t[1] # "login" /\ (h[1] = "release" => t[1] = "connect")
  BY <1>2, TakeTask
<1>4. h = <<h[1], p>> /\ h[1] \in Kinds /\ p \in Clients
  BY <1>3, PairOf
<1>. HIDE DEF h, s
<1>5. WorldType(u)
  BY <1>1, <1>2, <1>3, WorldFields DEF WorldType
<1>6. QueueInv(u)
  <2>1. TimerInv(u)
    BY <1>1, <1>2, <1>3 DEF TimerInv
  <2>. QED
    BY <1>1, <1>3, <2>1 DEF WorldInv, QueueInv
<1>7. LinkInv(u)
  BY <1>1 DEF WorldInv, LinkInv
<1>8. \A o \in Bodies : CountInv(u, o)
  BY <1>1 DEF WorldInv, CountInv
<1>9. Suits(u.proto[p], h[1])
  BY <1>1, <1>3 DEF WorldInv, QueueInv
<1>10. <<h[1], p>> \notin Queued(u.tasks) \cup u.timers
  BY <1>1, <1>2, <1>3, <1>4 DEF TimerInv
<1>11. \A l \in Kinds : <<l, p>> \in Queued(u.tasks) =>
         l # "login" /\ (h[1] = "release" => l = "connect")
  BY <1>1, <1>3
<1>12. WorldInv(u)
  BY <1>5, <1>6, <1>7, <1>8 DEF WorldInv
<1>13. Taken(u, h[1], p)
  BY <1>9, <1>10, <1>11, <1>12 DEF Taken
<1>. QED
  BY <1>3, <1>13 DEF h

LEMMA BecomesInv ==
  ASSUME NEW v, WorldInv(v), Becomes(v)
  PROVE  WorldInv(World)'
<1>1. World' = [proto |-> v.proto, body |-> v.body, tasks |-> v.tasks, timers |-> v.timers,
                toRelease |-> v.toRelease]
  BY DEF Becomes, World
<1>2. World' = v
  BY <1>1, WorldFields DEF WorldInv
<1>3. WorldInv(World')
  BY <1>2
<1>. QED
  BY <1>3 DEF WorldInv, WorldType, QueueInv, TimerInv, LinkInv, CountInv

LEMMA RunTaskInv ==
  ASSUME WorldInv(World), RunTask
  PROVE  WorldInv(World)'
<1>. DEFINE h == Head(tasks)
<1>1. PICK u : u = [World EXCEPT !.tasks = Tail(@)]
  OBVIOUS
<1>2. PICK k, p : k = h[1] /\ p = h[2]
  OBVIOUS
<1>3. PICK w : w = World
  OBVIOUS
<1>4. /\ w.proto = proto /\ w.body = body /\ w.tasks = tasks /\ w.timers = timers
      /\ w.toRelease = toRelease
  BY <1>3 DEF World
<1>5. u = [proto |-> w.proto, body |-> w.body, tasks |-> Tail(w.tasks), timers |-> w.timers,
           toRelease |-> w.toRelease]
  BY <1>1, <1>4 DEF World
<1>6. tasks # <<>>
  BY DEF RunTask
<1>7. h \in Items /\ Taken(u, k, p)
  BY <1>2, <1>3, <1>4, <1>5, <1>6, TakeHead
<1>8. k \in Kinds /\ p \in Clients
  BY <1>2, <1>7 DEF Items
<1>9. u.proto = proto
  BY <1>4, <1>5
<1>10. \E v \in CASE k = "login"   -> Login(u, p)
                  [] k = "connect" -> {Connect(u, p, u.proto[p].target)}
                  [] k = "logout"  -> Logout(u, p, FALSE)
                  [] k = "close"   -> {CloseTask(u, p)}
                  [] k = "release" -> {Release(u, p)} :
          Becomes(v)
  BY <1>1, <1>2, <1>9 DEF RunTask
<1>11. PICK v : /\ Becomes(v)
                /\ k = "login" => v \in Login(u, p)
                /\ k = "connect" => v = Connect(u, p, u.proto[p].target)
                /\ k = "logout" => v \in Logout(u, p, FALSE)
                /\ k = "close" => v = CloseTask(u, p)
                /\ k = "release" => v = Release(u, p)
  BY <1>8, <1>10 DEF Kinds
<1>. HIDE DEF h
<1>12. WorldInv(v)
  <2>1. CASE k = "login"
    BY <1>7, <1>8, <1>11, <2>1, LoginInv
  <2>2. CASE k = "connect"
    BY <1>7, <1>8, <1>11, <2>2, ConnectTaskInv
  <2>3. CASE k = "logout"
    BY <1>7, <1>8, <1>11, <2>3, LogoutInv DEF Taken
  <2>4. CASE k = "close"
    BY <1>7, <1>8, <1>11, <2>4, CloseTaskInv
  <2>5. CASE k = "release"
    BY <1>7, <1>8, <1>11, <2>5, ReleaseInv
  <2>. QED
    BY <1>8, <2>1, <2>2, <2>3, <2>4, <2>5 DEF Kinds
<1>. QED
  BY <1>11, <1>12, BecomesInv

\* A task of p is queued, and p becomes r.
LEMMA EnqueueInv ==
  ASSUME NEW w, WorldInv(w), NEW k \in Kinds, NEW p \in Clients, NEW r \in Proto, ProtoInv(r),
         r.player = w.proto[p].player,
         r.life \in {"open", "requested"} /\ r.player # None
           => w.proto[p].life \in {"open", "requested"},
         NEW D \in SUBSET w.timers,
         <<k, p>> \notin Queued(w.tasks) \cup D,
         k = "login" => \A t \in Queued(w.tasks) : t[2] # p,
         k # "connect" => <<"release", p>> \notin Queued(w.tasks) \cup D,
         Suits(r, k),
         \A l \in Kinds : <<l, p>> \in Queued(w.tasks) \cup D => Suits(r, l),
         NEW v, v = [proto |-> [w.proto EXCEPT ![p] = r], body |-> w.body,
                     tasks |-> Append(w.tasks, <<k, p>>), timers |-> D,
                     toRelease |-> w.toRelease]
  PROVE  WorldInv(v)
<1>. DEFINE s == Append(w.tasks, <<k, p>>)
<1>1. w.tasks \in Seq(Items) /\ InOrder(w.tasks) /\ D \in SUBSET Delays
  BY WorldFields DEF WorldInv, QueueInv
<1>2. s \in Seq(Items) /\ InOrder(s) /\ Queued(s) = Queued(w.tasks) \cup {<<k, p>>}
  BY <1>1, QueueTask
<1>. HIDE DEF s
<1>3. ASSUME NEW t \in D
      PROVE  /\ t \notin Queued(s)
             /\ t[1] = "release" => \A l \in Kinds \ {"connect"} : <<l, t[2]>> \notin Queued(s)
  <2>1. /\ t \notin Queued(w.tasks) /\ t = <<t[1], t[2]>>
        /\ t[1] = "release" =>
             \A l \in Kinds \ {"connect"} : <<l, t[2]>> \notin Queued(w.tasks)
    BY <1>1, PairOf DEF WorldInv, QueueInv, TimerInv
  <2>. QED
    BY <1>2, <2>1
<1>4. \A l \in Kinds : <<l, p>> \in Queued(s) \cup D => Suits(r, l)
  BY <1>2
<1>5. \A t \in Queued(s) \cup D : t \in Queued(w.tasks) \cup w.timers \/ t[2] = p
  BY <1>2
<1>6. v = [proto |-> [w.proto EXCEPT ![p] = r], body |-> w.body, tasks |-> s, timers |-> D,
           toRelease |-> w.toRelease]
  BY DEF s
<1>. QED
  BY <1>1, <1>2, <1>3, <1>4, <1>5, <1>6, ChangeProto

LEMMA ArriveInv ==
  ASSUME WorldInv(World), Arrive
  PROVE  WorldInv(World)'
<1>1. PICK p : p = CHOOSE q \in Clients : proto[q].life = "idle"
  OBVIOUS
<1>2. p \in Clients /\ proto[p].life = "idle"
  BY <1>1 DEF Arrive
<1>3. PICK w : w = World
  OBVIOUS
<1>4. /\ w.proto = proto /\ WorldInv(w) /\ WorldType(w)
      /\ w.proto[p] \in Proto /\ ProtoInv(w.proto[p])
  BY <1>2, <1>3, WorldFields DEF World, WorldInv, LinkInv
<1>5. PICK v : v = [w EXCEPT !.proto[p].life = "open", !.tasks = Append(@, <<"login", p>>)]
  OBVIOUS
<1>6. Becomes(v)
  BY <1>1, <1>3, <1>5, Zenon DEF Arrive
<1>. DEFINE r == [w.proto[p] EXCEPT !.life = "open"]
            P == [w.proto EXCEPT ![p] = r]
            s == Append(w.tasks, <<"login", p>>)
<1>7. v = [proto |-> P, body |-> w.body, tasks |-> s, timers |-> w.timers,
           toRelease |-> w.toRelease]
  <2>1. v = [w EXCEPT !.proto = P, !.tasks = s]
    BY <1>5, Zenon
  <2>2. w = [proto |-> w.proto, body |-> w.body, tasks |-> w.tasks, timers |-> w.timers,
             toRelease |-> w.toRelease]
    BY <1>4, WorldFields
  <2>. HIDE DEF P, s
  <2>. QED
    BY <2>1, <2>2
<1>8. /\ r \in Proto /\ r.life = "open" /\ r.player = w.proto[p].player
      /\ r.target = w.proto[p].target /\ r.refs = w.proto[p].refs
  BY <1>4 DEF Proto
<1>. HIDE DEF r
<1>9. r.player = None /\ r.target = None /\ ProtoInv(r)
  BY <1>2, <1>4, <1>8 DEF ProtoInv
<1>10. \A t \in Queued(w.tasks) \cup w.timers : t[2] # p
  BY <1>2, <1>4 DEF WorldInv, QueueInv, Suits
<1>11. \A l : <<l, p>> \notin Queued(w.tasks) \cup w.timers
  BY <1>10
<1>12. "login" \in Kinds /\ Suits(r, "login")
  BY <1>8, <1>9 DEF Kinds, Suits
<1>13. WorldInv(v)
  BY <1>2, <1>4, <1>7, <1>8, <1>9, <1>10, <1>11, <1>12, EnqueueInv
<1>. QED
  BY <1>6, <1>13, BecomesInv

LEMMA RequestLogoutInv ==
  ASSUME WorldInv(World), NEW p \in Clients, RequestLogout(p)
  PROVE  WorldInv(World)'
<1>1. PICK w : w = World
  OBVIOUS
<1>2. /\ w.proto = proto /\ w.tasks = tasks /\ WorldInv(w) /\ WorldType(w)
      /\ w.proto[p] \in Proto /\ ProtoInv(w.proto[p])
  BY <1>1, WorldFields DEF World, WorldInv, LinkInv
<1>3. PICK v : v = [w EXCEPT !.tasks = Append(@, <<"logout", p>>)]
  OBVIOUS
<1>4. Becomes(v) /\ w.proto[p].life \in {"open", "requested"} /\ <<"logout", p>> \notin Queued(w.tasks)
  BY <1>1, <1>2, <1>3 DEF RequestLogout, Queued
<1>. DEFINE r == w.proto[p]
            s == Append(w.tasks, <<"logout", p>>)
<1>5. [w.proto EXCEPT ![p] = r] = w.proto
  BY <1>2, WorldFields
<1>6. v = [proto |-> [w.proto EXCEPT ![p] = r], body |-> w.body, tasks |-> s,
           timers |-> w.timers, toRelease |-> w.toRelease]
  <2>1. v = [w EXCEPT !.tasks = s]
    BY <1>3, Zenon
  <2>. HIDE DEF s
  <2>. QED
    BY <1>2, <1>5, <2>1, WorldFields
<1>7. /\ <<"logout", p>> \notin w.timers /\ <<"release", p>> \notin Queued(w.tasks) \cup w.timers
      /\ \A l \in Kinds : <<l, p>> \in Queued(w.tasks) \cup w.timers => Suits(r, l)
  <2>1. \A l \in Kinds : <<l, p>> \in Queued(w.tasks) \cup w.timers => Suits(r, l)
    BY <1>2 DEF WorldInv, QueueInv
  <2>2. <<"logout", p>> \notin w.timers /\ "release" \in Kinds
    BY <1>2, WorldFields DEF Delays, Kinds
  <2>. QED
    BY <1>4, <2>1, <2>2 DEF Suits
<1>8. "logout" \in Kinds /\ Suits(r, "logout")
  BY <1>4 DEF Kinds, Suits
<1>9. r \in Proto /\ ProtoInv(r) /\ r.player = w.proto[p].player /\ r.life = w.proto[p].life
  BY <1>2
<1>. HIDE DEF r
<1>10. WorldInv(v)
  BY <1>2, <1>4, <1>6, <1>7, <1>8, <1>9, EnqueueInv
<1>. QED
  BY <1>4, <1>10, BecomesInv

LEMMA HangupInv ==
  ASSUME WorldInv(World), NEW p \in Clients, Hangup(p)
  PROVE  WorldInv(World)'
<1>1. PICK w, v : w = World /\ v = Disconnect(w, p)
  OBVIOUS
<1>2. Becomes(v)
  BY <1>1 DEF Hangup
<1>3. WorldInv(v)
  BY <1>1, DisconnectInv
<1>. QED
  BY <1>2, <1>3, BecomesInv

LEMMA TimerEndsInv ==
  ASSUME WorldInv(World), NEW t \in Delays, TimerEnds(t)
  PROVE  WorldInv(World)'
<1>1. PICK w : w = World
  OBVIOUS
<1>2. /\ w.proto = proto /\ w.tasks = tasks /\ w.timers = timers
      /\ WorldInv(w) /\ WorldType(w) /\ t \in w.timers
  BY <1>1 DEF World, WorldInv, TimerEnds
<1>3. PICK v : v = [w EXCEPT !.timers = @ \ {t}, !.tasks = Append(@, t)]
  OBVIOUS
<1>4. Becomes(v)
  BY <1>1, <1>3, Zenon DEF TimerEnds
<1>5. PICK k, p : k = t[1] /\ p = t[2]
  OBVIOUS
<1>6. t = <<k, p>> /\ k \in {"connect", "release"} /\ p \in Clients /\ k \in Kinds
  BY <1>5, PairOf DEF Kinds
<1>. DEFINE r == w.proto[p]
            s == Append(w.tasks, <<k, p>>)
            D == w.timers \ {t}
<1>7. v = [proto |-> [w.proto EXCEPT ![p] = r], body |-> w.body, tasks |-> s, timers |-> D,
           toRelease |-> w.toRelease]
  <2>1. [w.proto EXCEPT ![p] = r] = w.proto
    BY <1>2, <1>6, WorldFields
  <2>2. v = [w EXCEPT !.timers = D, !.tasks = s]
    BY <1>3, <1>6, Zenon
  <2>3. w = [proto |-> w.proto, body |-> w.body, tasks |-> w.tasks, timers |-> w.timers,
             toRelease |-> w.toRelease]
    BY <1>2, WorldFields
  <2>. HIDE DEF s, D
  <2>. QED
    BY <2>1, <2>2, <2>3
<1>8. /\ <<k, p>> \notin Queued(w.tasks) \cup D
      /\ k # "connect" => <<"release", p>> \notin Queued(w.tasks) \cup D
  BY <1>2, <1>6 DEF WorldInv, QueueInv, TimerInv
<1>9. \A l \in Kinds : <<l, p>> \in Queued(w.tasks) \cup w.timers => Suits(r, l)
  BY <1>2, <1>6 DEF WorldInv, QueueInv
<1>10. Suits(r, k)
  BY <1>2, <1>6, <1>9
<1>11. r \in Proto /\ ProtoInv(r) /\ k # "login" /\ D \in SUBSET w.timers
  BY <1>2, <1>6, WorldFields DEF WorldInv, LinkInv
<1>12. r.player = w.proto[p].player /\ r.life = w.proto[p].life
  OBVIOUS
<1>13. \A l \in Kinds : <<l, p>> \in Queued(w.tasks) \cup D => Suits(r, l)
  BY <1>9
<1>. HIDE DEF r, D
<1>14. WorldInv(v)
  BY <1>2, <1>6, <1>7, <1>8, <1>10, <1>11, <1>12, <1>13, EnqueueInv
<1>. QED
  BY <1>4, <1>14, BecomesInv

LEMMA ThinkInv ==
  ASSUME WorldInv(World), NEW o \in Bodies, Think(o)
  PROVE  WorldInv(World)'
<1>1. PICK w : w = World
  OBVIOUS
<1>2. PICK v \in Ping(w, o) : Becomes(v)
  BY <1>1 DEF Think
<1>3. WorldInv(v)
  BY <1>1, <1>2, PingInv
<1>. QED
  BY <1>2, <1>3, BecomesInv

\* An idle player is kicked, at once or when its delayed kick comes.
LEMMA KickInv ==
  ASSUME WorldInv(World), NEW o \in Bodies, CheckIdleTime(o) \/ DelayedKick(o)
  PROVE  WorldInv(World)'
<1>1. PICK w : w = World
  OBVIOUS
<1>2. PICK v \in KickPlayer(w, o) : Becomes(v)
  BY <1>1 DEF CheckIdleTime, DelayedKick
<1>3. WorldInv(v)
  BY <1>1, <1>2, KickPlayerInv
<1>. QED
  BY <1>2, <1>3, BecomesInv

LEMMA DieInv ==
  ASSUME WorldInv(World), NEW o \in Bodies, Die(o)
  PROVE  WorldInv(World)'
<1>1. PICK w, v : w = World /\ v = RemoveCreature(w, o)
  OBVIOUS
<1>2. Becomes(v)
  BY <1>1 DEF Die
<1>3. WorldInv(v)
  BY <1>1, RemoveCreatureInv
<1>. QED
  BY <1>2, <1>3, BecomesInv

\* The counts fall by what is given back; who has none left is in no one's
\* hands.
LEMMA CleanupInv ==
  ASSUME WorldInv(World), Cleanup
  PROVE  WorldInv(World)'
<1>1. PICK w, v : w = World /\ v = World'
  OBVIOUS
<1>2. /\ w.proto = proto /\ w.body = body /\ w.tasks = tasks /\ w.timers = timers
      /\ w.toRelease = toRelease
      /\ WorldInv(w) /\ WorldType(w)
  BY <1>1 DEF World, WorldInv
<1>3. /\ v.proto = w.proto /\ v.body = body' /\ v.tasks = w.tasks /\ v.timers = w.timers
      /\ v.toRelease = [o \in Bodies |-> 0]
      /\ v = [proto |-> v.proto, body |-> v.body, tasks |-> v.tasks, timers |-> v.timers,
              toRelease |-> v.toRelease]
  BY <1>1, <1>2 DEF World, Cleanup
<1>4. ASSUME NEW o \in Bodies
      PROVE  /\ v.body[o] \in Body
             /\ v.body[o].client = w.body[o].client
             /\ CountInv(v, o)
  <2>. DEFINE n == w.body[o].count - w.toRelease[o]
  <2>1. /\ w.body[o] \in Body /\ w.body[o].count \in Nat /\ w.toRelease[o] \in Nat
        /\ Cardinality(Pointing(w.proto, o)) \in Nat
        /\ CountInv(w, o)
    BY <1>2, PointerTypes, PointingFinite DEF WorldInv
  <2>2. /\ n \in Nat
        /\ n = Cardinality(Pointing(w.proto, o)) + (IF w.body[o].place = "in" THEN 1 ELSE 0)
    BY <2>1 DEF CountInv
  <2>3. v.body[o] = IF w.toRelease[o] = 0 THEN w.body[o]
                    ELSE [w.body[o] EXCEPT !.count = n,
                                           !.place = IF n <= 0 THEN "freed" ELSE @]
    <3>1. body'[o] = IF toRelease[o] = 0 THEN body[o]
                     ELSE [body[o] EXCEPT
                             !.count = body[o].count - toRelease[o],
                             !.place = IF body[o].count - toRelease[o] <= 0 THEN "freed" ELSE @]
      BY Zenon DEF Cleanup
    <3>2. v.body[o] = body'[o] /\ w.body = body /\ w.toRelease = toRelease
      BY <1>2, <1>3
    <3>. QED
      BY <3>1, <3>2, Zenon
  <2>4. Pointing(v.proto, o) = Pointing(w.proto, o) /\ v.toRelease[o] = 0
    BY <1>3
  <2>5. CASE w.toRelease[o] = 0
    <3>1. v.body[o] = w.body[o]
      BY <2>3, <2>5
    <3>. HIDE DEF n
    <3>2. CountInv(v, o)
      BY <2>1, <2>4, <2>5, <3>1 DEF CountInv
    <3>. QED
      BY <2>1, <3>1, <3>2
  <2>6. CASE w.toRelease[o] # 0
    <3>. HIDE DEF n
    <3>. DEFINE q == IF n <= 0 THEN "freed" ELSE w.body[o].place
    <3>1. v.body[o] = [w.body[o] EXCEPT !.count = n, !.place = q]
      BY <2>3, <2>6, Zenon
    <3>2. q \in {"none", "new", "in", "out", "freed"}
      BY <2>1 DEF Body
    <3>3. w.body[o].place \notin {"none", "freed"}
      BY <1>2, <2>6, NobodyPoints
    <3>4. /\ n = 0 => q = "freed"
          /\ n # 0 => q = w.body[o].place
      BY <2>2
    <3>5. n = 0 => w.body[o].place # "in"
      BY <2>1, <2>2
    <3>. HIDE DEF q
    <3>6. /\ v.body[o] \in Body /\ v.body[o].client = w.body[o].client
          /\ v.body[o].count = n /\ v.body[o].place = q
      BY <2>1, <2>2, <3>1, <3>2 DEF Body
    <3>7. CountInv(v, o)
      BY <2>1, <2>2, <2>4, <3>3, <3>4, <3>5, <3>6 DEF CountInv
    <3>. QED
      BY <3>6, <3>7
  <2>. QED
    BY <2>5, <2>6
<1>5. WorldType(v)
  <2>1. v.body \in [Bodies -> Body]
    <3>1. v.body = [o \in Bodies |-> v.body[o]]
      BY <1>3 DEF Cleanup
    <3>. QED
      BY <1>4, <3>1
  <2>2. v.toRelease \in [Bodies -> Nat]
    BY <1>3
  <2>. QED
    BY <1>2, <1>3, <2>1, <2>2, WorldFields DEF WorldType
<1>6. QueueInv(v)
  BY <1>2, <1>3 DEF WorldInv, QueueInv, TimerInv
<1>7. LinkInv(v)
  BY <1>2, <1>3, <1>4, PointerTypes DEF WorldInv, LinkInv
<1>8. WorldInv(World')
  BY <1>1, <1>4, <1>5, <1>6, <1>7 DEF WorldInv
<1>. QED
  BY <1>8 DEF WorldInv, WorldType, QueueInv, TimerInv, LinkInv, CountInv

-----------------------------------------------------------------------------
(* The results.                                                            *)

LEMMA InitIInv == Init => IInv
<1>. SUFFICES ASSUME Init PROVE IInv
  OBVIOUS
<1>1. PICK w : w = World
  OBVIOUS
<1>2. /\ w.proto = [p \in Clients |->
                      [life |-> "idle", player |-> None, refs |-> 0, target |-> None,
                       old |-> None]]
      /\ w.body = [o \in Bodies |->
                     [place |-> "none", count |-> 0, client |-> None, connecting |-> FALSE]]
      /\ w.tasks = <<>> /\ w.timers = {} /\ w.toRelease = [o \in Bodies |-> 0]
      /\ w = [proto |-> w.proto, body |-> w.body, tasks |-> w.tasks, timers |-> w.timers,
              toRelease |-> w.toRelease]
  BY <1>1 DEF Init, World
<1>3. WorldType(w)
  <2>1. w.proto \in [Clients -> Proto]
    BY <1>2 DEF Proto
  <2>2. w.body \in [Bodies -> Body]
    <3>. SUFFICES ASSUME NEW o \in Bodies
                  PROVE  [place |-> "none", count |-> 0, client |-> None, connecting |-> FALSE]
                           \in Body
      BY <1>2
    <3>. QED
      BY DEF Body
  <2>3. w.tasks \in Seq(Items)
    BY <1>2
  <2>4. w.toRelease \in [Bodies -> Nat] /\ w.timers \subseteq Delays
    BY <1>2
  <2>5. w = [proto |-> w.proto, body |-> w.body, tasks |-> w.tasks, timers |-> w.timers,
             toRelease |-> w.toRelease]
    BY <1>2
  <2>. QED
    BY <2>1, <2>2, <2>3, <2>4, <2>5 DEF WorldType
<1>4. Len(w.tasks) = 0 /\ Queued(w.tasks) = {}
  BY <1>2 DEF Queued
<1>5. QueueInv(w)
  BY <1>2, <1>4 DEF QueueInv, InOrder, TimerInv
<1>6. LinkInv(w)
  BY <1>2 DEF LinkInv, ProtoInv
<1>7. ASSUME NEW o \in Bodies PROVE CountInv(w, o)
  <2>1. \A p \in Clients : w.proto[p].player # o
    BY <1>2, SessionAssumption
  <2>2. Pointing(w.proto, o) = {}
    BY <2>1 DEF Pointing
  <2>3. /\ w.body[o].count = 0 /\ w.body[o].place = "none" /\ w.toRelease[o] = 0
    BY <1>2
  <2>. QED
    BY <2>2, <2>3, FS_EmptySet DEF CountInv
<1>8. WorldInv(World)
  BY <1>1, <1>3, <1>5, <1>6, <1>7 DEF WorldInv
<1>. QED
  BY <1>8 DEF IInv, Init

LEMMA NextIInv == IInv /\ [Next]_vars => IInv'
<1>. SUFFICES ASSUME IInv, [Next]_vars PROVE IInv'
  OBVIOUS
<1>1. WorldInv(World)
  BY DEF IInv
<1>2. WorldInv(World)'
  <2>1. CASE UNCHANGED vars
    <3>1. World' = World
      BY <2>1 DEF World, vars
    <3>2. WorldInv(World')
      BY <1>1, <3>1
    <3>. QED
      BY <3>2 DEF WorldInv, WorldType, QueueInv, TimerInv, LinkInv, CountInv
  <2>2. CASE Arrive
    BY <1>1, <2>2, ArriveInv
  <2>3. CASE RunTask
    BY <1>1, <2>3, RunTaskInv
  <2>4. CASE Cleanup
    BY <1>1, <2>4, CleanupInv
  <2>5. ASSUME NEW p \in Clients, RequestLogout(p) PROVE WorldInv(World)'
    BY <1>1, <2>5, RequestLogoutInv
  <2>6. ASSUME NEW p \in Clients, Hangup(p) PROVE WorldInv(World)'
    BY <1>1, <2>6, HangupInv
  <2>7. ASSUME NEW t \in Delays, TimerEnds(t) PROVE WorldInv(World)'
    BY <1>1, <2>7, TimerEndsInv
  <2>8. ASSUME NEW o \in Bodies, Think(o) PROVE WorldInv(World)'
    BY <1>1, <2>8, ThinkInv
  <2>9. ASSUME NEW o \in Bodies, CheckIdleTime(o) \/ DelayedKick(o) PROVE WorldInv(World)'
    BY <1>1, <2>9, KickInv
  <2>10. ASSUME NEW o \in Bodies, Die(o) PROVE WorldInv(World)'
    BY <1>1, <2>10, DieInv
  <2>11. ASSUME NEW o \in Bodies, Banish(o) PROVE WorldInv(World)'
    <3>1. World' = World
      BY <2>11 DEF World, Banish
    <3>2. WorldInv(World')
      BY <1>1, <3>1, SMTT(30)
    <3>. QED
      BY <3>2 DEF WorldInv, WorldType, QueueInv, TimerInv, LinkInv, CountInv
  <2>. QED
    BY <2>1, <2>2, <2>3, <2>4, <2>5, <2>6, <2>7, <2>8, <2>9, <2>10, <2>11 DEF Next, Delays
<1>3. (kicks \subseteq Bodies)'
  BY ZenonT(60) DEF IInv, Next, vars, Arrive, RequestLogout, Hangup, RunTask, TimerEnds, Think,
         CheckIdleTime, Banish, DelayedKick, Die, Cleanup
<1>4. (late \in BOOLEAN)'
  <2>1. late' = late \/ late' \in BOOLEAN
    BY Zenon DEF Next, vars, Arrive, RequestLogout, Hangup, RunTask, TimerEnds, Think,
           CheckIdleTime, Banish, DelayedKick, Die, Cleanup
  <2>. QED
    BY <2>1, Zenon DEF IInv
<1>. QED
  BY <1>2, <1>3, <1>4 DEF IInv

LEMMA IInvTypes == IInv => TypeOK
<1>. SUFFICES ASSUME IInv PROVE TypeOK
  OBVIOUS
<1>1. PICK w : w = World
  OBVIOUS
<1>2. /\ w.proto = proto /\ w.body = body /\ w.tasks = tasks /\ w.timers = timers
      /\ w.toRelease = toRelease /\ WorldType(w)
  BY <1>1 DEF World, IInv, WorldInv
<1>3. /\ proto \in [Clients -> Proto] /\ body \in [Bodies -> Body] /\ tasks \in Seq(Items)
      /\ timers \subseteq Delays /\ toRelease \in [Bodies -> Nat]
  BY <1>2, WorldFields
<1>. QED
  BY <1>3, Zenon DEF TypeOK, IInv, Proto, Body, Items, Kinds, Delays

LEMMA IInvPointers == IInv => ClientIsLive /\ PointersLive
<1>. SUFFICES ASSUME IInv PROVE ClientIsLive /\ PointersLive
  OBVIOUS
<1>1. PICK w : w = World
  OBVIOUS
<1>2. /\ w.proto = proto /\ w.body = body /\ w.tasks = tasks /\ w.timers = timers
      /\ WorldInv(w) /\ WorldType(w)
  BY <1>1 DEF World, IInv, WorldInv
<1>3. ASSUME NEW o \in Bodies, body[o].client # None
      PROVE  proto[body[o].client].life # "deleted" /\ proto[body[o].client].player = o
  <2>1. w.body[o].client \in Clients /\ w.proto[w.body[o].client].player = o
    BY <1>2, <1>3, PointerTypes DEF WorldInv, LinkInv
  <2>2. ProtoInv(w.proto[w.body[o].client])
    BY <1>2, <2>1 DEF WorldInv, LinkInv
  <2>. QED
    BY <1>2, <2>1, <2>2, SessionAssumption DEF ProtoInv
<1>4. ASSUME NEW p \in Clients, proto[p].player # None PROVE Alive(proto[p].player)
  <2>1. proto[p].player \in Bodies
    BY <1>2, <1>4, PointerTypes
  <2>2. body[proto[p].player].place \notin {"none", "freed"}
    BY <1>2, <2>1, NobodyPoints
  <2>. QED
    BY <2>2 DEF Alive
<1>5. ASSUME NEW p \in Clients, proto[p].life = "deleted"
      PROVE  /\ \A i \in 1..Len(tasks) : tasks[i][2] # p
             /\ \A t \in timers : t[2] # p
  <2>1. \A t \in Queued(w.tasks) \cup w.timers : t[2] # p
    BY <1>2, <1>5 DEF WorldInv, QueueInv, Suits
  <2>2. \A i \in 1..Len(tasks) : tasks[i] \in Queued(w.tasks)
    BY <1>2 DEF Queued
  <2>. QED
    BY <1>2, <2>1, <2>2
<1>. QED
  BY <1>3, <1>4, <1>5 DEF ClientIsLive, PointersLive

LEMMA IInvController == IInv => OneController
<1>. SUFFICES ASSUME IInv, NEW p \in Clients, NEW q \in Clients,
                     proto[p].life \in {"open", "requested"},
                     proto[q].life \in {"open", "requested"},
                     proto[p].player # None, proto[p].player = proto[q].player
              PROVE  p = q
  BY DEF OneController
<1>1. PICK w : w = World
  OBVIOUS
<1>2. w.proto = proto /\ w.body = body /\ LinkInv(w)
  BY <1>1 DEF World, IInv, WorldInv
<1>3. body[proto[p].player].client = p /\ body[proto[q].player].client = q
  BY <1>2 DEF LinkInv
<1>. QED
  BY <1>3

\* In every state the lists, the counts and the pointers of clients and
\* players agree.
THEOREM Invariant == Spec => []IInv
<1>. QED
  BY InitIInv, NextIInv, PTL DEF Spec

\* No pointer between a client and a player dangles, and no task or timer is
\* left for a deleted client (ProtocolGame::releaseProtocol, Game::cleanup).
THEOREM NothingEverDangles == Spec => []NothingDangles
<1>1. IInv => NothingDangles
  BY IInvTypes, IInvPointers DEF NothingDangles
<1>. QED
  BY <1>1, Invariant, PTL

\* No two open connections control one player (ProtocolGame::login, connect).
THEOREM OneControllerAlways == Spec => []OneController
<1>. QED
  BY IInvController, Invariant, PTL

\* Both, as the run session checks them, for any players and clients.
THEOREM SessionAlwaysConsistent == Spec => []SessionConsistent
<1>. QED
  BY NothingEverDangles, OneControllerAlways, PTL DEF SessionConsistent
=============================================================================
